----------------------------- MODULE ProxyRetry -----------------------------
(***************************************************************************)
(* The retry engine of internal/proxy/handler.go: executeWithRetry and the *)
(* calls it makes into the credential pools.  Requests run concurrently    *)
(* and share the cooldowns and the cursors of the pools.                   *)
(*                                                                         *)
(* A request goes round "loop -> scan -> (least -> asleep) -> picked ->    *)
(* flight -> replied -> failed" until it is answered; "switch" is the code *)
(* after the loop, which changes to another pool of the same model or      *)
(* gives up.                                                               *)
(***************************************************************************)
EXTENDS PoolRing

CONSTANTS
    Requests,     \* concurrent client requests
    Models,       \* core model identities, what ExtractCoreModelAndVersion returns
    Core,         \* Core[p]: the core model of pool p's pattern
    Routes,       \* <<m, p>>: a request for model m is routed to pool p
    Provider,     \* Provider[c]: the provider of credential c
    Streaming,    \* the requests that ask for a stream
    Replies,      \* what an upstream can answer: a status and a kind of body
    Shared,       \* the credentials other nodes of the cluster use too
    AttemptCap,   \* 20 in the code: the most credentials tried in one pool
    MaxCool       \* the longest cooldown, in ticks

(* What the retry loop reads in an error body: a depleted account, a       *)
(* Cloudflare model agreement, Puter's "Permission denied", nothing.       *)
Bodies == {"plain", "depleted", "agreement", "denied"}

ASSUME RetryAssumption ==
    /\ Core \in [Pools -> Models]
    /\ Routes \subseteq Models \X Pools
    /\ Provider \in [Creds -> STRING]
    /\ Streaming \subseteq Requests
    /\ Shared \subseteq Creds
    /\ Replies \subseteq [status : Nat, body : Bodies]
    /\ AttemptCap \in Nat \ {0}
    /\ MaxCool \in Nat
    /\ \A d \in Durations : Ticks[d] <= MaxCool

VARIABLES
    cool,         \* cool[c]: ticks until credential c is available again
    cursor,       \* cursor[p]: the round-robin cursor of pool p
    pc,           \* where each request is in the engine
    want,         \* the core model the client asked for
    pool,         \* pctx.pool: the pool the request is working through
    at,           \* the pool AcquireActiveToken is scanning for the request
    pick,         \* result: the pool and slot acquired
    tried,        \* triedIndices
    triedPools,   \* triedPools
    spins,        \* iterations of the loop in this pool
    rest,         \* ticks left to sleep
    bad,          \* bad[r][v]: attempts with provider v that ended in 400
    last,         \* lastStatus, 0 before the first failure
    reply,        \* what forwardRequest returned
    cancelled,    \* the client's context is done
    answers,      \* statuses written to the client, in order
    sends         \* history: attempts sent upstream; accepting Cloudflare's
                  \* terms after one (handler.go:876) is not counted

poolVars == <<cool, cursor>>
loopVars == <<want, pool, at, pick, tried, triedPools, spins, rest>>
replyVars == <<bad, last, reply, answers, sends>>
vars == <<poolVars, pc, loopVars, replyVars, cancelled>>

Pcs == {"new", "loop", "scan", "least", "asleep", "picked", "flight",
        "replied", "failed", "switch", "done"}

-----------------------------------------------------------------------------
\* The number of credentials a request may try in pool p.
MaxAttempts(p) == IF TotalCount(p) > AttemptCap THEN AttemptCap ELSE TotalCount(p)

MaxSpins(p) == 3 * MaxAttempts(p) + 1

TriedCount(r) == Cardinality(tried[r])

\* The credential a request acquired: result.Credential.
Picked(r) == At(pick[r].pool, pick[r].idx)

Ok(status) == status \in 200..299

\* isCredentialAuthError.
AuthError(status) == status \in {401, 402, 403, 404, 422}

CooldownForStatus(status) ==
    CASE AuthError(status) -> Ticks[10000]
      [] status = 429 -> Ticks[10000]
      [] status \in {500, 502} -> Ticks[3000]
      [] status = 504 -> Ticks[2000]
      [] OTHER -> Ticks[5000]

\* The cooldown a failed reply earns a credential.
Cooldown(rep, c) ==
    CASE rep.body = "agreement" -> Ticks[1000]
      [] rep.body = "depleted" -> Ticks[15000]
      [] rep.body \in {"plain", "denied"} ->
            IF Provider[c] = "puter" /\ rep.status \in {402, 403, 429}
            THEN Ticks[15000]
            ELSE CooldownForStatus(rep.status)

\* What the client is sent when everything failed.
ErrorStatus(status) == IF status \in 400..599 THEN status ELSE 502

\* Mutants of ExactFallbacks: any model will do; a pool can be tried again.
AnyModelFallbacks(m, r) ==
    {p \in Pools : p \notin triedPools[r] /\ HealthyCount(p, cool) > 0}

RetriedFallbacks(m, r) == {p \in Pools : Core[p] = m /\ HealthyCount(p, cool) > 0}

(* FindExactModelFallbacks: pools of core model m that the request has not *)
(* tried and that have a credential past its cooldown.                     *)
ExactFallbacks(m, r) ==
    {p \in Pools : /\ Core[p] = m
                   /\ p \notin triedPools[r]
                   /\ HealthyCount(p, cool) > 0}

(* The search made after the loop: by the requested model, then by the     *)
(* model of the pool that failed.  The third search of the code, the       *)
(* pool's configured fallback if it is of the requested model, untried and *)
(* healthy, finds nothing the first has not found.                         *)
Fallbacks(r) ==
    IF ExactFallbacks(want[r], r) # {}
    THEN ExactFallbacks(want[r], r)
    ELSE ExactFallbacks(Core[pool[r]], r)

Providers == {Provider[c] : c \in Creds}

Goto(r, label) == pc' = [pc EXCEPT ![r] = label]

\* Mutant of FinishCancelled: nothing asks what was written already.
FinishUnasked(r) ==
    /\ cancelled[r]
    /\ Goto(r, "done")
    /\ answers' = [answers EXCEPT ![r] = Append(@, 504)]

\* Write an answer with the given status and leave the engine.
Finish(r, status) ==
    /\ answers' = [answers EXCEPT ![r] = Append(@, status)]
    /\ Goto(r, "done")

\* The 504 of a cancelled request, unless something was written already.
FinishCancelled(r) ==
    /\ cancelled[r]
    /\ Goto(r, "done")
    /\ answers' = [answers EXCEPT ![r] = IF @ = <<>> THEN <<504>> ELSE @]
-----------------------------------------------------------------------------
\* Nothing has been returned by forwardRequest (in this iteration).
NoReply == [status |-> 0, body |-> "plain"]

Init ==
    /\ cool = [c \in Creds |-> 0]
    /\ cursor = [p \in Pools |-> 0]
    /\ pc = [r \in Requests |-> "new"]
    /\ \E route \in [Requests -> Routes] :
        /\ want = [r \in Requests |-> route[r][1]]
        /\ pool = [r \in Requests |-> route[r][2]]
        /\ at = [r \in Requests |-> route[r][2]]
        /\ pick = [r \in Requests |-> [pool |-> route[r][2], idx |-> 0]]
        /\ triedPools = [r \in Requests |-> {route[r][2]}]
    /\ tried = [r \in Requests |-> {}]
    /\ spins = [r \in Requests |-> 0]
    /\ rest = [r \in Requests |-> 0]
    /\ bad = [r \in Requests |-> [v \in Providers |-> 0]]
    /\ last = [r \in Requests |-> 0]
    /\ reply = [r \in Requests |-> NoReply]
    /\ cancelled = [r \in Requests |-> FALSE]
    /\ answers = [r \in Requests |-> <<>>]
    /\ sends = [r \in Requests |-> 0]

\* Handle has found the pool and calls executeWithRetry.
Arrive(r) ==
    /\ pc[r] = "new"
    /\ Goto(r, "loop")
    /\ UNCHANGED <<poolVars, loopVars, replyVars, cancelled>>

\* The client disconnects or its deadline passes.
Cancel(r) ==
    /\ pc[r] \notin {"new", "done"}
    /\ ~cancelled[r]
    /\ cancelled' = [cancelled EXCEPT ![r] = TRUE]
    /\ UNCHANGED <<poolVars, pc, loopVars, replyVars>>

\* Every attempt of this pool is spent.
SpendPool(r) ==
    /\ pc[r] = "loop"
    /\ TriedCount(r) >= MaxAttempts(pool[r])
    /\ Goto(r, "switch")
    /\ UNCHANGED <<poolVars, loopVars, replyVars, cancelled>>

AbortLoop(r) ==
    /\ pc[r] = "loop"
    /\ TriedCount(r) < MaxAttempts(pool[r])
    /\ FinishCancelled(r)
    /\ UNCHANGED <<poolVars, loopVars, bad, last, reply, sends, cancelled>>

\* Mutant of Spin: the iterations are not counted.
SpinUncounted(r) ==
    /\ pc[r] = "loop"
    /\ TriedCount(r) < MaxAttempts(pool[r])
    /\ ~cancelled[r]
    /\ at' = [at EXCEPT ![r] = pool[r]]
    /\ Goto(r, "scan")
    /\ UNCHANGED <<poolVars, want, pool, pick, tried, triedPools, spins, rest,
                   replyVars, cancelled>>

\* One more iteration, or the safety valve when there were too many.
Spin(r) ==
    /\ pc[r] = "loop"
    /\ TriedCount(r) < MaxAttempts(pool[r])
    /\ ~cancelled[r]
    /\ spins' = [spins EXCEPT ![r] = @ + 1]
    /\ at' = [at EXCEPT ![r] = pool[r]]
    /\ Goto(r, IF spins[r] + 1 > MaxSpins(pool[r]) THEN "switch" ELSE "scan")
    /\ UNCHANGED <<poolVars, want, pool, pick, tried, triedPools, rest,
                   replyVars, cancelled>>

(* AcquireActiveToken on one pool of the fallback chain: move the cursor,  *)
(* take the first available slot, else scan the fallback pool.  The loads  *)
(* of one ring are taken as one step (CredentialPool does not).            *)
Scan(r) ==
    LET p == at[r]
        base == (cursor[p] + 1) % TotalCount(p)
    IN
    /\ pc[r] = "scan"
    /\ cursor' = [cursor EXCEPT ![p] = base]
    /\ \/ /\ \E i \in FirstOpen(p, base, cool) :
                pick' = [pick EXCEPT ![r] = [pool |-> p, idx |-> i]]
          /\ Goto(r, "picked")
          /\ UNCHANGED at
       \/ /\ Open(p, cool) = {}
          /\ Fallback[p] # NoPool
          /\ at' = [at EXCEPT ![r] = Fallback[p]]
          /\ UNCHANGED <<pick, pc>>
       \/ /\ Open(p, cool) = {}
          /\ Fallback[p] = NoPool
          /\ Goto(r, "least")
          /\ UNCHANGED <<at, pick>>
    /\ UNCHANGED <<cool, want, pool, tried, triedPools, spins, rest,
                   replyVars, cancelled>>

(* Nothing is available: take the credential that is soonest ready and     *)
(* sleep for it, 600 ms at most.                                           *)
Least(r) ==
    /\ pc[r] = "least"
    /\ \E i \in LeastPenalized(pool[r], cool) :
        LET left == cool[At(pool[r], i)] IN
        /\ pick' = [pick EXCEPT ![r] = [pool |-> pool[r], idx |-> i]]
        /\ rest' = [rest EXCEPT ![r] = IF left > Ticks[600] THEN Ticks[600] ELSE left]
        /\ Goto(r, IF left > 0 THEN "asleep" ELSE "picked")
    /\ UNCHANGED <<poolVars, want, pool, at, tried, triedPools, spins,
                   replyVars, cancelled>>

Wake(r) ==
    /\ pc[r] = "asleep"
    /\ rest[r] = 0
    /\ Goto(r, "picked")
    /\ UNCHANGED <<poolVars, loopVars, replyVars, cancelled>>

(* Redis says that a Gemini credential is cooling down or over its 15      *)
(* requests per minute: 5 s of local cooldown and another iteration.  With *)
(* a cancelled context the lookup fails and answers no; a client that      *)
(* leaves once it has answered is one that leaves right after this step.   *)
SkipLimited(r) ==
    /\ pc[r] = "picked"
    /\ Provider[Picked(r)] = "gemini"
    /\ ~cancelled[r]
    /\ cool' = SetSlot(pick[r].pool, pick[r].idx, Ticks[5000], cool)
    /\ Goto(r, "loop")
    /\ UNCHANGED <<cursor, loopVars, replyVars, cancelled>>

\* The slot number was tried already, whichever pool it was a slot of.
SkipTried(r) ==
    /\ pc[r] = "picked"
    /\ pick[r].idx \in tried[r]
    /\ Goto(r, "loop")
    /\ UNCHANGED <<poolVars, loopVars, replyVars, cancelled>>

Dispatch(r) ==
    /\ pc[r] = "picked"
    /\ pick[r].idx \notin tried[r]
    /\ tried' = [tried EXCEPT ![r] = @ \cup {pick[r].idx}]
    /\ sends' = [sends EXCEPT ![r] = @ + 1]
    /\ Goto(r, "flight")
    /\ UNCHANGED <<poolVars, want, pool, at, pick, triedPools, spins, rest,
                   bad, last, reply, answers, cancelled>>

\* forwardRequest takes the streaming path of the Gemini SDK.
SdkStream(r) == r \in Streaming /\ Provider[Picked(r)] = "gemini"

(* forwardRequest returns.  Only a 2xx is written to the client; a failed  *)
(* transport has been given a status, and so has a recovered panic.        *)
Forward(r) ==
    /\ pc[r] = "flight"
    /\ ~SdkStream(r)
    /\ \E rep \in Replies :
        /\ reply' = [reply EXCEPT ![r] = rep]
        /\ answers' = [answers EXCEPT
                        ![r] = IF Ok(rep.status) THEN Append(@, rep.status) ELSE @]
    /\ Goto(r, "replied")
    /\ UNCHANGED <<poolVars, loopVars, bad, last, sends, cancelled>>

\* The context is checked again before anything is made of the reply.
AbortReplied(r) ==
    /\ pc[r] = "replied"
    /\ FinishCancelled(r)
    /\ UNCHANGED <<poolVars, loopVars, bad, last, reply, sends, cancelled>>

(* Success: the slot of that number is made available in the pool of the   *)
(* request, which need not be the pool the credential came from.           *)
Succeed(r) ==
    /\ pc[r] = "replied"
    /\ ~cancelled[r]
    /\ Ok(reply[r].status)
    /\ cool' = SetSlot(pool[r], pick[r].idx, 0, cool)
    /\ Goto(r, "done")
    /\ UNCHANGED <<cursor, loopVars, replyVars, cancelled>>
-----------------------------------------------------------------------------
\* The 400s provider v gave the request, those of the reply at hand included.
Bad(r, v) ==
    IF reply[r].status = 400 /\ v = Provider[Picked(r)]
    THEN bad[r][v] + 1 ELSE bad[r][v]

\* Mutant of RecordFailure: the context is not looked at.
RecordFailureUnasked(r) ==
    /\ pc[r] = "replied"
    /\ ~Ok(reply[r].status)
    /\ last' = [last EXCEPT ![r] = reply[r].status]
    /\ bad' = [bad EXCEPT ![r] = [v \in Providers |-> Bad(r, v)]]
    /\ Goto(r, "failed")
    /\ UNCHANGED <<poolVars, loopVars, reply, answers, sends, cancelled>>

(* A failed attempt is recorded, its alert counted and Cloudflare's terms  *)
(* accepted, before anything is made of it; the client may leave meanwhile.*)
RecordFailure(r) ==
    /\ pc[r] = "replied"
    /\ ~cancelled[r]
    /\ ~Ok(reply[r].status)
    /\ last' = [last EXCEPT ![r] = reply[r].status]
    /\ bad' = [bad EXCEPT ![r] = [v \in Providers |-> Bad(r, v)]]
    /\ Goto(r, "failed")
    /\ UNCHANGED <<poolVars, loopVars, reply, answers, sends, cancelled>>

\* A failure on record, of which only the pools and the place are to change.
Failed(r) ==
    /\ pc[r] = "failed"
    /\ UNCHANGED <<cursor, loopVars, replyVars, cancelled>>

\* Mutants of Penalize: the slot the shared cursor is at now; the request's
\* pool, not the credential's.
PenalizeAtCursor(r, ticks) ==
    cool' = SetSlot(pick[r].pool, cursor[pick[r].pool], ticks, cool)

PenalizeOwnPool(r, ticks) == cool' = SetSlot(pool[r], pick[r].idx, ticks, cool)

\* PenalizeToken on the pool and slot the attempt was made with.
Penalize(r, ticks) == cool' = SetSlot(pick[r].pool, pick[r].idx, ticks, cool)

SingleKey(r) == TotalCount(pool[r]) = 1

\* The key itself is at fault: penalise it and take the next one.
KeyFault(r) ==
    \/ AuthError(reply[r].status)
    \/ reply[r].body = "depleted"
    \/ /\ reply[r].body = "denied"
       /\ reply[r].status = 400
       /\ Provider[Picked(r)] = "puter"

\* Mutant of PayloadFault: off by one.
PayloadFaultThird(r) ==
    /\ ~KeyFault(r)
    /\ reply[r].status = 400
    /\ bad[r][Provider[Picked(r)]] >= 3

\* The second 400 of a provider is taken to be the payload's fault.
PayloadFault(r) ==
    /\ ~KeyFault(r)
    /\ reply[r].status = 400
    /\ bad[r][Provider[Picked(r)]] >= 2

LimitedAlone(r) == ~KeyFault(r) /\ reply[r].status = 429 /\ SingleKey(r)

RotateKeyFault(r) ==
    /\ Failed(r)
    /\ KeyFault(r)
    /\ Penalize(r, Cooldown(reply[r], Picked(r)))
    /\ Goto(r, "loop")

AbortPayloadFault(r) ==
    /\ Failed(r)
    /\ PayloadFault(r)
    /\ Goto(r, "switch")
    /\ UNCHANGED cool

AbortLimitedAlone(r) ==
    /\ Failed(r)
    /\ LimitedAlone(r)
    /\ Penalize(r, Cooldown(reply[r], Picked(r)))
    /\ Goto(r, "switch")

\* Any other failure: 300 ms for an only key, else by status.
RotateFailure(r) ==
    /\ Failed(r)
    /\ ~KeyFault(r) /\ ~PayloadFault(r) /\ ~LimitedAlone(r)
    /\ Penalize(r, IF SingleKey(r) THEN Ticks[300] ELSE Cooldown(reply[r], Picked(r)))
    /\ Goto(r, "loop")

\* Work through another pool that hosts exactly the same model.
SwitchPool(r) ==
    /\ pc[r] = "switch"
    /\ \E p \in Fallbacks(r) :
        /\ pool' = [pool EXCEPT ![r] = p]
        /\ triedPools' = [triedPools EXCEPT ![r] = @ \cup {p}]
    /\ tried' = [tried EXCEPT ![r] = {}]
    /\ spins' = [spins EXCEPT ![r] = 0]
    /\ Goto(r, "loop")
    /\ UNCHANGED <<poolVars, want, at, pick, rest, replyVars, cancelled>>

GiveUp(r) ==
    /\ pc[r] = "switch"
    /\ Fallbacks(r) = {}
    /\ Finish(r, ErrorStatus(last[r]))
    /\ UNCHANGED <<poolVars, loopVars, bad, last, reply, sends, cancelled>>
-----------------------------------------------------------------------------
(* An event of another node sets a cooldown: to its full length, or, when  *)
(* the event comes late, to a time already past.                           *)
PeerEvent(c) ==
    /\ \E t \in {0, MaxCool} : cool' = [cool EXCEPT ![c] = t]
    /\ UNCHANGED <<cursor, pc, loopVars, replyVars, cancelled>>

Tick ==
    /\ cool' = Cooler(cool)
    /\ rest' = [r \in Requests |-> IF rest[r] = 0 THEN 0 ELSE rest[r] - 1]
    /\ UNCHANGED <<cursor, pc, want, pool, at, pick, tried, triedPools, spins,
                   replyVars, cancelled>>

\* The steps the engine takes for a request once it has arrived.
Acquire(r) ==
    \/ SpendPool(r) \/ AbortLoop(r) \/ Spin(r) \/ Scan(r) \/ Least(r) \/ Wake(r)
    \/ SkipLimited(r) \/ SkipTried(r) \/ Dispatch(r)

Settle(r) ==
    \/ AbortReplied(r) \/ Succeed(r) \/ RecordFailure(r) \/ RotateKeyFault(r)
    \/ AbortPayloadFault(r) \/ AbortLimitedAlone(r) \/ RotateFailure(r)
    \/ SwitchPool(r) \/ GiveUp(r)

Engine(r) == Acquire(r) \/ Forward(r) \/ Settle(r)

Next ==
    \/ \E r \in Requests : Arrive(r) \/ Cancel(r) \/ Engine(r)
    \/ \E c \in Shared : PeerEvent(c)
    \/ Tick

Spec == Init /\ [][Next]_vars

(* Every engine step is a goroutine's next statement, the upstream call is *)
(* bounded by the client's deadline and time passes.                       *)
FairSpec == Spec /\ WF_vars(Tick) /\ \A r \in Requests : WF_vars(Engine(r))
-----------------------------------------------------------------------------
PoolsOK ==
    /\ cool \in [Creds -> 0..MaxCool]
    /\ cursor \in [Pools -> Nat]

PickOK ==
    /\ pick \in [Requests -> [pool : Pools, idx : Nat]]
    /\ \A r \in Requests : pick[r].idx \in Slots(pick[r].pool)

LoopOK ==
    /\ want \in [Requests -> Models]
    /\ pool \in [Requests -> Pools]
    /\ at \in [Requests -> Pools]
    /\ tried \in [Requests -> SUBSET Nat]
    /\ triedPools \in [Requests -> SUBSET Pools]
    /\ spins \in [Requests -> Nat]
    /\ rest \in [Requests -> 0..MaxCool]

ReplyOK ==
    /\ bad \in [Requests -> [Providers -> Nat]]
    /\ last \in [Requests -> Nat]
    /\ reply \in [Requests -> [status : Nat, body : Bodies]]
    /\ answers \in [Requests -> Seq(Nat)]
    /\ sends \in [Requests -> Nat]
    /\ cancelled \in [Requests -> BOOLEAN]

\* What every variable but pc holds; GeminiFailover adds places to pc.
DataOK == PoolsOK /\ PickOK /\ LoopOK /\ ReplyOK

(* Every variable has its type, and an acquired slot is a slot of the pool *)
(* it was acquired from.                                                   *)
TypeOK == pc \in [Requests -> Pcs] /\ DataOK

(* A client is answered exactly once, whatever mix of rotations, switches  *)
(* and cancellations its request goes through: forwardRequest leaves the   *)
(* wire clean unless it succeeds, and the two 504 exits look at            *)
(* c.Writer.Written() (handler.go:1167, 644, 748).                         *)
AnsweredOnce ==
    \A r \in Requests :
        /\ Len(answers[r]) <= 1
        /\ pc[r] = "done" => Len(answers[r]) = 1

(* A request that keeps failing over makes a bounded number of upstream    *)
(* calls: at most the cap in each pool it went through, and it goes        *)
(* through a pool once (triedPools is never reset, handler.go:1039).       *)
SpendBounded ==
    \A r \in Requests :
        sends[r] <= AttemptCap * (Cardinality(triedPools[r]) - 1) + TriedCount(r)

(* A malformed payload is not sent round every key: a provider answers 400 *)
(* to a request at most once more than the pools the request went through, *)
(* unless the 400 told of the account (handler.go:952-973).                *)
PayloadFaultsBounded ==
    \A r \in Requests, v \in Providers :
        bad[r][v] <= Cardinality(triedPools[r]) + 1

\* The model a client asked for, and those its model is routed to by prefix.
AskedFor(r) == {want[r]} \cup {Core[p] : p \in {q \in Pools : <<want[r], q>> \in Routes}}

(* A request only ever reaches credentials of pools that host the model it *)
(* asked for, or the model its route stands for (handler.go:1012-1016).    *)
ExactModelOnly ==
    \A r \in Requests : pc[r] = "flight" => Core[pick[r].pool] \in AskedFor(r)

(* Another model than the one asked for is only ever reached the way       *)
(* pool.go:41 allows and handler.go:1015 forbids, down the configured      *)
(* fallbacks of a pool that hosts it: the search for another pool, however *)
(* many were tried before, never leaves the model (handler.go:1012-1016).  *)
ModelOrItsFallback ==
    \A r \in Requests :
        pc[r] = "flight" =>
            /\ Core[pool[r]] \in AskedFor(r)
            /\ pick[r].pool \in Chain(pool[r])

(* A failed attempt cools down the credential it was made with and no      *)
(* other (pool.go:34, "penalizes only the affected credential").           *)
PenaltyIsolated ==
    [][\A r \in Requests, c \in Creds :
          pc'[r] # pc[r] /\ cool'[c] > cool[c] => c = Picked(r)]_vars

(* A client that has gone away costs the pool no key, whatever its call    *)
(* returned (handler.go:741); but a failure on record when it leaves is    *)
(* still one of its key's, the last the request can cost.                  *)
CancelledPenalizesNoKey ==
    [][\A r \in Requests :
          pc'[r] # pc[r] /\ cancelled[r] =>
              /\ pc'[r] # "failed"
              /\ pc[r] # "failed" => \A c \in Creds : cool'[c] <= cool[c]]_vars

\* Where a request is for its client.
Stage(r) ==
    CASE pc[r] = "done" -> "over"
      [] pc[r] # "done" /\ answers[r] # <<>> -> "answered"
      [] OTHER -> "open"

Promise ==
    INSTANCE AnswerPromise WITH
        Resumable <- {},
        stage <- [r \in Requests |-> Stage(r)], lines <- answers, asked <- sends

(* What AnswerPromise says of a client's answer, the loop keeps: after a   *)
(* success no key is tried, and none is written that nobody gave; a        *)
(* failure ends a request nobody answered (handler.go:733-760, 1160-1174). *)
KeepsAnswer == Promise!PromiseSpec

(* Every request is answered, however the cooldowns move under it.         *)
Termination == \A r \in Requests : pc[r] = "loop" ~> pc[r] = "done"
=============================================================================
