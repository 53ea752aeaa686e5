--------------------------- MODULE GeminiFailover ---------------------------
(***************************************************************************)
(* The streaming path of internal/proxy/gemini_sdk.go inside the retry     *)
(* engine.  geminiSDKStream does not report a broken stream: it penalises  *)
(* the key, takes another one and resumes the stream under the same        *)
(* response, up to five times, and only then returns to executeWithRetry.  *)
(***************************************************************************)
EXTENDS ProxyRetry

CONSTANT MaxFailovers     \* maxFailoverAttempts, 5 in the code

ASSUME FailoverAssumption == MaxFailovers \in Nat \ {0}

VARIABLES
    using,      \* pctx.credential: the pool and slot the stream runs on
    hop,        \* attempt: streams opened by this call
    turns,      \* iterations of the search for the next key
    heard       \* what the client was sent: nothing, headers, valid data

streamVars == <<using, hop, turns, heard>>
allVars == <<vars, streamVars>>

StreamPcs == {"stream", "rescan", "offered", "closing"}

\* The credential the stream runs on.
Using(r) == At(using[r].pool, using[r].idx)

StreamInit ==
    /\ Init
    /\ using = pick
    /\ hop = [r \in Requests |-> 0]
    /\ turns = [r \in Requests |-> 0]
    /\ heard = [r \in Requests |-> "nothing"]

\* The first stream is opened with the key the retry loop acquired.
OpenStream(r) ==
    /\ pc[r] = "flight"
    /\ SdkStream(r)
    /\ using' = [using EXCEPT ![r] = pick[r]]
    /\ hop' = [hop EXCEPT ![r] = 1]
    /\ heard' = [heard EXCEPT ![r] = "nothing"]
    /\ Goto(r, "stream")
    /\ UNCHANGED <<poolVars, loopVars, replyVars, cancelled, turns>>

\* No client, or a body the SDK cannot express: forwardRequest says 500.
RefuseStream(r) ==
    /\ pc[r] = "flight"
    /\ SdkStream(r)
    /\ reply' = [reply EXCEPT ![r] = [status |-> 500, body |-> "plain"]]
    /\ Goto(r, "replied")
    /\ UNCHANGED <<poolVars, loopVars, bad, last, answers, sends, cancelled,
                   streamVars>>

\* Mutant of Emit: the headers are written with every chunk.
EmitUnasked(r) ==
    /\ pc[r] = "stream"
    /\ heard[r] # "valid"
    /\ heard' = [heard EXCEPT ![r] = "headers"]
    /\ answers' = [answers EXCEPT ![r] = Append(@, 200)]
    /\ UNCHANGED <<poolVars, pc, loopVars, bad, last, reply, sends, cancelled,
                   using, hop, turns>>

\* A chunk reaches the client; the first one carries the response headers.
Emit(r) ==
    /\ pc[r] = "stream"
    /\ heard[r] # "valid"
    /\ \E h \in {"headers", "valid"} :
        /\ h # heard[r]
        /\ heard' = [heard EXCEPT ![r] = h]
    /\ answers' = [answers EXCEPT
                    ![r] = IF heard[r] = "nothing" THEN Append(@, 200) ELSE @]
    /\ UNCHANGED <<poolVars, pc, loopVars, bad, last, reply, sends, cancelled,
                   using, hop, turns>>

\* The stream ends; one that carried nothing valid counts as broken.
EndStream(r) ==
    /\ pc[r] = "stream"
    /\ heard[r] = "valid"
    /\ Goto(r, "closing")
    /\ UNCHANGED <<poolVars, loopVars, replyVars, cancelled, streamVars>>

\* Mutant of PenalizeBroken: the key the retry loop acquired.
PenalizeFirst(r) == cool' = SetSlot(pool[r], pick[r].idx, Ticks[30000], cool)

\* The cooldown of a broken stream's key, set in the pool of the request.
PenalizeBroken(r) == cool' = SetSlot(pool[r], using[r].idx, Ticks[30000], cool)

(* The stream breaks, by an upstream error, an empty body, a filter or the *)
(* client's own context: 30 s for the key and a search for another.        *)
BreakStream(r) ==
    /\ pc[r] = "stream"
    /\ PenalizeBroken(r)
    /\ turns' = [turns EXCEPT ![r] = 0]
    /\ at' = [at EXCEPT ![r] = pool[r]]
    /\ Goto(r, "rescan")
    /\ UNCHANGED <<cursor, want, pool, pick, tried, triedPools, spins, rest,
                   replyVars, cancelled, using, hop, heard>>

(* AcquireActiveToken, a pool of the chain at a time, and failing that the *)
(* least penalised key of the request's pool, without waiting for it.      *)
Rescan(r) ==
    LET p == at[r]
        base == (cursor[p] + 1) % TotalCount(p)
    IN
    /\ pc[r] = "rescan"
    /\ cursor' = [cursor EXCEPT ![p] = base]
    /\ \/ /\ \E i \in FirstOpen(p, base, cool) :
                using' = [using EXCEPT ![r] = [pool |-> p, idx |-> i]]
          /\ Goto(r, "offered")
          /\ UNCHANGED at
       \/ /\ Open(p, cool) = {}
          /\ Fallback[p] # NoPool
          /\ at' = [at EXCEPT ![r] = Fallback[p]]
          /\ UNCHANGED <<using, pc>>
       \/ /\ Open(p, cool) = {}
          /\ Fallback[p] = NoPool
          /\ \E i \in LeastPenalized(pool[r], cool) :
                using' = [using EXCEPT ![r] = [pool |-> pool[r], idx |-> i]]
          /\ Goto(r, "offered")
          /\ UNCHANGED at
    /\ UNCHANGED <<cool, want, pool, pick, tried, triedPools, spins, rest,
                   replyVars, cancelled, hop, turns, heard>>

\* Redis refuses the key offered; as many keys are looked at as there are slots.
RefuseOffer(r) ==
    /\ pc[r] = "offered"
    /\ ~cancelled[r]
    /\ cool' = SetSlot(pool[r], using[r].idx, Ticks[5000], cool)
    /\ turns' = [turns EXCEPT ![r] = @ + 1]
    /\ at' = [at EXCEPT ![r] = pool[r]]
    /\ Goto(r, IF turns[r] + 1 = TotalCount(pool[r]) THEN "closing" ELSE "rescan")
    /\ UNCHANGED <<cursor, want, pool, pick, tried, triedPools, spins, rest,
                   replyVars, cancelled, using, hop, heard>>

\* Mutant of Resume: no cap.
ResumeUncapped(r) ==
    /\ pc[r] = "offered"
    /\ sends' = [sends EXCEPT ![r] = @ + 1]
    /\ Goto(r, "stream")
    /\ UNCHANGED <<poolVars, loopVars, bad, last, reply, answers, cancelled,
                   using, hop, turns, heard>>

\* The stream is resumed with the key offered, if an attempt is left.
Resume(r) ==
    /\ pc[r] = "offered"
    /\ hop[r] < MaxFailovers
    /\ hop' = [hop EXCEPT ![r] = @ + 1]
    /\ sends' = [sends EXCEPT ![r] = @ + 1]
    /\ Goto(r, "stream")
    /\ UNCHANGED <<poolVars, loopVars, bad, last, reply, answers, cancelled,
                   using, turns, heard>>

\* No attempt is left, or no client can be made for the key offered.
Exhaust(r) ==
    /\ pc[r] = "offered"
    /\ Goto(r, "closing")
    /\ UNCHANGED <<poolVars, loopVars, replyVars, cancelled, streamVars>>

\* Mutant of Close: a stream that carried headers only is reported broken.
CloseByContent(r) ==
    /\ pc[r] = "closing"
    /\ reply' = [reply EXCEPT
                  ![r] = [status |-> IF heard[r] = "valid" THEN 200 ELSE 502,
                          body |-> "plain"]]
    /\ Goto(r, "replied")
    /\ UNCHANGED <<poolVars, loopVars, bad, last, answers, sends, cancelled,
                   streamVars>>

\* Whether the stream ended or broke: 200 once the headers are out, else 502.
Close(r) ==
    /\ pc[r] = "closing"
    /\ reply' = [reply EXCEPT
                  ![r] = [status |-> IF heard[r] = "nothing" THEN 502 ELSE 200,
                          body |-> "plain"]]
    /\ Goto(r, "replied")
    /\ UNCHANGED <<poolVars, loopVars, bad, last, answers, sends, cancelled,
                   streamVars>>

Stream(r) ==
    \/ OpenStream(r) \/ RefuseStream(r) \/ Emit(r) \/ EndStream(r)
    \/ BreakStream(r) \/ Rescan(r) \/ RefuseOffer(r) \/ Resume(r) \/ Exhaust(r)
    \/ Close(r)

StreamNext ==
    \/ Next /\ UNCHANGED streamVars
    \/ \E r \in Requests : Stream(r)

StreamSpec == StreamInit /\ [][StreamNext]_allVars

-----------------------------------------------------------------------------
(* Failing over in mid-stream multiplies the upstream calls of a request   *)
(* by at most the failover cap, in every pool it goes through.             *)
StreamSpendBounded ==
    \A r \in Requests :
        sends[r] <= MaxFailovers *
            (AttemptCap * (Cardinality(triedPools[r]) - 1) + TriedCount(r))

(* What breaks a stream cools down the key the stream was running on, or   *)
(* the key Redis refused, and no other (pool.go:34); where that key is one *)
(* of a fallback pool, the key of the same slot of the request's own pool  *)
(* is the one that pays (gemini_sdk.go:824, 845).                          *)
StreamPenaltyIsolated ==
    [][\A r \in Requests, c \in Creds :
          pc[r] \in StreamPcs /\ pc'[r] # pc[r] /\ cool'[c] > cool[c] =>
              \/ c = Using(r)
              \/ /\ using[r].pool \in Chain(pool[r]) \ {pool[r]}
                 /\ c = At(pool[r], using[r].idx)]_allVars

(* What pool.go:34 says of every penalty, of those of streams: the key at  *)
(* fault cools down, and no other.                                         *)
StreamPenaltyExact ==
    [][\A r \in Requests, c \in Creds :
          pc[r] \in StreamPcs /\ pc'[r] # pc[r] /\ cool'[c] > cool[c] =>
              c = Using(r)]_allVars

(* A stream of which the client has heard nothing is never taken for a     *)
(* success, and one it has heard of is never tried again by the retry      *)
(* loop, which would answer a second time (gemini_sdk.go:871-894).         *)
HeardIsFinal ==
    [][\A r \in Requests :
          pc[r] = "replied" /\ SdkStream(r) /\ ~cancelled[r] =>
              /\ pc'[r] = "done" => heard[r] # "nothing"
              /\ pc'[r] = "failed" => heard[r] = "nothing"]_allVars

StreamPromise ==
    INSTANCE AnswerPromise WITH
        Resumable <- Streaming,
        stage <- [r \in Requests |-> Stage(r)], lines <- answers, asked <- sends

(* The same promise, but that a stream in mid-answer may ask another key   *)
(* to go on with it (gemini_sdk.go:871-894).                               *)
StreamKeepsAnswer == StreamPromise!PromiseSpec
=============================================================================
