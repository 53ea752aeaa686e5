---------------------------- MODULE AnswerPromise ----------------------------
(***************************************************************************)
(* What the proxy promises the client of a request, whoever carries it:    *)
(* providers are asked for it, again and again, while nothing was written; *)
(* a success is written as one of them was asked, once, and from then on   *)
(* no other is asked and nothing follows it, unless the response is a      *)
(* stream that may be resumed; a failure is written as the last thing done *)
(* for the request, and only to a client that has been told nothing        *)
(* (executeWithRetry, handler.go:636-1174).                                *)
(***************************************************************************)
EXTENDS Naturals, Sequences

CONSTANTS
    Requests,
    Resumable    \* requests whose answer another provider may go on with

VARIABLES
    stage,    \* of each request: open, answered, over
    lines,    \* the status lines its client was sent
    asked     \* how often a provider was asked

promiseVars == <<stage, lines, asked>>

PromiseInit ==
    /\ stage = [r \in Requests |-> "open"]
    /\ lines = [r \in Requests |-> <<>>]
    /\ asked = [r \in Requests |-> 0]

Pass(r, s) == stage' = [stage EXCEPT ![r] = s]

Write(r, code) == lines' = [lines EXCEPT ![r] = <<code>>]

\* A provider is asked, for a client that waits or one that hears a stream.
Ask(r) ==
    /\ stage[r] = "open" \/ (stage[r] = "answered" /\ r \in Resumable)
    /\ asked' = [asked EXCEPT ![r] = @ + 1]
    /\ UNCHANGED <<stage, lines>>

\* The success of a provider that was asked is written, as it answers or after.
Answer(r) ==
    /\ stage[r] = "open"
    /\ Pass(r, "answered")
    /\ \E code \in 200..299 : Write(r, code)
    /\ \/ asked[r] > 0 /\ UNCHANGED asked
       \/ asked' = [asked EXCEPT ![r] = @ + 1]

\* A request that was answered is left alone.
End(r) ==
    /\ stage[r] = "answered"
    /\ Pass(r, "over")
    /\ UNCHANGED <<lines, asked>>

\* One that was not is told of a failure.
Fail(r) ==
    /\ stage[r] = "open"
    /\ Pass(r, "over")
    /\ \E code \in 400..599 : Write(r, code)
    /\ UNCHANGED asked

PromiseNext == \E r \in Requests : Ask(r) \/ Answer(r) \/ End(r) \/ Fail(r)

PromiseSpec == PromiseInit /\ [][PromiseNext]_promiseVars
=============================================================================
