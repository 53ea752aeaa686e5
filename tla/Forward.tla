------------------------------- MODULE Forward -------------------------------
(***************************************************************************)
(* forwardRequest of internal/proxy/handler.go, the one step ProxyRetry    *)
(* takes it for, in full: a body is translated for the provider, sent, in  *)
(* two cases sent again, and the reply is written to the client or given   *)
(* back to the retry loop unwritten.  The loop appears only as what calls  *)
(* again after a failure and writes the last error.  A stream is relayed   *)
(* as module Stream says.                                                  *)
(***************************************************************************)
EXTENDS Stream

CONSTANTS
    Credentials,   \* [provider, native, vision]: what decides its path; Ollama's
                   \* own format is spoken by its cloud, which is native
    MaxAttempts    \* bound: credentials tried

\* Whoever speaks OpenAI's format has OpenAI's transmuxer, but for an Ollama
\* that is not the cloud's.
Transmuxer(c) ==
    CASE c.provider = "cloudflare" -> "openai"
      [] c.provider = "ollama" /\ ~c.native -> SelfHosted
      [] OTHER -> c.provider

ASSUME ForwardAssumption ==
    /\ \A c \in Credentials : Transmuxer(c) \in Providers \cup {"gemini"}
    /\ MaxAttempts \in Nat \ {0}

VARIABLES
    req,      \* [stream, images]: what the client asked for
    at,       \* where the attempt is
    cred,     \* the credential it uses
    reply,    \* the provider's last reply to it
    status,   \* what forwardRequest returned
    tries,    \* attempts made
    sent,     \* history: requests it sent
    sends,    \* history: requests sent in all
    wire      \* statuses written to the client

attempt == <<at, cred, reply, status, tries, sent, sends>>
vars == <<req, attempt, wire, streamVars>>

(* Replies of a provider.  "agreement" is a refusal of Cloudflare until    *)
(* its terms are accepted; no status is a transport error.                 *)
Replies == {"ok", "created", "refused", "agreement", "broken", "down", "slow"}

Code(r) ==
    CASE r = "ok" -> 200
      [] r = "created" -> 201
      [] r \in {"refused", "agreement"} -> 403
      [] r = "broken" -> 503
      [] r = "down" -> 502
      [] r = "slow" -> 504

Success(code) == code \in 200..299

\* A body: as it should be, a failure told inside a success, or cut short.
BodyKinds == {"good", "failed", "cut"}

NoCred == [provider |-> "none", native |-> FALSE, vision |-> FALSE]

Init ==
    /\ StreamInit
    /\ req \in [stream : BOOLEAN, images : BOOLEAN]
    /\ at = "idle"
    /\ cred = NoCred
    /\ reply = "down"
    /\ status = 0
    /\ tries = 0
    /\ sent = 0 /\ sends = 0
    /\ wire = <<>>

Unwritten == UNCHANGED <<wire, streamVars>>

Unsent == UNCHANGED <<sent, sends>>

Sending == sent' = sent + 1 /\ sends' = sends + 1

Return(code) == at' = "returned" /\ status' = code

\* The response writer sends a status line once, whatever is asked of it; to
\* ask twice garbles the body.
WriteHeader(code) == wire' = Append(wire, code)
-----------------------------------------------------------------------------
\* The retry loop takes a credential.
Attempt(c) ==
    /\ \/ at = "idle"
       \/ at = "returned" /\ ~Success(status) /\ ~gone
    /\ tries < MaxAttempts
    /\ at' = "body"
    /\ cred' = c
    /\ tries' = tries + 1
    /\ sent' = 0
    /\ UNCHANGED <<req, reply, status, sends>>
    /\ Unwritten

\* Translations of a body that may fail, and how that is returned.
Untranslatable ==
    CASE cred.provider = "1minai" -> {500}
      [] cred.provider = "agentrouter" -> {400}
      [] cred.provider = "cloudflare" ->
            (IF req.images /\ cred.native THEN {500} ELSE {}) \cup (IF cred.vision THEN {400} ELSE {})
      [] OTHER -> {}

Translate ==
    /\ at = "body"
    /\ \/ \E code \in Untranslatable : Return(code)
       \/ at' = "built" /\ UNCHANGED status
    /\ UNCHANGED <<req, cred, reply, tries, sent, sends>>
    /\ Unwritten

\* Where a reply leads: the mirror, the agreement, success or back.
Onward(r) ==
    CASE Success(Code(r)) -> "success"
      [] r = "agreement" /\ cred.provider = "cloudflare" -> "terms"
      [] OTHER -> "returned"

Judge(r) ==
    /\ reply' = r
    /\ at' = Onward(r)
    /\ status' = IF Onward(r) = "returned" THEN Code(r) ELSE status

\* AgentRouter has two domains; a base URL of neither has no mirror.
Send(r) ==
    /\ at = "built"
    /\ cred.provider # "gemini"
    /\ Sending
    /\ \/ /\ cred.provider = "agentrouter" /\ Code(r) >= 500
          /\ reply' = r
          /\ at' = "mirror"
          /\ UNCHANGED status
       \/ Judge(r)
    /\ UNCHANGED <<req, cred, tries>>
    /\ Unwritten

\* Mutant of Mirror: a mirror that fails is answered by the other mirror.
MirrorAgain(r) ==
    /\ at = "mirror"
    /\ Sending
    /\ IF Code(r) < 500 THEN Judge(r) ELSE UNCHANGED <<reply, at, status>>
    /\ UNCHANGED <<req, cred, tries>>
    /\ Unwritten

\* AgentRouter's other domain; its answer counts unless it fails as well.
Mirror(r) ==
    /\ at = "mirror"
    /\ Sending
    /\ Judge(IF Code(r) < 500 THEN r ELSE reply)
    /\ UNCHANGED <<req, cred, tries>>
    /\ Unwritten

\* The terms are accepted at two addresses, whatever they answer; a request
\* that cannot be built is passed over.
AcceptTerms ==
    /\ \/ at = "terms" /\ at' = "again"
       \/ at = "again" /\ at' = "agree"
    /\ Sending \/ Unsent
    /\ UNCHANGED <<req, cred, reply, status, tries>>
    /\ Unwritten

\* The request is sent again; unless that succeeds, the first status is
\* returned.
Agree(r) ==
    /\ at = "agree"
    /\ Sending
    /\ IF Success(Code(r))
         THEN reply' = r /\ at' = "success" /\ UNCHANGED status
         ELSE Return(Code(reply)) /\ UNCHANGED reply
    /\ UNCHANGED <<req, cred, tries>>
    /\ Unwritten

Relays == req.stream /\ reply = "ok"

StartRelay ==
    /\ at = "success"
    /\ Relays
    /\ at' = "relay"
    /\ WriteHeader(200)
    /\ StreamStart(Transmuxer(cred))
    /\ UNCHANGED <<req, cred, reply, status, tries, sent, sends>>

RelayStep ==
    /\ at = "relay"
    /\ StreamNext
    /\ UNCHANGED <<req, attempt, wire>>

EndRelay ==
    /\ at = "relay"
    /\ phase \in {"over", "done", "lost"}
    /\ Return(200)
    /\ UNCHANGED <<req, cred, reply, tries, sent, sends>>
    /\ Unwritten

Answer == Return(Code(reply)) /\ WriteHeader(Code(reply))

\* A body is read before anything is written; one that cannot be read goes
\* back to the retry loop, one that cannot be translated is written as it is.
AnswerRead(body) == IF body = "cut" THEN Return(500) /\ UNCHANGED wire ELSE Answer

\* Mutant of AnswerOwned: a failure told inside a success is only reported.
AnswerOwnedWritten(body) ==
    IF body = "failed" THEN Return(502) /\ WriteHeader(Code(reply)) ELSE AnswerRead(body)

\* A failure told inside a success goes back too.
AnswerOwned(body) == IF body = "failed" THEN Return(502) /\ UNCHANGED wire ELSE AnswerRead(body)

AnswerImage(body) == IF cred.native THEN AnswerOwned(body) ELSE AnswerRead(body)

\* Everyone else's body is passed on, cut short or not.
Respond(body) ==
    /\ at = "success"
    /\ ~Relays
    /\ CASE cred.provider \in {"agentrouter", "ollama"} -> AnswerRead(body)
         [] cred.provider = "1minai" -> AnswerOwned(body)
         [] cred.provider = "cloudflare" /\ req.images -> AnswerImage(body)
         [] cred.provider = "cloudflare" /\ cred.vision /\ ~req.images -> AnswerRead(body)
         [] OTHER -> Answer
    /\ UNCHANGED <<req, cred, reply, tries, sent, sends, streamVars>>

\* The SDK of Gemini answers without a stream: with content, or with an error,
\* an empty answer included.  Its streams are those of GeminiFailover.
GeminiAnswer ==
    /\ at = "built"
    /\ cred.provider = "gemini" /\ ~req.stream
    /\ Sending
    /\ \/ Return(200) /\ WriteHeader(200)
       \/ \E code \in {400, 401, 429, 500, 502, 504} : Return(code) /\ UNCHANGED wire
    /\ UNCHANGED <<req, cred, reply, tries, streamVars>>

\* A panic before anything is written is a 500.
Recover ==
    /\ at \in {"body", "built", "success"}
    /\ Return(500)
    /\ UNCHANGED <<req, cred, reply, tries, sent, sends>>
    /\ Unwritten

ClientLeaves ==
    /\ ~gone
    /\ at # "over"
    /\ gone' = TRUE
    /\ UNCHANGED <<req, attempt, wire, provider, phase, tmx, saw, heard, src, told>>

\* The retry loop is done: the answer is written already, or the last error is;
\* a client that left is told of a timeout, if it was told nothing.
Finally ==
    /\ at = "returned"
    /\ at' = "over"
    /\ IF gone
         THEN IF wire = <<>> THEN WriteHeader(504) ELSE UNCHANGED wire
         ELSE IF Success(status) THEN UNCHANGED wire ELSE WriteHeader(status)
    /\ UNCHANGED <<req, cred, reply, status, tries, sent, sends, streamVars>>

Next ==
    \/ \E c \in Credentials : (c.provider = "gemini" => ~req.stream) /\ Attempt(c)
    \/ Translate
    \/ \E r \in Replies : Send(r) \/ Mirror(r) \/ Agree(r)
    \/ AcceptTerms
    \/ StartRelay \/ RelayStep \/ EndRelay
    \/ \E body \in BodyKinds : Respond(body)
    \/ GeminiAnswer
    \/ Recover
    \/ ClientLeaves
    \/ Finally

Spec == Init /\ [][Next]_vars
-----------------------------------------------------------------------------
\* "ensuring HTTP headers are written exactly once on a clean wire"
\* (handler.go:1171): on its many ways back forwardRequest returns a 2xx if
\* and only if it has written it, so that the loop, which goes on after
\* anything else, never writes over an answer, and a request that is over has
\* been answered once.
WrittenIffReturned ==
    /\ at = "returned" => wire = IF Success(status) THEN <<status>> ELSE <<>>
    /\ at = "relay" => wire = <<200>>
    /\ at = "over" => Len(wire) = 1

\* What an attempt may cost a provider: AgentRouter's the other domain too, one
\* at Cloudflare the two requests that accept its terms, and a repeat.
MostSent(p) == CASE p = "agentrouter" -> 2 [] p = "cloudflare" -> 4 [] OTHER -> 1

\* Neither the mirror nor the agreement repeats itself: however its provider
\* fails, an attempt sends what its provider may cost and no more
\* (handler.go:1464-1562).
SendsBounded == sent <= MostSent(cred.provider)

\* Where the request is for its client; there is one.
Stage ==
    CASE at = "over" -> "over"
      [] at # "over" /\ wire # <<>> -> "answered"
      [] OTHER -> "open"

One(value) == [r \in {"it"} |-> value]

Promise ==
    INSTANCE AnswerPromise WITH
        Requests <- {"it"}, Resumable <- {},
        stage <- One(Stage), lines <- One(wire), asked <- One(sends)

(* One attempt, statement by statement, keeps the promise that the loop    *)
(* keeps with attempts of one step: mirrors, agreements and bodies that    *)
(* cannot be used ask before anything is written, and what is returned to  *)
(* the loop unwritten is an error it may write (handler.go:1171).          *)
KeepsAnswer == Promise!PromiseSpec
=============================================================================
