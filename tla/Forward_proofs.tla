---------------------------- MODULE Forward_proofs ----------------------------
(***************************************************************************)
(* Proofs about Forward, for any credentials, replies and bodies, any      *)
(* number of attempts, and streams of any texts and length; that attempts  *)
(* keep the promise of AnswerPromise comes last.                           *)
(***************************************************************************)
EXTENDS Forward, TLAPS, WellFoundedInduction

Agreeing == {"terms", "again", "agree"}
Before200 == {"idle", "body", "built", "mirror", "success"} \cup Agreeing
Places == Before200 \cup {"relay", "returned", "over"}

\* Until an attempt is a success nothing is written, and what it returns says
\* whether it wrote.
Written ==
    /\ at \in Places /\ reply \in Replies
    /\ at \in Before200 => wire = <<>>
    /\ at = "mirror" => Code(reply) >= 500
    /\ at \in Agreeing => reply = "agreement"
    /\ at = "success" => Success(Code(reply))
    /\ WrittenIffReturned

LEMMA WrittenInit == Init => Written
BY DEF Init, Written, Places, Before200, Agreeing, Replies, WrittenIffReturned

LEMMA WrittenAttempt ==
    ASSUME Written, \/ \E c \in Credentials : Attempt(c)
                    \/ Translate
                    \/ Recover
    PROVE  Written'
<1>1. ASSUME NEW c, Attempt(c) PROVE Written'
  BY <1>1 DEF Attempt, Written, Places, Before200, Agreeing, WrittenIffReturned, Unwritten
<1>2. CASE Translate
  <2>1. \A code \in Untranslatable : ~Success(code)
    BY DEF Untranslatable, Success
  <2>2. /\ UNCHANGED <<reply, wire>> /\ at = "body"
        /\ at' = "built" \/ (at' = "returned" /\ ~Success(status'))
    BY <1>2, <2>1 DEF Translate, Return, Unwritten
  <2> QED BY <2>2 DEF Written, Places, Before200, Agreeing, WrittenIffReturned
<1>3. CASE Recover
  <2>1. /\ UNCHANGED <<reply, wire>> /\ at \in {"body", "built", "success"}
        /\ at' = "returned" /\ ~Success(status')
    BY <1>3 DEF Recover, Return, Unwritten, Success
  <2> QED BY <2>1 DEF Written, Places, Before200, Agreeing, WrittenIffReturned
<1> QED BY <1>1, <1>2, <1>3

\* A reply that is judged leads to a success, to the agreement, or back.
LEMMA WrittenJudge ==
    ASSUME Written, NEW r \in Replies, Judge(r), at \in {"built", "mirror"}, UNCHANGED wire
    PROVE  Written'
<1>1. reply' = r /\ wire' = <<>>
  BY DEF Judge, Written, Before200
<1>2. CASE Success(Code(r))
  <2>1. ~Success(Code("agreement"))
    BY DEF Success, Code
  <2>2. at' = "success"
    BY <1>2, <2>1 DEF Judge, Onward
  <2> QED BY <1>1, <1>2, <2>2 DEF Written, Places, Before200, Agreeing, WrittenIffReturned
<1>3. CASE ~Success(Code(r)) /\ r = "agreement" /\ cred.provider = "cloudflare"
  <2>1. at' = "terms"
    BY <1>3 DEF Judge, Onward
  <2> QED BY <1>1, <1>3, <2>1 DEF Written, Places, Before200, Agreeing, WrittenIffReturned
<1>4. CASE ~Success(Code(r)) /\ ~(r = "agreement" /\ cred.provider = "cloudflare")
  <2>1. at' = "returned" /\ status' = Code(r)
    BY <1>4 DEF Judge, Onward
  <2> QED BY <1>1, <1>4, <2>1 DEF Written, Places, Before200, Agreeing, WrittenIffReturned
<1> QED BY <1>2, <1>3, <1>4

LEMMA WrittenSend ==
    ASSUME Written, NEW r \in Replies, Send(r) \/ Mirror(r) \/ Agree(r)
    PROVE  Written'
<1>1. CASE Send(r)
  <2>1. UNCHANGED wire /\ at = "built"
    BY <1>1 DEF Send, Unwritten
  <2>2. CASE Judge(r)
    BY <2>1, <2>2, WrittenJudge
  <2>3. CASE Code(r) >= 500 /\ reply' = r /\ at' = "mirror"
    BY <2>1, <2>3 DEF Written, Places, Before200, Agreeing, WrittenIffReturned
  <2> QED BY <1>1, <2>2, <2>3 DEF Send
<1>2. CASE Mirror(r)
  <2>1. UNCHANGED wire /\ at = "mirror" /\ Judge(IF Code(r) < 500 THEN r ELSE reply)
    BY <1>2 DEF Mirror, Unwritten
  <2>2. (IF Code(r) < 500 THEN r ELSE reply) \in Replies
    BY DEF Written
  <2> QED BY <2>1, <2>2, WrittenJudge
<1>3. CASE Agree(r)
  <2>1. UNCHANGED wire /\ at = "agree" /\ reply = "agreement" /\ wire = <<>>
    BY <1>3 DEF Agree, Unwritten, Written, Before200, Agreeing
  <2>2. CASE Success(Code(r))
    <3>1. reply' = r /\ at' = "success"
      BY <1>3, <2>2 DEF Agree
    <3> QED BY <2>1, <2>2, <3>1 DEF Written, Places, Before200, Agreeing, WrittenIffReturned
  <2>3. CASE ~Success(Code(r))
    <3>1. reply' = reply /\ at' = "returned" /\ status' = Code(reply)
      BY <1>3, <2>3 DEF Agree, Return
    <3>2. ~Success(Code("agreement"))
      BY DEF Code, Success
    <3> QED BY <2>1, <3>1, <3>2 DEF Written, Places, Before200, Agreeing, WrittenIffReturned
  <2> QED BY <2>2, <2>3
<1> QED BY <1>1, <1>2, <1>3

LEMMA WrittenTerms == ASSUME Written, AcceptTerms PROVE Written'
<1>1. UNCHANGED <<reply, status, wire>> /\ at \in Agreeing /\ at' \in Agreeing
  BY DEF AcceptTerms, Unwritten, Agreeing
<1> QED BY <1>1 DEF Written, Places, Before200, Agreeing, WrittenIffReturned

LEMMA WrittenRelay ==
    ASSUME Written, StartRelay \/ RelayStep \/ EndRelay
    PROVE  Written'
<1>1. CASE StartRelay
  <2>1. wire' = <<200>> /\ at' = "relay" /\ reply' = reply
    BY <1>1 DEF StartRelay, WriteHeader, Written, Before200
  <2> QED BY <2>1 DEF Written, Places, Before200, Agreeing, WrittenIffReturned
<1>2. CASE RelayStep
  <2>1. UNCHANGED <<at, reply, status, wire>>
    BY <1>2 DEF RelayStep, attempt
  <2> QED BY <2>1 DEF Written, WrittenIffReturned
<1>3. CASE EndRelay
  <2>1. wire' = <<200>> /\ at' = "returned" /\ reply' = reply /\ status' = 200
    BY <1>3 DEF EndRelay, Return, Unwritten, Written, WrittenIffReturned
  <2>2. Success(200)
    BY DEF Success
  <2> QED BY <2>1, <2>2 DEF Written, Places, Before200, Agreeing, WrittenIffReturned
<1> QED BY <1>1, <1>2, <1>3

LEMMA WrittenRespond ==
    ASSUME Written, (\E body \in BodyKinds : Respond(body)) \/ GeminiAnswer
    PROVE  Written'
<1>1. ASSUME at' = "returned", reply' = reply,
             \/ wire' = <<>> /\ ~Success(status')
             \/ wire' = <<status'>> /\ Success(status')
      PROVE  Written'
  BY <1>1 DEF Written, Places, Before200, Agreeing, WrittenIffReturned
<1>2. ~Success(500) /\ ~Success(502) /\ Success(200)
  BY DEF Success
<1>3. ASSUME NEW body, Respond(body) PROVE Written'
  <2>1. at = "success" /\ wire = <<>> /\ reply' = reply /\ Success(Code(reply))
    BY <1>3 DEF Respond, Written, Before200
  <2>2. \/ Return(500) /\ UNCHANGED wire
        \/ Return(502) /\ UNCHANGED wire
        \/ Return(Code(reply)) /\ WriteHeader(Code(reply))
    BY <1>3 DEF Respond, AnswerRead, AnswerOwned, AnswerImage, Answer
  <2>3. WriteHeader(Code(reply)) => wire' = <<Code(reply)>>
    BY <2>1 DEF WriteHeader
  <2> QED BY <1>1, <1>2, <2>1, <2>2, <2>3 DEF Return
<1>4. CASE GeminiAnswer
  <2>1. at = "built" /\ wire = <<>> /\ reply' = reply
    BY <1>4 DEF GeminiAnswer, Written, Before200
  <2>2. \/ Return(200) /\ wire' = <<200>>
        \/ \E code \in {400, 401, 429, 500, 502, 504} : Return(code) /\ wire' = <<>>
    BY <1>4, <2>1 DEF GeminiAnswer, WriteHeader
  <2>3. \A code \in {400, 401, 429, 500, 502, 504} : ~Success(code)
    BY DEF Success
  <2> QED BY <1>1, <1>2, <2>1, <2>2, <2>3 DEF Return
<1> QED BY <1>3, <1>4

LEMMA WrittenFinally == ASSUME Written, Finally PROVE Written'
<1>1. at = "returned" /\ at' = "over" /\ UNCHANGED <<reply, status>>
  BY DEF Finally
<1>2. wire = IF Success(status) THEN <<status>> ELSE <<>>
  BY <1>1 DEF Written, WrittenIffReturned
<1>3. \/ wire # <<>> /\ wire' = wire
      \/ wire = <<>> /\ (wire' = <<504>> \/ wire' = <<status>>)
  BY <1>2 DEF Finally, WriteHeader
<1>4. Len(wire') = 1
  BY <1>2, <1>3
<1> QED BY <1>1, <1>4 DEF Written, Places, Before200, Agreeing, WrittenIffReturned

LEMMA WrittenStep == Written /\ [Next]_vars => Written'
<1> SUFFICES ASSUME Written, [Next]_vars PROVE Written'
  OBVIOUS
<1>1. CASE UNCHANGED vars
  BY <1>1 DEF vars, attempt, Written, WrittenIffReturned
<1>2. CASE ClientLeaves
  BY <1>2 DEF ClientLeaves, attempt, Written, WrittenIffReturned
<1> QED
  BY <1>1, <1>2, WrittenAttempt, WrittenSend, WrittenTerms, WrittenRelay, WrittenRespond, WrittenFinally
     DEF Next

(* Whatever a provider replies, whichever request is sent again, and       *)
(* wherever a panic or the client cuts it short, forwardRequest has        *)
(* written an answer if and only if it returns a success.                  *)
THEOREM WrittenOnce == Spec => []WrittenIffReturned
<1>1. Written => WrittenIffReturned
  BY DEF Written
<1> QED BY <1>1, WrittenInit, WrittenStep, PTL DEF Spec

-----------------------------------------------------------------------------
(* What an attempt costs.                                                  *)

\* What an attempt has sent where it is; only AgentRouter has a mirror and only
\* Cloudflare an agreement.
Spent ==
    /\ sent \in Nat
    /\ at \in {"idle", "body", "built"} => sent = 0
    /\ at = "mirror" => sent = 1 /\ cred.provider = "agentrouter"
    /\ at \in Agreeing => cred.provider = "cloudflare"
    /\ at = "terms" => sent <= 1
    /\ at = "again" => sent <= 2
    /\ at = "agree" => sent <= 3
    /\ sent <= MostSent(cred.provider)

LEMMA SpentInit == Init => Spent
BY DEF Init, Spent, Agreeing, MostSent

LEMMA SpentStep == Spent /\ [Next]_vars => Spent'
<1> SUFFICES ASSUME Spent, [Next]_vars PROVE Spent'
  OBVIOUS
<1>0. /\ \A p : MostSent(p) \in 1..4
      /\ MostSent("agentrouter") = 2 /\ MostSent("cloudflare") = 4
  BY DEF MostSent
<1>1. CASE UNCHANGED vars
  BY <1>1 DEF vars, attempt, Spent
<1>2. ASSUME NEW c \in Credentials, Attempt(c) PROVE Spent'
  <2>1. at' = "body" /\ sent' = 0
    BY <1>2 DEF Attempt
  <2> QED BY <1>0, <2>1 DEF Spent, Agreeing
\* What sends nothing goes on to a place where nothing more is said.
<1>3. ASSUME UNCHANGED <<cred, sent>>, at' \in {"built", "success", "relay", "returned", "over"},
             at' = "built" => at = "body"
      PROVE  Spent'
  BY <1>3 DEF Spent, Agreeing
<1>4. ASSUME NEW r \in Replies, Send(r) PROVE Spent'
  <2>1. at = "built" /\ cred' = cred /\ sent' = 1
    BY <1>4 DEF Send, Sending, Spent
  <2>2. at' \in {"mirror", "terms", "success", "returned"}
    BY <1>4 DEF Send, Judge, Onward
  <2>3. /\ at' = "mirror" => cred.provider = "agentrouter"
        /\ at' = "terms" => cred.provider = "cloudflare"
    BY <1>4 DEF Send, Judge, Onward
  <2> QED BY <1>0, <2>1, <2>2, <2>3 DEF Spent, Agreeing
<1>5. ASSUME NEW r \in Replies, Mirror(r) PROVE Spent'
  <2>1. at = "mirror" /\ cred' = cred /\ sent' = 2 /\ cred.provider = "agentrouter"
    BY <1>5 DEF Mirror, Sending, Spent
  <2>2. at' \in {"success", "returned"}
    BY <1>5, <2>1 DEF Mirror, Judge, Onward
  <2> QED BY <1>0, <2>1, <2>2 DEF Spent, Agreeing
<1>6. CASE AcceptTerms
  <2>1. /\ cred' = cred /\ sent' \in {sent, sent + 1}
        /\ (at = "terms" /\ at' = "again") \/ (at = "again" /\ at' = "agree")
    BY <1>6 DEF AcceptTerms, Sending, Unsent
  <2>2. cred.provider = "cloudflare"
    BY <2>1 DEF Spent, Agreeing
  <2> QED BY <1>0, <2>1, <2>2 DEF Spent, Agreeing
<1>7. ASSUME NEW r \in Replies, Agree(r) PROVE Spent'
  <2>1. /\ at = "agree" /\ cred' = cred /\ sent' = sent + 1
        /\ at' \in {"success", "returned"}
    BY <1>7 DEF Agree, Sending, Return
  <2>2. cred.provider = "cloudflare" /\ sent <= 3
    BY <2>1 DEF Spent, Agreeing
  <2> QED BY <1>0, <2>1, <2>2 DEF Spent, Agreeing
<1>8. CASE Translate \/ StartRelay \/ EndRelay \/ Recover \/ Finally
  BY <1>3, <1>8 DEF Translate, StartRelay, EndRelay, Recover, Finally, Return
<1>9. CASE RelayStep \/ ClientLeaves
  BY <1>9 DEF RelayStep, ClientLeaves, attempt, Spent
<1>10. ASSUME NEW body \in BodyKinds, Respond(body) PROVE Spent'
  <2>1. at' = "returned" /\ UNCHANGED <<cred, sent>>
    BY <1>10 DEF Respond, AnswerRead, AnswerOwned, AnswerImage, Answer, Return
  <2> QED BY <1>3, <2>1
<1>11. CASE GeminiAnswer
  <2>1. at' = "returned" /\ cred' = cred /\ sent' = 1
    BY <1>11 DEF GeminiAnswer, Return, Sending, Spent
  <2> QED BY <1>0, <2>1 DEF Spent, Agreeing
<1> QED
  BY <1>1, <1>2, <1>4, <1>5, <1>6, <1>7, <1>8, <1>9, <1>10, <1>11 DEF Next

(* However its provider fails, an attempt sends one request; at AgentRouter *)
(* two; at Cloudflare four: its own, the two that accept the terms, and the *)
(* repeat.                                                                  *)
THEOREM SendsAreBounded == Spec => []SendsBounded
<1>1. Spent => SendsBounded
  BY DEF Spent, SendsBounded
<1> QED BY <1>1, SpentInit, SpentStep, PTL DEF Spec
-----------------------------------------------------------------------------
(* What a stream becomes for the client.  A chunk of Vertex has several    *)
(* parts, and what they become is defined recursively, so something must   *)
(* be said of the natural numbers first.                                   *)

LEMMA NotMore ==
    ASSUME NEW R, \A x, y \in Nat : <<y, x>> \notin R => ~(y < x), NEW T, T \subseteq Nat,
           NEW x \in T, \A y \in T : <<y, x>> \notin R
    PROVE  \A y \in T : x <= y
<1> TAKE y \in T
<1>1. y \in Nat /\ x \in Nat /\ <<y, x>> \notin R
  OBVIOUS
<1>2. ~(y < x)
  BY <1>1, Zenon
<1> QED BY <1>1, <1>2, SMT

\* A set of numbers has a least one.
LEMMA Least ==
    ASSUME NEW T, T \subseteq Nat, T # {}
    PROVE  \E x \in T : \A y \in T : x <= y
<1>1. \A x, y \in Nat : <<y, x>> \notin OpToRel(<, Nat) => ~(y < x)
  BY DEF OpToRel
<1>2. \E x \in T : \A y \in T : <<y, x>> \notin OpToRel(<, Nat)
  BY NatLessThanWellFounded, WFMin
<1> QED BY <1>1, <1>2, NotMore

\* Induction, for a set of numbers.
LEMMA Everywhere ==
    ASSUME NEW T, 0 \in T, \A k \in T \cap Nat : k + 1 \in T
    PROVE  Nat \subseteq T
<1> SUFFICES ASSUME Nat \ T # {} PROVE FALSE
  OBVIOUS
<1>1. PICK x \in Nat \ T : \A y \in Nat \ T : x <= y
  BY Least
<1>2. x # 0 /\ x - 1 \in Nat
  BY <1>1
<1>3. x - 1 \in T
  BY <1>1, <1>2
<1>4. x = (x - 1) + 1
  BY <1>2
<1> QED BY <1>1, <1>2, <1>3, <1>4

\* g is what the first parts of a chunk become, one more each time.
Becoming(g, parts, word, t) ==
    g = [k \in 0..Len(parts) |->
            IF k = 0 THEN Result(<<>>, t)
            ELSE LET n == Part(parts[k], word, g[k - 1].tmx)
                 IN  Result(g[k - 1].items \o n.items, n.tmx)]

\* Parts is well defined.
LEMMA PartsFold ==
    ASSUME NEW parts, Len(parts) \in Nat, NEW word, NEW t
    PROVE  \E g : Becoming(g, parts, word, t) /\ Parts(parts, word, t) = g[Len(parts)]
<1> DEFINE Glued(k, r) ==
        LET s == Part(parts[k], word, r.tmx) IN Result(r.items \o s.items, s.tmx)
    T == {n \in Nat : \E g : g = [k \in 0..n |-> IF k = 0 THEN Result(<<>>, t) ELSE Glued(k, g[k - 1])]}
<1> HIDE DEF Glued
<1>1. 0 \in T
  <2> DEFINE g == [k \in 0..0 |-> Result(<<>>, t)]
  <2>1. g = [k \in 0..0 |-> IF k = 0 THEN Result(<<>>, t) ELSE Glued(k, g[k - 1])]
    OBVIOUS
  <2> QED BY <2>1
<1>2. ASSUME NEW n \in T PROVE n + 1 \in T
  <2>1. PICK g : g = [k \in 0..n |-> IF k = 0 THEN Result(<<>>, t) ELSE Glued(k, g[k - 1])]
    OBVIOUS
  <2> DEFINE h == [k \in 0..(n + 1) |-> IF k = n + 1 THEN Glued(k, g[n]) ELSE g[k]]
  <2>2. \A k \in 0..(n + 1) : h[k] = IF k = 0 THEN Result(<<>>, t) ELSE Glued(k, h[k - 1])
    <3> TAKE k \in 0..(n + 1)
    <3>1. CASE k = n + 1
      <4>1. h[k] = Glued(k, g[n]) /\ h[n] = g[n] /\ k - 1 = n /\ k # 0
        BY <3>1
      <4> QED BY <4>1, <3>1
    <3>2. CASE k # n + 1 /\ k # 0
      <4>1. k \in 0..n /\ k - 1 \in 0..n /\ k - 1 \in 0..(n+1) /\ k - 1 # n + 1
        BY <3>2
      <4>2. h[k] = g[k] /\ h[k - 1] = g[k - 1]
        BY <4>1, <3>2
      <4>3. g[k] = Glued(k, g[k - 1])
        BY <2>1, <4>1, <3>2
      <4> QED BY <4>2, <4>3, <3>2
    <3>3. CASE k = 0
      <4>1. h[0] = g[0] /\ g[0] = Result(<<>>, t)
        BY <2>1
      <4> QED BY <3>3, <4>1
    <3> QED BY <3>1, <3>2, <3>3
  <2> HIDE DEF h
  <2>3. h = [k \in 0..(n + 1) |-> h[k]]
    BY DEF h
  <2>4. h = [k \in 0..(n + 1) |-> IF k = 0 THEN Result(<<>>, t) ELSE Glued(k, h[k - 1])]
    BY <2>2, <2>3, Zenon
  <2> QED BY <2>4
<1> HIDE DEF T
<1>3. Len(parts) \in T
  BY <1>1, <1>2, Everywhere
<1>4. PICK g : g = [k \in 0..Len(parts) |-> IF k = 0 THEN Result(<<>>, t) ELSE Glued(k, g[k - 1])]
  BY <1>3 DEF T
<1>5. Becoming(g, parts, word, t)
  BY <1>4, Zenon DEF Becoming, Glued
<1> DEFINE u == CHOOSE f : Becoming(f, parts, word, t)
<1>6. Becoming(u, parts, word, t)
  BY <1>5
<1>7. Parts(parts, word, t) = u[Len(parts)]
  BY Zenon DEF Parts, Becoming
<1> QED BY <1>6, <1>7
Plain == {"text", "reasoning", "call", "args", "raw"}
Spoken == Plain \cup {"finish"}

Tokens == {Word, Break, Literal, Open, Shut}
Whats == Tokens \cup {"", "stop", "length", "tool_calls"} \cup Nat
Items(kinds) == Seq([as : kinds, what : Whats])
Modes == [inside : BOOLEAN, block : {"", "text", "thinking", "tool_use"}, tool : Nat]

\* What a line becomes: nothing that says the stream is done.
Fine(r, kinds) == r.items \in Items(kinds) /\ r.tmx \in Modes

LEMMA PlainSpoken == \A s \in Items(Plain) : s \in Items(Spoken)
<1> DEFINE P == [as : Plain, what : Whats]
           S == [as : Spoken, what : Whats]
<1>1. \A x \in P : x \in S
  BY DEF Plain, Spoken
<1> HIDE DEF P, S
<1>2. \A s \in Seq(P) : s \in Seq(S)
  BY <1>1
<1> QED BY <1>2 DEF P, S, Items

LEMMA TextPlain ==
    ASSUME NEW words \in Seq(Tokens)
    PROVE  /\ Text(words) \in Items(Plain)
           /\ Reasoning(words) \in Items(Plain)
           /\ Raw(words) \in Seq(Tokens)
<1> DEFINE n == Len(words)
<1>1. n \in Nat /\ DOMAIN words = 1..n /\ \A k \in 1..n : words[k] \in Tokens
  OBVIOUS
<1> HIDE DEF n
<1>2. \A k \in 1..n : (IF words[k] = Break THEN Literal ELSE words[k]) \in Tokens
  BY <1>1 DEF Tokens
<1>3. \A k \in 1..n : /\ Item("text", words[k]) \in [as : Plain, what : Whats]
                      /\ Item("reasoning", words[k]) \in [as : Plain, what : Whats]
  BY <1>1 DEF Item, Plain, Whats
<1>4. Raw(words) = [k \in 1..n |-> Raw(words)[k]] /\ \A k \in 1..n : Raw(words)[k] \in Tokens
  BY <1>1, <1>2 DEF Raw
<1>5. /\ Text(words) = [k \in 1..n |-> Text(words)[k]]
      /\ \A k \in 1..n : Text(words)[k] \in [as : Plain, what : Whats]
  BY <1>1, <1>3 DEF Text
<1>6. /\ Reasoning(words) = [k \in 1..n |-> Reasoning(words)[k]]
      /\ \A k \in 1..n : Reasoning(words)[k] \in [as : Plain, what : Whats]
  BY <1>1, <1>3 DEF Reasoning
<1>7. Raw(words) \in [1..n -> Tokens]
  BY <1>4
<1>8. Text(words) \in [1..n -> [as : Plain, what : Whats]]
  BY <1>5
<1>9. Reasoning(words) \in [1..n -> [as : Plain, what : Whats]]
  BY <1>6
<1>10. Raw(words) \in Seq(Tokens)
  BY <1>1, <1>7
<1>11. \A S : \A f \in [1..n -> S] : f \in Seq(S)
  BY <1>1
<1> QED BY <1>8, <1>9, <1>10, <1>11 DEF Items

\* A text divides at a tag it has.
LEMMA Around ==
    ASSUME NEW text \in Seq(Tokens), NEW tag, Has(tag, text)
    PROVE  Before(tag, text) \in Seq(Tokens) /\ After(tag, text) \in Seq(Tokens)
<1> DEFINE First(k) == text[k] = tag /\ \A j \in 1..(k - 1) : text[j] # tag
           T == {k \in DOMAIN text : text[k] = tag}
           f == CHOOSE k \in DOMAIN text : First(k)
<1>1. T \subseteq Nat /\ T # {}
  BY DEF Has
<1>2. PICK x \in T : \A y \in T : x <= y
  BY <1>1, Least
<1>3. x \in DOMAIN text /\ First(x)
  BY <1>2
<1>4. f \in DOMAIN text
  BY <1>3
<1> HIDE DEF f, First
<1>5. Before(tag, text) = SubSeq(text, 1, f - 1)
  BY DEF Before, f, First
<1>6. f \in 1..Len(text)
  BY <1>4
<1>7. Before(tag, text) \in Seq(Tokens)
  BY <1>5, <1>6
<1>8. Len(Before(tag, text)) = f - 1
  BY <1>5, <1>6
<1>9. After(tag, text) \in Seq(Tokens)
  BY <1>6, <1>8 DEF After
<1> QED BY <1>7, <1>9

LEMMA OneOfPlain ==
    ASSUME NEW r \in Seq(Tokens), NEW s \in Seq(Tokens)
    PROVE  OneOf(r, s) \in Items(Plain)
BY TextPlain DEF OneOf

LEMMA TranslatedFine ==
    ASSUME NEW p, NEW text \in Seq(Tokens), NEW t \in Modes
    PROVE  Fine(Translated(p, text, t), Plain)
<1>1. Within(t) \in Modes /\ Without(t) \in Modes
  BY DEF Within, Without, Modes
<1>2. ASSUME NEW i \in Items(Plain), NEW m \in Modes PROVE Fine(Result(i, m), Plain)
  BY <1>2 DEF Fine, Result
<1>3. \A words \in Seq(Tokens) : Raw(words) \in Seq(Tokens) /\ Text(words) \in Items(Plain)
                                 /\ Reasoning(Raw(words)) \in Items(Plain)
  BY TextPlain
<1>4. ASSUME NEW rest \in Seq(Tokens) PROVE Fine(Opened(p, rest, t), Plain)
  <2>1. CASE p = "nvidia" /\ Has(Shut, rest)
    <3>1. Before(Shut, rest) \in Seq(Tokens) /\ After(Shut, rest) \in Seq(Tokens)
      BY <2>1, Around
    <3> QED BY <2>1, <3>1, <1>1, <1>2, OneOfPlain DEF Opened
  <2>2. CASE ~(p = "nvidia" /\ Has(Shut, rest))
    BY <2>2, <1>1, <1>2, <1>3 DEF Opened
  <2> QED BY <2>1, <2>2
<1>5. CASE ~t.inside /\ Has(Open, text)
  BY <1>5, <1>4, Around DEF Translated
<1>6. CASE ~t.inside /\ ~Has(Open, text)
  BY <1>6, <1>2, <1>3 DEF Translated
<1>7. CASE t.inside /\ Has(Shut, text)
  <2>1. Before(Shut, text) \in Seq(Tokens) /\ After(Shut, text) \in Seq(Tokens)
    BY <1>7, Around
  <2> QED BY <1>7, <2>1, <1>1, <1>2, OneOfPlain DEF Translated
<1>8. CASE t.inside /\ ~Has(Shut, text)
  BY <1>8, <1>2, <1>3 DEF Translated
<1> QED BY <1>5, <1>6, <1>7, <1>8

\* One piece of text, or of reasoning.
LEMMA WordPlain ==
    ASSUME NEW word \in Tokens
    PROVE  /\ Text(<<word>>) \in Items(Plain)
           /\ Text(Raw(<<word>>)) \in Items(Plain)
           /\ Reasoning(Raw(<<word>>)) \in Items(Plain)
<1>1. <<word>> \in Seq(Tokens)
  OBVIOUS
<1> QED BY <1>1, TextPlain, Zenon

LEMMA OneItem ==
    ASSUME NEW kinds, NEW x \in [as : kinds, what : Whats]
    PROVE  <<x>> \in Items(kinds)
<1> DEFINE P == [as : kinds, what : Whats]
<1>1. x \in P
  OBVIOUS
<1> HIDE DEF P
<1> QED BY <1>1 DEF P, Items

LEMMA CallPlain ==
    ASSUME NEW n \in Nat
    PROVE  /\ <<Item("call", n)>> \in Items(Plain)
           /\ <<Item("args", n)>> \in Items(Plain)
           /\ <<Item("call", n), Item("args", n)>> \in Items(Plain)
<1> DEFINE P == [as : Plain, what : Whats]
<1>1. Item("call", n) \in P /\ Item("args", n) \in P
  BY DEF Item, Plain, Whats
<1> HIDE DEF P
<1> QED BY <1>1 DEF P, Items

LEMMA NonePlain == <<>> \in Items(Plain)
BY DEF Items

LEMMA FinishSpoken ==
    ASSUME NEW reason \in {"stop", "length", "tool_calls"}
    PROVE  Finish(reason) \in Items(Spoken)
<1> DEFINE P == [as : Spoken, what : Whats]
<1>1. Item("finish", reason) \in P
  BY DEF Item, Spoken, Whats
<1> HIDE DEF P
<1> QED BY <1>1 DEF P, Items, Finish

LEMMA JoinedItems ==
    ASSUME NEW kinds, NEW i \in Items(kinds), NEW j \in Items(kinds)
    PROVE  i \o j \in Items(kinds)
<1> DEFINE P == [as : kinds, what : Whats]
<1> HIDE DEF P
<1>1. \A x, y \in Seq(P) : x \o y \in Seq(P)
  OBVIOUS
<1> QED BY <1>1 DEF P, Items

LEMMA PartFine ==
    ASSUME NEW part \in {"thought", "text", "call"}, NEW word \in Tokens, NEW t \in Modes
    PROVE  Fine(Part(part, word, t), Plain)
<1>1. t.tool \in Nat /\ [t EXCEPT !.tool = @ + 1] \in Modes
  <2>1. t.tool \in Nat
    BY DEF Modes
  <2>2. \A n \in Nat : [t EXCEPT !.tool = n] \in Modes
    BY DEF Modes
  <2>3. t.tool + 1 \in Nat
    BY <2>1
  <2> QED BY <2>1, <2>2, <2>3
<1>2. CASE part = "thought"
  BY <1>2, WordPlain DEF Part, Fine, Result
<1>3. CASE part = "text"
  BY <1>3, WordPlain DEF Part, Fine, Result
<1>4. CASE part = "call"
  BY <1>4, <1>1, CallPlain DEF Part, Fine, Result
<1> QED BY <1>2, <1>3, <1>4

\* However many parts a chunk has, what they become is plain.
LEMMA PartsFine ==
    ASSUME NEW parts \in Seq({"thought", "text", "call"}), NEW word \in Tokens, NEW t \in Modes
    PROVE  Fine(Parts(parts, word, t), Plain)
<1>0. Len(parts) \in Nat /\ \A k \in 1..Len(parts) : parts[k] \in {"thought", "text", "call"}
  OBVIOUS
<1>1. PICK g : Becoming(g, parts, word, t) /\ Parts(parts, word, t) = g[Len(parts)]
  BY <1>0, PartsFold
<1> DEFINE T == {k \in Nat : k <= Len(parts) => Fine(g[k], Plain)}
<1>2. 0 \in T
  <2>1. g[0] = Result(<<>>, t)
    BY <1>0, <1>1 DEF Becoming
  <2> QED BY <2>1, NonePlain DEF Fine, Result
<1>3. ASSUME NEW k \in T PROVE k + 1 \in T
  <2> SUFFICES ASSUME k + 1 <= Len(parts) PROVE Fine(g[k + 1], Plain)
    OBVIOUS
  <2>1. k + 1 \in 1..Len(parts) /\ (k + 1) - 1 = k /\ k + 1 # 0
    BY <1>0
  <2>2. Fine(g[k], Plain)
    BY SMTT(30), <1>0
  <2> DEFINE n == Part(parts[k + 1], word, g[k].tmx)
  <2>3. g[k + 1] = Result(g[k].items \o n.items, n.tmx)
    BY <1>0, <1>1, <2>1 DEF Becoming
  <2>4. Fine(n, Plain)
    BY <1>0, <2>1, <2>2, PartFine DEF Fine
  <2> HIDE DEF n
  <2>5. g[k].items \o n.items \in Items(Plain)
    BY <2>2, <2>4, JoinedItems DEF Fine
  <2> QED BY <2>3, <2>4, <2>5 DEF Fine, Result
<1> HIDE DEF T
<1>4. Len(parts) \in T
  BY <1>0, <1>2, <1>3, Everywhere
<1> QED BY <1>0, <1>1, <1>4 DEF T

LEMMA FinePlain == ASSUME NEW r, Fine(r, Plain) PROVE Fine(r, Spoken)
BY PlainSpoken DEF Fine

LEMMA GeminiChunkFine ==
    ASSUME NEW parts \in Seq({"thought", "text", "call"}), NEW word \in Tokens, NEW t \in Modes,
           NEW reason \in {"", "stop"}, NEW usage \in BOOLEAN
    PROVE  Fine(GeminiChunk(parts, word, reason, usage, t), Spoken)
<1>1. Fine(Parts(parts, word, t), Spoken)
  BY PartsFine, FinePlain
<1>2. GeminiFinish(reason, usage) \in Items(Spoken)
  <2>1. <<>> \in Items(Spoken) /\ Finish("stop") \in Items(Spoken)
        /\ Finish("stop") \o Finish("stop") \in Items(Spoken)
    BY NonePlain, PlainSpoken, FinishSpoken, JoinedItems
  <2> QED BY <2>1 DEF GeminiFinish
<1> QED BY <1>1, <1>2, JoinedItems DEF GeminiChunk, Fine, Result

-----------------------------------------------------------------------------
(* What the client has heard of a stream.                                  *)

\* All a provider said, and then that it is done.
Ended(h) == \E said \in Items(Spoken) : h = said \o Done

\* Where the provider is, as far as the client hears of it.
Sourced ==
    /\ DOMAIN src = {"inside", "mixed", "block", "calls", "lines", "ended"}
    /\ src.block \in {"", "text", "thinking", "tool_use"}

\* Only a request that succeeds, and does not come back, has a stream.
Streaming ==
    /\ phase \in {"off", "open", "over", "done", "lost"}
    /\ at # "idle" => cred \in Credentials
    /\ at \in {"mirror", "success"} \cup Agreeing => cred.provider # "gemini"
    /\ phase # "off" => provider \in Providers /\ at \in {"relay", "returned", "over"}
    /\ phase # "off" /\ at = "returned" => status = 200

HeardInv ==
    /\ Streaming
    /\ Sourced
    /\ tmx \in Modes
    /\ phase = "off" => heard = <<>>
    /\ phase \in {"off", "open"} => heard \in Items(Spoken)
    /\ phase \in {"over", "done", "lost"} => (gone /\ heard \in Items(Spoken)) \/ Ended(heard)

LEMMA HeardDoneOnce == HeardInv => DoneOnce
<1> SUFFICES ASSUME HeardInv PROVE DoneOnce
  OBVIOUS
<1> DEFINE P == [as : Spoken, what : Whats]
<1>1. \A s \in Seq(P) : \A k \in DOMAIN s : s[k].as # "done"
  <2>1. \A x \in P : x.as # "done"
    BY DEF Spoken, Plain
  <2> HIDE DEF P
  <2> QED BY <2>1
<1> HIDE DEF P
<1>2. CASE heard \in Items(Spoken) /\ (phase \in {"over", "done", "lost"} => gone)
  BY <1>1, <1>2 DEF Items, P, DoneOnce, Positions
<1>3. CASE Ended(heard)
  <2>1. PICK s \in Seq(P) : heard = s \o Done
    BY <1>3 DEF Ended, Items, P
  <2> DEFINE d == Item("done", "")
  <2>2. heard = s \o <<d>> /\ d.as = "done"
    BY <2>1 DEF Done, Item
  <2> HIDE DEF d
  <2>3. /\ Len(heard) = Len(s) + 1 /\ Len(s) \in Nat
        /\ DOMAIN heard = 1..(Len(s) + 1)
        /\ heard[Len(s) + 1] = d
        /\ \A k \in 1..Len(s) : heard[k] = s[k] /\ k \in DOMAIN s
    BY <2>2
  <2>4. \A k \in DOMAIN heard : heard[k].as = "done" => k = Len(s) + 1
    BY <1>1, <2>3
  <2>5. Len(s) + 1 \in DOMAIN heard /\ heard[Len(s) + 1].as = "done"
    BY <2>2, <2>3
  <2>6. Positions("done") = {Len(s) + 1}
    BY <2>4, <2>5 DEF Positions
  <2> QED BY <2>3, <2>5, <2>6 DEF DoneOnce, Once
<1> QED BY <1>2, <1>3 DEF HeardInv, Streaming

LEMMA HeardInit == Init => HeardInv
<1> SUFFICES ASSUME Init PROVE HeardInv
  OBVIOUS
<1>1. Streaming
  BY DEF Init, StreamInit, Streaming, Agreeing
<1>2. Sourced
  BY DEF Init, StreamInit, Sourced, Start
<1>3. tmx \in Modes
  BY DEF Init, StreamInit, Nowhere, Modes
<1>4. phase = "off" /\ heard = <<>> /\ heard \in Items(Spoken)
  BY NonePlain, PlainSpoken DEF Init, StreamInit
<1> QED BY <1>1, <1>2, <1>3, <1>4 DEF HeardInv

\* What a provider says changes where it is, as it says.
LEMMA SaysWhere ==
    ASSUME Sourced, NEW next, NEW items, Says(next, items),
           DOMAIN next = {"inside", "mixed", "block", "calls", "lines", "ended"}
    PROVE  /\ DOMAIN src' = DOMAIN next /\ src.ended = "no"
           /\ src'.block = next.block /\ src'.calls = next.calls /\ src'.ended = next.ended
           /\ src'.inside = next.inside /\ src'.mixed = next.mixed
BY DEF Says

LEMMA LineFine ==
    ASSUME HeardInv, StreamNext
    PROVE  \/ RelayDone \/ Close \/ Panic
           \/ Sourced' /\ \E r : Relay(r) /\ Fine(r, Spoken)
<1>0. Sourced /\ tmx \in Modes /\ (phase = "open" => provider \in Providers)
  BY DEF HeardInv, Streaming
<1>1. ASSUME NEW text \in Texts[provider], TextChunk(text)
      PROVE  Sourced' /\ \E r : Relay(r) /\ Fine(r, Spoken)
  <2>1. provider \in Providers
    BY <1>0, <1>1 DEF TextChunk, Relay
  <2>2. text \in Seq(Tokens)
    <3>1. text \in Seq({Word, Break, Open, Shut})
      BY <2>1, StreamAssumption DEF StreamAssumption
    <3> DEFINE A == {Word, Break, Open, Shut}
    <3>2. \A x \in A : x \in Tokens
      BY DEF Tokens
    <3> HIDE DEF A
    <3>3. \A s \in Seq(A) : s \in Seq(Tokens)
      BY <3>2
    <3> QED BY <3>1, <3>3 DEF A
  <2>3. Fine(Translated(provider, text, tmx), Spoken)
    BY <1>0, <2>2, TranslatedFine, FinePlain
  <2>4. Sourced'
    <3> DEFINE mid == [src EXCEPT !.inside = Meant(text).inside]
               next == [mid EXCEPT !.mixed = @ \/ ~Followed(provider, text)]
    <3>1. DOMAIN next = DOMAIN src /\ next.block = src.block
      BY <1>0 DEF Sourced
    <3>2. Says(next, Meant(text).items)
      BY <1>1 DEF TextChunk
    <3> HIDE DEF next
    <3> QED BY <1>0, <3>1, <3>2, SaysWhere DEF Sourced
  <2> QED BY <1>1, <2>3, <2>4 DEF TextChunk
<1>2. ASSUME NEW item, item = Item("reasoning", Word) \/ item = Item("finish", "stop"),
             NativeChunk(item)
      PROVE  Sourced' /\ \E r : Relay(r) /\ Fine(r, Spoken)
  <2>1. <<item>> \in Items(Spoken)
    <3> DEFINE P == [as : Spoken, what : Whats]
    <3>1. item \in P
      <4>1. Word \in Whats /\ "stop" \in Whats
        BY DEF Whats, Tokens
      <4>2. Item("reasoning", Word) \in P /\ Item("finish", "stop") \in P
        BY <4>1 DEF Item, Spoken, Plain
      <4> QED BY <1>2, <4>2
    <3> HIDE DEF P
    <3> QED BY <3>1 DEF Items, P
  <2>2. Fine(Result(<<item>>, tmx), Spoken)
    BY <1>0, <2>1 DEF Fine, Result
  <2>3. Sourced'
    <3> DEFINE next == [src EXCEPT !.ended = IF item.as = "finish" THEN item.what ELSE @]
    <3>1. DOMAIN next = DOMAIN src /\ next.block = src.block
      BY <1>0 DEF Sourced
    <3>2. Says(next, IF item.as = "finish" THEN <<>> ELSE <<item>>)
      BY <1>2 DEF NativeChunk
    <3> HIDE DEF next
    <3> QED BY <1>0, <3>1, <3>2, SaysWhere DEF Sourced
  <2> QED BY <1>2, <2>2, <2>3 DEF NativeChunk
<1>4. \A word \in Words[provider] : provider \in Providers => word \in Tokens
  BY StreamAssumption DEF StreamAssumption, Tokens
<1>16. ASSUME StartMessage PROVE Sourced' /\ \E r : Relay(r) /\ Fine(r, Spoken)
  <2>1. Fine(MessageStart(tmx), Spoken)
    <3>1. <<>> \in Items(Spoken)
      BY NonePlain, PlainSpoken
    <3>2. [tmx EXCEPT !.tool = 0, !.block = ""] \in Modes
      BY <1>0 DEF Modes
    <3> QED BY <3>1, <3>2 DEF MessageStart, Fine, Result
  <2>2. Sourced'
    <3> DEFINE mid == [src EXCEPT !.block = ""]
               next == [mid EXCEPT !.calls = 0]
    <3>1. DOMAIN next = DOMAIN src /\ next.block = ""
      BY <1>0 DEF Sourced
    <3>2. Says(next, <<>>)
      BY <1>16 DEF StartMessage
    <3> HIDE DEF next
    <3> QED BY <1>0, <3>1, <3>2, SaysWhere DEF Sourced
  <2> QED BY <1>16, <2>1, <2>2 DEF StartMessage
<1>3. ASSUME NEW kind \in {"text", "thinking", "tool_use"}, NEW text \in Seq(Tokens), StartBlock(kind, text)
      PROVE  Sourced' /\ \E r : Relay(r) /\ Fine(r, Spoken)
  <2>1. Fine(BlockStart(kind, text, tmx), Spoken)
    <3>1. tmx.tool \in Nat /\ [tmx EXCEPT !.block = kind] \in Modes
      BY <1>0, <1>3 DEF Modes
    <3>2. Text(Raw(text)) \in Items(Plain) /\ Reasoning(Raw(text)) \in Items(Plain)
      BY TextPlain
    <3>3. Fine(BlockStart(kind, text, tmx), Plain)
      BY <3>1, <3>2, CallPlain DEF BlockStart, Fine, Result
    <3> QED BY <3>3, FinePlain
  <2>2. Sourced'
    <3> DEFINE mid == [src EXCEPT !.block = kind]
               next == [mid EXCEPT !.calls = IF kind = "tool_use" THEN @ + 1 ELSE @]
    <3>1. DOMAIN next = DOMAIN src /\ next.block = kind
      BY <1>0, <1>3 DEF Sourced
    <3>2. \E items : Says(next, items)
      BY <1>3, Zenon DEF StartBlock
    <3> HIDE DEF next
    <3> QED BY <1>0, <1>3, <3>1, <3>2, SaysWhere DEF Sourced
  <2> QED BY <1>3, <2>1, <2>2 DEF StartBlock
<1>5. ASSUME NEW word \in Words[provider], ContinueBlock(word)
      PROVE  Sourced' /\ \E r : Relay(r) /\ Fine(r, Spoken)
  <2>1. word \in Tokens /\ src.block \in {"text", "thinking", "tool_use"}
    BY <1>0, <1>4, <1>5 DEF ContinueBlock, Relay, Sourced
  <2>2. Fine(BlockDelta(src.block, word, tmx), Spoken)
    <3>1. tmx.tool \in Nat
      BY <1>0 DEF Modes
    <3>2. Fine(BlockDelta(src.block, word, tmx), Plain)
      BY <1>0, <2>1, <3>1, WordPlain, CallPlain DEF BlockDelta, Fine, Result
    <3> QED BY <3>2, FinePlain
  <2>3. Sourced'
    BY <1>0, <1>5, SaysWhere DEF ContinueBlock, Sourced
  <2> QED BY <1>5, <2>2, <2>3 DEF ContinueBlock
<1>6. ASSUME StopBlock PROVE Sourced' /\ \E r : Relay(r) /\ Fine(r, Spoken)
  <2>1. Fine(BlockStop(tmx), Spoken)
    <3>1. tmx.tool \in Nat
      BY <1>0 DEF Modes
    <3>2. \A n \in Nat : [tmx EXCEPT !.block = "", !.tool = n] \in Modes
      BY <1>0 DEF Modes
    <3>3. (IF tmx.block = "tool_use" THEN tmx.tool + 1 ELSE tmx.tool) \in Nat
      BY <3>1
    <3>4. Fine(BlockStop(tmx), Plain)
      BY <3>2, <3>3, NonePlain DEF BlockStop, Fine, Result
    <3> QED BY <3>4, FinePlain
  <2>2. Sourced'
    <3> DEFINE next == [src EXCEPT !.block = ""]
    <3>1. DOMAIN next = DOMAIN src /\ next.block = ""
      BY <1>0 DEF Sourced
    <3>2. Says(next, <<>>)
      BY <1>6 DEF StopBlock
    <3> HIDE DEF next
    <3> QED BY <1>0, <3>1, <3>2, SaysWhere DEF Sourced
  <2> QED BY <1>6, <2>1, <2>2 DEF StopBlock
\* The rest only end what the provider says, or count.
<1>7. ASSUME NEW e, NEW items, Says([src EXCEPT !.ended = e], items) PROVE Sourced'
  <2> DEFINE next == [src EXCEPT !.ended = e]
  <2>1. DOMAIN next = DOMAIN src /\ next.block = src.block
    BY <1>0 DEF Sourced
  <2> HIDE DEF next
  <2> QED BY <1>0, <1>7, <2>1, SaysWhere DEF Sourced, next
<1>8. ASSUME NEW reason \in Reasons, EndMessage(reason)
      PROVE  Sourced' /\ \E r : Relay(r) /\ Fine(r, Spoken)
  <2>1. StopReason(reason) \in {"stop", "length", "tool_calls"}
    BY <1>8 DEF Reasons, StopReason
  <2>2. Fine(MessageDelta(reason, tmx), Spoken)
    BY <1>0, <2>1, FinishSpoken DEF MessageDelta, Fine, Result
  <2> QED BY <1>8, <1>7, <2>2 DEF EndMessage
<1>9. Text(<<Word>>) \in Items(Plain)
  BY WordPlain DEF Tokens
<1>10. ASSUME FailMessage PROVE Sourced' /\ \E r : Relay(r) /\ Fine(r, Spoken)
  <2>1. Fine(ErrorEvent(tmx), Spoken)
    BY <1>0, <1>9, PlainSpoken DEF ErrorEvent, Fine, Result
  <2> QED BY <1>10, <1>7, <2>1 DEF FailMessage
<1>11. ASSUME NEW word \in Words[provider], NEW parts \in Batches, NEW reason \in {"", "stop"},
              NEW usage \in BOOLEAN, SendParts(parts, word, reason, usage)
       PROVE  Sourced' /\ \E r : Relay(r) /\ Fine(r, Spoken)
  <2>1. word \in Tokens /\ parts \in Seq({"thought", "text", "call"})
    BY <1>0, <1>4, <1>11, StreamAssumption DEF SendParts, Relay, StreamAssumption
  <2>2. Fine(GeminiChunk(parts, word, reason, usage, tmx), Spoken)
    BY <1>0, <2>1, GeminiChunkFine
  <2>3. Sourced'
    <3>1. PICK next, items : /\ Says(next, items)
                             /\ DOMAIN next = DOMAIN src /\ next.block = src.block
      <4> DEFINE n == MeantParts(parts, word).calls
                 mid == [src EXCEPT !.ended = IF reason = "" THEN @ ELSE reason]
                 next == [mid EXCEPT !.calls = n]
      <4>1. \E items : Says(next, items)
        BY <1>11, Zenon DEF SendParts
      <4> HIDE DEF n
      <4>2. DOMAIN next = DOMAIN src /\ next.block = src.block
        BY <1>0 DEF Sourced
      <4> HIDE DEF next
      <4> QED BY <4>1, <4>2
    <3> QED BY <1>0, <3>1, SaysWhere DEF Sourced
  <2> QED BY <1>11, <2>2, <2>3, Zenon DEF SendParts
<1>12. Finish("stop") \in Items(Spoken)
  BY FinishSpoken
<1>13. ASSUME FailVertex PROVE Sourced' /\ \E r : Relay(r) /\ Fine(r, Spoken)
  <2>1. Text(<<Word>>) \o Finish("stop") \in Items(Spoken)
    BY <1>9, <1>12, PlainSpoken, JoinedItems
  <2>2. Fine(GeminiError(tmx), Spoken)
    BY <1>0, <2>1 DEF GeminiError, Fine, Result
  <2> QED BY <1>13, <1>7, <2>2 DEF FailVertex
<1>17. ASSUME provider \in Providers, NEW word \in Words[provider], NEW text \in {<<>>, <<word>>}
       PROVE  text \in Seq(Tokens)
  <2>1. <<>> \in Seq(Tokens) /\ <<word>> \in Seq(Tokens)
    BY <1>4, <1>17
  <2> QED BY <1>17, <2>1, Zenon
<1>14. ASSUME NEW word \in Words[provider], NEW text \in {<<>>, <<word>>}, NEW done \in BOOLEAN,
              SendOllama(text, done) \/ SendSelfHosted(text, done)
       PROVE  Sourced' /\ \E r : Relay(r) /\ Fine(r, Spoken)
  <2>1. provider \in Providers
    BY <1>0, <1>14 DEF SendOllama, SendSelfHosted, Relay
  <2>2. text \in Seq(Tokens)
    BY <1>14, <2>1, <1>17
  <2>3. Text(text) \in Items(Spoken) /\ <<>> \in Items(Spoken)
    BY <2>2, TextPlain, NonePlain, PlainSpoken
  <2>4. Fine(OllamaChunk(text, done, tmx), Spoken)
    BY <1>0, <1>12, <2>3, JoinedItems DEF OllamaChunk, Fine, Result
  <2>5. Fine(OllamaOther(tmx), Spoken)
    BY <1>0, <2>3 DEF OllamaOther, Fine, Result
  <2> QED BY <1>14, <1>7, <2>4, <2>5 DEF SendOllama, SendSelfHosted
<1>15. ASSUME NEW word \in Words[provider], NEW event \in {"content", "done", "error"},
              SendOneMin(event, word)
       PROVE  Sourced' /\ \E r : Relay(r) /\ Fine(r, Spoken)
  <2>1. word \in Tokens
    BY <1>0, <1>4, <1>15 DEF SendOneMin, Relay
  <2>2. <<Item("raw", "")>> \in Items(Spoken)
    <3>1. Item("raw", "") \in [as : Spoken, what : Whats]
      BY DEF Item, Spoken, Plain, Whats
    <3> QED BY <3>1, OneItem, Zenon
  <2>3. Text(<<word>>) \in Items(Spoken)
    BY <2>1, WordPlain, PlainSpoken
  <2>4. /\ Fine(OneMinContent(word, tmx), Spoken)
        /\ Fine(OneMinDone(tmx), Spoken)
        /\ Fine(OneMinError(tmx), Spoken)
    BY <1>0, <1>12, <2>2, <2>3 DEF OneMinContent, OneMinDone, OneMinError, Fine, Result
  <2> QED BY <1>15, <1>7, <2>4 DEF SendOneMin
<1>18. \A kind, text : StartBlock(kind, text) => provider \in Providers
  BY <1>0 DEF StartBlock, Relay
<1>19. <<>> \in Seq(Tokens)
  OBVIOUS
<1>20. ASSUME NEW word \in Words[provider], NEW kind \in {"text", "thinking"},
              NEW text \in {<<>>, <<word>>}, StartBlock(kind, text)
       PROVE  Sourced' /\ \E r : Relay(r) /\ Fine(r, Spoken)
  BY <1>3, <1>17, <1>18, <1>20
<1>21. ASSUME StartBlock("tool_use", <<>>) PROVE Sourced' /\ \E r : Relay(r) /\ Fine(r, Spoken)
  BY <1>3, <1>19, <1>21
<1> QED
  BY <1>1, <1>2, <1>5, <1>6, <1>8, <1>10, <1>11, <1>13, <1>14, <1>15, <1>16, <1>20, <1>21
     DEF StreamNext

\* What ends a stream: more of what was said, perhaps, and that it is done.
LEMMA EndingHeard ==
    ASSUME NEW h \in Items(Spoken), NEW more \in Items(Spoken)
    PROVE  Ended(h \o (more \o Done))
<1>1. h \o (more \o Done) = (h \o more) \o Done
  <2> DEFINE P == [as : Spoken \cup {"done"}, what : Whats]
             S == [as : Spoken, what : Whats]
  <2>1. \A x \in S : x \in P
    OBVIOUS
  <2>2. Item("done", "") \in P
    BY DEF Item, Whats
  <2>3. Done \in Seq(P)
    BY <2>2, OneItem, Zenon DEF Done, Items
  <2>4. h \in Seq(S) /\ more \in Seq(S)
    BY DEF Items
  <2> HIDE DEF P, S
  <2>5. h \in Seq(P) /\ more \in Seq(P)
    BY <2>1, <2>4
  <2>6. \A a, b, c \in Seq(P) : a \o (b \o c) = (a \o b) \o c
    OBVIOUS
  <2> QED BY <2>3, <2>5, <2>6
<1>2. h \o more \in Items(Spoken)
  BY JoinedItems
<1> QED BY <1>1, <1>2 DEF Ended

LEMMA DoneEnding ==
    ASSUME NEW h \in Items(Spoken)
    PROVE  Ended(h \o Done)
BY DEF Ended

LEMMA ClosingEnds ==
    ASSUME NEW h \in Items(Spoken)
    PROVE  Ended(h \o Closing)
<1>1. Finish("stop") \in Items(Spoken) /\ Finish("tool_calls") \in Items(Spoken)
  BY FinishSpoken
<1>2. <<>> \in Items(Spoken)
  BY NonePlain, PlainSpoken
<1>3. PICK more \in Items(Spoken) : Closing = more \o Done
  BY <1>1, <1>2 DEF Closing
<1> QED BY <1>3, EndingHeard

LEMMA RelayHeard ==
    ASSUME HeardInv, RelayStep
    PROVE  HeardInv'
<1>0. at = "relay" /\ UNCHANGED <<at, cred, status>> /\ StreamNext
  BY DEF RelayStep, attempt
<1>1. CASE RelayDone \/ Close \/ Panic
  <2>1. /\ phase = "open" /\ phase' \in {"over", "done", "lost"} /\ heard \in Items(Spoken)
        /\ UNCHANGED <<provider, tmx, gone, src>>
        /\ (heard' = IF gone THEN heard ELSE heard \o Done)
           \/ (heard' = IF gone THEN heard ELSE heard \o Closing)
    BY <1>1 DEF RelayDone, Close, Panic, Write, HeardInv
  <2>2. (gone' /\ heard' \in Items(Spoken)) \/ Ended(heard')
    BY <2>1, DoneEnding, ClosingEnds
  <2>3. Streaming'
    BY <1>0, <2>1 DEF HeardInv, Streaming, Agreeing
  <2> QED BY <2>1, <2>2, <2>3 DEF HeardInv, Sourced
<1>2. ASSUME Sourced', NEW r, Relay(r), Fine(r, Spoken) PROVE HeardInv'
  <2>1. /\ phase = "open" /\ heard \in Items(Spoken) /\ tmx' \in Modes
        /\ UNCHANGED <<provider, gone>>
        /\ phase' \in {"open", "over"} /\ (phase' = "over" => gone)
        /\ heard' = IF gone THEN heard ELSE heard \o r.items
    BY <1>2 DEF Relay, Write, HeardInv, Fine
  <2>2. heard' \in Items(Spoken)
    BY <1>2, <2>1, JoinedItems DEF Fine
  <2>3. Streaming'
    BY <1>0, <2>1 DEF HeardInv, Streaming, Agreeing
  <2> QED BY <1>2, <2>1, <2>2, <2>3 DEF HeardInv
<1> QED BY <1>0, <1>1, <1>2, LineFine

\* What a step leaves of the stream when it is not one of the stream.
LEMMA AwayHeard ==
    ASSUME HeardInv, Streaming', UNCHANGED <<phase, tmx, heard, src>>, gone => gone'
    PROVE  HeardInv'
BY DEF HeardInv, Sourced

LEMMA HeardStep == HeardInv /\ [Next]_vars => HeardInv'
<1> SUFFICES ASSUME HeardInv, [Next]_vars PROVE HeardInv'
  OBVIOUS
<1>0. Streaming
  BY DEF HeardInv
<1>1. CASE UNCHANGED vars
  <2>1. Streaming' /\ UNCHANGED <<phase, tmx, heard, src, gone>>
    BY <1>0, <1>1 DEF vars, attempt, streamVars, relay, Streaming
  <2> QED BY <2>1, AwayHeard
<1>2. ASSUME NEW c \in Credentials, Attempt(c) PROVE HeardInv'
  <2>1. /\ UNCHANGED <<phase, tmx, heard, src, gone, provider>>
        /\ at' = "body" /\ cred' = c /\ (at = "idle" \/ (at = "returned" /\ ~Success(status)))
    BY <1>2 DEF Attempt, Unwritten, streamVars, relay
  <2>2. Success(200)
    BY DEF Success
  <2>3. Streaming'
    BY <1>0, <2>1, <2>2 DEF Streaming, Agreeing
  <2> QED BY <2>1, <2>3, AwayHeard
<1>3. CASE Translate \/ Recover
  <2>1. /\ UNCHANGED <<phase, tmx, heard, src, gone, provider, cred>>
        /\ at \in {"body", "built", "success"} /\ at' \in {"returned", "built"}
    BY <1>3 DEF Translate, Recover, Return, Unwritten, streamVars, relay
  <2>2. Streaming'
    BY <1>0, <2>1 DEF Streaming, Agreeing
  <2> QED BY <2>1, <2>2, AwayHeard
<1>4. ASSUME \/ \E r \in Replies : Send(r) \/ Mirror(r) \/ Agree(r)
             \/ AcceptTerms
      PROVE  HeardInv'
  <2>1. /\ UNCHANGED <<phase, tmx, heard, src, gone, provider, cred>>
        /\ at \in {"built", "mirror"} \cup Agreeing
        /\ at' \in {"mirror", "success", "returned"} \cup Agreeing
        /\ cred.provider # "gemini"
    BY <1>0, <1>4 DEF Send, Mirror, Agree, AcceptTerms, Judge, Onward, Return, Unwritten,
                      streamVars, relay, Streaming, Agreeing
  <2>2. Streaming'
    BY <1>0, <2>1 DEF Streaming, Agreeing
  <2> QED BY <2>1, <2>2, AwayHeard
<1>5. CASE StartRelay
  <2>1. /\ at = "success" /\ at' = "relay" /\ phase' = "open" /\ UNCHANGED <<cred, heard, gone>>
        /\ provider' = Transmuxer(cred) /\ tmx' = Nowhere /\ src' = Start
    BY <1>5 DEF StartRelay, StreamStart
  <2>2. phase = "off" /\ cred \in Credentials /\ cred.provider # "gemini"
    BY <1>0, <2>1 DEF Streaming, Agreeing
  <2>3. provider' \in Providers
    <3>1. \A c : c.provider # "gemini" => Transmuxer(c) # "gemini"
      BY DEF Transmuxer, SelfHosted
    <3> QED BY <2>1, <2>2, <3>1, ForwardAssumption DEF ForwardAssumption
  <2>4. Streaming'
    BY <2>1, <2>2, <2>3 DEF Streaming, Agreeing
  <2>5. Sourced' /\ tmx' \in Modes
    BY <2>1 DEF Sourced, Start, Nowhere, Modes
  <2> QED BY <2>1, <2>2, <2>4, <2>5 DEF HeardInv
<1>6. CASE RelayStep
  BY <1>6, RelayHeard
<1>7. CASE EndRelay
  <2>1. /\ UNCHANGED <<phase, tmx, heard, src, gone, provider, cred>>
        /\ at = "relay" /\ at' = "returned" /\ status' = 200
    BY <1>7 DEF EndRelay, Return, Unwritten, streamVars, relay
  <2>2. Streaming'
    BY <1>0, <2>1 DEF Streaming, Agreeing
  <2> QED BY <2>1, <2>2, AwayHeard
<1>8. CASE (\E body \in BodyKinds : Respond(body)) \/ GeminiAnswer
  <2>1. /\ UNCHANGED <<phase, tmx, heard, src, gone, provider, cred>>
        /\ at \in {"success", "built"} /\ at' = "returned"
    BY <1>8 DEF Respond, GeminiAnswer, AnswerRead, AnswerOwned, AnswerImage, Answer, Return,
                streamVars, relay
  <2>2. Streaming'
    BY <1>0, <2>1 DEF Streaming, Agreeing
  <2> QED BY <2>1, <2>2, AwayHeard
<1>9. CASE ClientLeaves
  <2>1. UNCHANGED <<phase, tmx, heard, src, provider, cred, at, status>> /\ gone'
    BY <1>9 DEF ClientLeaves, attempt
  <2>2. Streaming'
    BY <1>0, <2>1 DEF Streaming, Agreeing
  <2> QED BY <2>1, <2>2, AwayHeard
<1>10. CASE Finally
  <2>1. /\ UNCHANGED <<phase, tmx, heard, src, gone, provider, cred>>
        /\ at = "returned" /\ at' = "over"
    BY <1>10 DEF Finally, streamVars, relay
  <2>2. Streaming'
    BY <1>0, <2>1 DEF Streaming, Agreeing
  <2> QED BY <2>1, <2>2, AwayHeard
<1> QED
  BY <1>1, <1>2, <1>3, <1>4, <1>5, <1>6, <1>7, <1>8, <1>9, <1>10 DEF Next

(* Whichever way a stream of any provider ends, of any length and with any *)
(* texts in it, the client that stays hears [DONE] once and nothing after. *)
THEOREM DoneIsHeardOnce == Spec => []DoneOnce
<1> QED BY HeardDoneOnce, HeardInit, HeardStep, PTL DEF Spec

-----------------------------------------------------------------------------
(* The finish reason of a stream.                                          *)

PositionsIn(h, as) == { k \in DOMAIN h : h[k].as = as }
NoneIn(h, as) == PositionsIn(h, as) = {}
OnceIn(h, as) == \E k \in DOMAIN h : PositionsIn(h, as) = {k}

Heard == Items(Spoken \cup {"done"})

LEMMA HeardItems == \A s \in Items(Spoken) : s \in Heard
<1> DEFINE P == [as : Spoken \cup {"done"}, what : Whats]
           S == [as : Spoken, what : Whats]
<1>1. \A x \in S : x \in P
  OBVIOUS
<1> HIDE DEF P, S
<1>2. \A s \in Seq(S) : s \in Seq(P)
  BY <1>1
<1> QED BY <1>2 DEF P, S, Items, Heard

LEMMA Concatenated ==
    ASSUME NEW h \in Heard, NEW i \in Heard
    PROVE  /\ h \o i \in Heard /\ Len(h) \in Nat /\ Len(i) \in Nat
           /\ DOMAIN h = 1..Len(h) /\ DOMAIN i = 1..Len(i)
           /\ DOMAIN (h \o i) = 1..(Len(h) + Len(i))
           /\ \A k \in 1..Len(h) : (h \o i)[k] = h[k]
           /\ \A k \in 1..Len(i) : (h \o i)[Len(h) + k] = i[k]
<1> DEFINE P == [as : Spoken \cup {"done"}, what : Whats]
<1> HIDE DEF P
<1>1. h \in Seq(P) /\ i \in Seq(P)
  BY DEF P, Heard, Items
<1>2. /\ h \o i \in Seq(P) /\ Len(h) \in Nat /\ Len(i) \in Nat
      /\ DOMAIN h = 1..Len(h) /\ DOMAIN i = 1..Len(i)
      /\ DOMAIN (h \o i) = 1..(Len(h) + Len(i))
  BY <1>1
<1>3. \A k \in 1..Len(h) : (h \o i)[k] = h[k]
  BY <1>1
<1>4. \A k \in 1..Len(i) : (h \o i)[Len(h) + k] = i[k]
  BY <1>1
<1> QED BY <1>2, <1>3, <1>4 DEF P, Heard, Items

LEMMA PositionsMerge ==
    ASSUME NEW h \in Heard, NEW i \in Heard, NEW as
    PROVE  /\ PositionsIn(h \o i, as) =
                PositionsIn(h, as) \cup { Len(h) + k : k \in PositionsIn(i, as) }
           /\ PositionsIn(h, as) \subseteq DOMAIN (h \o i)
           /\ \A k \in PositionsIn(i, as) : Len(h) + k \in DOMAIN (h \o i)
<1> DEFINE s == h \o i
           m == Len(h)
           n == Len(i)
<1>1. /\ m \in Nat /\ n \in Nat
      /\ DOMAIN h = 1..m /\ DOMAIN i = 1..n /\ DOMAIN s = 1..(m + n)
      /\ \A k \in 1..m : s[k] = h[k]
      /\ \A k \in 1..n : s[m + k] = i[k]
  BY Concatenated
<1> HIDE DEF s, m, n
<1>2. \A k \in 1..(m + n) : k \in 1..m \/ (k - m \in 1..n /\ k = m + (k - m))
  BY <1>1
<1>3. \A k \in 1..m : k \in 1..(m + n)
  BY <1>1
<1>4. \A k \in 1..n : m + k \in 1..(m + n)
  BY <1>1
<1>5. ASSUME NEW k \in PositionsIn(s, as)
      PROVE  k \in PositionsIn(h, as) \/ k \in { m + l : l \in PositionsIn(i, as) }
  <2>1. k \in 1..(m + n) /\ s[k].as = as
    BY <1>1, <1>5 DEF PositionsIn
  <2>2. CASE k \in 1..m
    <3>1. s[k] = h[k]
      BY <1>1, <2>2
    <3> QED BY <1>1, <2>1, <2>2, <3>1, Zenon DEF PositionsIn
  <2>3. CASE k - m \in 1..n /\ k = m + (k - m)
    <3>1. PICK l \in 1..n : k = m + l
      BY <2>3
    <3>2. s[k] = i[l]
      BY <1>1, <3>1
    <3>3. l \in PositionsIn(i, as)
      BY <1>1, <2>1, <3>2, Zenon DEF PositionsIn
    <3> QED BY <3>1, <3>3
  <2> QED BY <1>2, <2>1, <2>2, <2>3
<1>6. ASSUME NEW k \in PositionsIn(h, as) PROVE k \in DOMAIN s /\ k \in PositionsIn(s, as)
  <2>1. k \in 1..m /\ h[k].as = as
    BY <1>1, <1>6 DEF PositionsIn
  <2>2. s[k] = h[k] /\ k \in 1..(m + n)
    BY <1>1, <1>3, <2>1
  <2> QED BY <1>1, <2>1, <2>2, Zenon DEF PositionsIn
<1>7. ASSUME NEW l \in PositionsIn(i, as) PROVE m + l \in DOMAIN s /\ m + l \in PositionsIn(s, as)
  <2>1. l \in 1..n /\ i[l].as = as
    BY <1>1, <1>7 DEF PositionsIn
  <2>2. s[m + l] = i[l] /\ m + l \in 1..(m + n)
    BY <1>1, <1>4, <2>1
  <2> QED BY <1>1, <2>1, <2>2, Zenon DEF PositionsIn
<1>8. PositionsIn(s, as) = PositionsIn(h, as) \cup { m + k : k \in PositionsIn(i, as) }
  BY <1>5, <1>6, <1>7
<1> QED BY <1>6, <1>7, <1>8 DEF s, m

\* What comes after leaves what was, and what was not.
LEMMA AppendNone ==
    ASSUME NEW h \in Heard, NEW i \in Heard, NEW as, NoneIn(i, as)
    PROVE  /\ NoneIn(h, as) => NoneIn(h \o i, as)
           /\ OnceIn(h, as) => OnceIn(h \o i, as)
<1>1. PositionsIn(h \o i, as) = PositionsIn(h, as) /\ PositionsIn(h, as) \subseteq DOMAIN (h \o i)
  <2>1. PositionsIn(i, as) = {}
    BY DEF NoneIn
  <2>2. { Len(h) + k : k \in PositionsIn(i, as) } = {}
    BY <2>1
  <2>3. /\ PositionsIn(h \o i, as) =
             PositionsIn(h, as) \cup { Len(h) + k : k \in PositionsIn(i, as) }
        /\ PositionsIn(h, as) \subseteq DOMAIN (h \o i)
    BY PositionsMerge, Zenon
  <2> QED BY <2>2, <2>3
<1> QED BY <1>1 DEF NoneIn, OnceIn

LEMMA AppendOnce ==
    ASSUME NEW h \in Heard, NEW i \in Heard, NEW as, NoneIn(h, as), OnceIn(i, as)
    PROVE  OnceIn(h \o i, as)
<1>1. PICK k : PositionsIn(i, as) = {k}
  BY DEF OnceIn
<1>2. PositionsIn(h \o i, as) = {Len(h) + k} /\ Len(h) + k \in DOMAIN (h \o i)
  <2>1. { Len(h) + l : l \in PositionsIn(i, as) } = {Len(h) + k}
    BY <1>1
  <2>2. PositionsIn(h, as) = {}
    BY DEF NoneIn
  <2>3. /\ PositionsIn(h \o i, as) =
             PositionsIn(h, as) \cup { Len(h) + l : l \in PositionsIn(i, as) }
        /\ \A l \in PositionsIn(i, as) : Len(h) + l \in DOMAIN (h \o i)
    BY PositionsMerge, Zenon
  <2>4. Len(h) + k \in DOMAIN (h \o i)
    BY <1>1, <2>3
  <2> QED BY <2>1, <2>2, <2>3, <2>4
<1> QED BY <1>2 DEF OnceIn

LEMMA PlainKinds ==
    ASSUME NEW i \in Items(Plain)
    PROVE  i \in Heard /\ NoneIn(i, "finish") /\ "finish" \notin Kinds(i)
<1>1. i \in Heard
  BY PlainSpoken, HeardItems
<1>2. \A k \in DOMAIN i : i[k].as # "finish"
  <2> DEFINE P == [as : Plain, what : Whats]
  <2>1. \A x \in P : x.as # "finish"
    BY DEF Plain
  <2>2. i \in Seq(P)
    BY DEF Items
  <2> HIDE DEF P
  <2>3. \A k \in DOMAIN i : i[k] \in P
    BY <2>2
  <2> QED BY <2>1, <2>3
<1> QED BY <1>1, <1>2 DEF NoneIn, PositionsIn, Kinds

\* A finish reason, and what ends a stream without one and with one.
LEMMA FinishKinds ==
    ASSUME NEW reason \in {"stop", "length", "tool_calls"}
    PROVE  /\ Finish(reason) \in Heard /\ OnceIn(Finish(reason), "finish")
           /\ Kinds(Finish(reason)) = {"finish"}
           /\ Finish(reason) \o Done \in Heard /\ OnceIn(Finish(reason) \o Done, "finish")
           /\ Done \in Heard /\ NoneIn(Done, "finish")
<1>1. Finish(reason) \in Heard
  BY FinishSpoken, HeardItems
<1>2. DOMAIN Finish(reason) = {1} /\ Finish(reason)[1].as = "finish"
  BY DEF Finish, Item
<1>3. OnceIn(Finish(reason), "finish") /\ Kinds(Finish(reason)) = {"finish"}
  BY <1>2 DEF OnceIn, PositionsIn, Kinds
<1>4. Done \in Heard
  <2>1. Item("done", "") \in [as : Spoken \cup {"done"}, what : Whats]
    BY DEF Item, Whats
  <2> QED BY <2>1, OneItem, Zenon DEF Done, Heard
<1>5. DOMAIN Done = {1} /\ Done[1].as # "finish"
  <2>1. DOMAIN Done = {1} /\ Done[1] = Item("done", "")
    BY DEF Done
  <2>2. Item("done", "").as = "done"
    BY DEF Item
  <2> QED BY <2>1, <2>2
<1>6. NoneIn(Done, "finish")
  BY <1>5 DEF NoneIn, PositionsIn
<1>7. OnceIn(Finish(reason) \o Done, "finish")
  BY <1>1, <1>3, <1>4, <1>6, AppendNone
<1>8. Finish(reason) \o Done \in Heard
  BY <1>1, <1>4, Concatenated
<1> QED BY <1>1, <1>3, <1>4, <1>6, <1>7, <1>8

\* A stream in Anthropic's format while it runs: what ProxyStream saw of it is
\* what it said, and what the client heard.
Seen ==
    /\ src.calls \in Nat
    /\ src.calls > 0 => saw.calls
    /\ saw.finish <=> src.ended \notin {"no", "error"}
    /\ ~gone => IF saw.finish THEN OnceIn(heard, "finish") ELSE NoneIn(heard, "finish")

FinishInv ==
    /\ phase = "open" /\ provider \in Messages => Seen
    /\ FinishTold

\* A line in Anthropic's format is plain, or the one that tells how it ended.
PlainLine(r) ==
    /\ r.items \in Items(Plain)
    /\ src'.ended \in {"no", "error"}
    /\ \/ src'.calls \in {0, src.calls}
       \/ src'.calls = src.calls + 1 /\ "call" \in Kinds(r.items)

FinalLine(r) ==
    /\ \E reason \in {"stop", "length", "tool_calls"} : r.items = Finish(reason)
    /\ src'.ended \notin {"no", "error"}
    /\ src'.calls = src.calls

LEMMA MessageLine ==
    ASSUME HeardInv, StreamNext, provider \in Messages
    PROVE  \/ RelayDone \/ Close \/ Panic
           \/ src.ended = "no" /\ \E r : Relay(r) /\ (PlainLine(r) \/ FinalLine(r))
<1>0. Sourced /\ tmx \in Modes /\ (phase = "open" => provider \in Providers)
  BY DEF HeardInv, Streaming
<1>1. /\ provider \notin Thinking /\ provider # "vertex" /\ provider # "ollama"
      /\ provider # "1minai" /\ provider # SelfHosted
  BY DEF Messages, Thinking, SelfHosted
<1>8. \A word \in Words[provider] : provider \in Providers => word \in Tokens
  BY StreamAssumption DEF StreamAssumption, Tokens
<1>9. ASSUME StartMessage
      PROVE  src.ended = "no" /\ Relay(MessageStart(tmx)) /\ PlainLine(MessageStart(tmx))
  <2> DEFINE mid == [src EXCEPT !.block = ""]
             next == [mid EXCEPT !.calls = 0]
  <2>1. DOMAIN next = DOMAIN src /\ next.ended = src.ended /\ next.calls = 0
    BY <1>0 DEF Sourced
  <2>2. Says(next, <<>>)
    BY <1>9 DEF StartMessage
  <2> HIDE DEF next
  <2>3. src.ended = "no" /\ src'.ended = "no" /\ src'.calls = 0
    BY <1>0, <2>1, <2>2, SaysWhere DEF Sourced
  <2>4. PlainLine(MessageStart(tmx))
    BY <2>3, NonePlain DEF PlainLine, MessageStart, Result
  <2> QED BY <1>9, <2>3, <2>4 DEF StartMessage
<1>2. ASSUME NEW kind \in {"text", "thinking", "tool_use"}, NEW text \in Seq(Tokens),
             StartBlock(kind, text)
      PROVE  /\ src.ended = "no"
             /\ Relay(BlockStart(kind, text, tmx)) /\ PlainLine(BlockStart(kind, text, tmx))
  <2> DEFINE mid == [src EXCEPT !.block = kind]
             next == [mid EXCEPT !.calls = IF kind = "tool_use" THEN @ + 1 ELSE @]
  <2>1. /\ DOMAIN next = DOMAIN src /\ next.ended = src.ended
        /\ next.calls = IF kind = "tool_use" THEN src.calls + 1 ELSE src.calls
    BY <1>0, <1>2 DEF Sourced
  <2>2. \E items : Says(next, items)
    BY <1>2, Zenon DEF StartBlock
  <2> HIDE DEF next
  <2>3. src.ended = "no" /\ src'.ended = "no" /\ src'.calls = next.calls
    BY <1>0, <2>1, <2>2, SaysWhere DEF Sourced
  <2>4. BlockStart(kind, text, tmx).items = CASE kind = "thinking" -> Reasoning(Raw(text))
                                              [] kind = "text" -> Text(Raw(text))
                                              [] kind = "tool_use" -> <<Item("call", tmx.tool)>>
    BY DEF BlockStart, Result
  <2>5. "call" \in Kinds(<<Item("call", tmx.tool)>>)
    BY DEF Kinds, Item
  <2>6. tmx.tool \in Nat
    BY <1>0 DEF Modes
  <2>7. /\ <<Item("call", tmx.tool)>> \in Items(Plain)
        /\ Text(Raw(text)) \in Items(Plain) /\ Reasoning(Raw(text)) \in Items(Plain)
    BY <2>6, CallPlain, TextPlain
  <2>8. PlainLine(BlockStart(kind, text, tmx))
    BY <1>2, <2>1, <2>3, <2>4, <2>5, <2>7 DEF PlainLine
  <2> QED BY <1>2, <2>3, <2>8 DEF StartBlock
<1>3. ASSUME NEW word \in Words[provider], ContinueBlock(word)
      PROVE  /\ src.ended = "no"
             /\ Relay(BlockDelta(src.block, word, tmx)) /\ PlainLine(BlockDelta(src.block, word, tmx))
  <2>1. word \in Tokens /\ src.block \in {"text", "thinking", "tool_use"}
    BY <1>0, <1>3, StreamAssumption
       DEF ContinueBlock, Relay, Sourced, StreamAssumption, Tokens
  <2>2. tmx.tool \in Nat
    BY <1>0 DEF Modes
  <2>3. BlockDelta(src.block, word, tmx).items \in Items(Plain)
    BY <2>1, <2>2, WordPlain, CallPlain DEF BlockDelta, Result
  <2>4. src.ended = "no" /\ src'.ended = src.ended /\ src'.calls = src.calls
    BY <1>0, <1>3, SaysWhere DEF ContinueBlock, Sourced
  <2>5. PlainLine(BlockDelta(src.block, word, tmx))
    BY <2>3, <2>4 DEF PlainLine
  <2> QED BY <1>3, <2>4, <2>5 DEF ContinueBlock
<1>4. ASSUME StopBlock
      PROVE  src.ended = "no" /\ Relay(BlockStop(tmx)) /\ PlainLine(BlockStop(tmx))
  <2> DEFINE next == [src EXCEPT !.block = ""]
  <2>1. DOMAIN next = DOMAIN src /\ next.ended = src.ended /\ next.calls = src.calls
    BY <1>0 DEF Sourced
  <2>2. Says(next, <<>>)
    BY <1>4 DEF StopBlock
  <2> HIDE DEF next
  <2>3. src.ended = "no" /\ src'.ended = "no" /\ src'.calls = src.calls
    BY <1>0, <2>1, <2>2, SaysWhere DEF Sourced
  <2>4. PlainLine(BlockStop(tmx))
    BY <2>3, NonePlain DEF PlainLine, BlockStop, Result
  <2> QED BY <1>4, <2>3, <2>4 DEF StopBlock
<1>5. ASSUME NEW e, NEW items, Says([src EXCEPT !.ended = e], items)
      PROVE  src.ended = "no" /\ src'.ended = e /\ src'.calls = src.calls
  <2> DEFINE next == [src EXCEPT !.ended = e]
  <2>1. DOMAIN next = DOMAIN src /\ next.ended = e /\ next.calls = src.calls
    BY <1>0 DEF Sourced
  <2> HIDE DEF next
  <2> QED BY <1>0, <1>5, <2>1, SaysWhere DEF Sourced, next
<1>6. ASSUME NEW reason \in Reasons, EndMessage(reason)
      PROVE  src.ended = "no" /\ Relay(MessageDelta(reason, tmx)) /\ FinalLine(MessageDelta(reason, tmx))
  <2>1. src.ended = "no" /\ src'.ended = reason /\ src'.calls = src.calls
    BY <1>5, <1>6 DEF EndMessage
  <2>2. StopReason(reason) \in {"stop", "length", "tool_calls"} /\ reason \notin {"no", "error"}
    BY <1>6 DEF Reasons, StopReason
  <2>3. FinalLine(MessageDelta(reason, tmx))
    BY <2>1, <2>2 DEF FinalLine, MessageDelta, Result
  <2> QED BY <1>6, <2>1, <2>3 DEF EndMessage
<1>7. ASSUME FailMessage
      PROVE  src.ended = "no" /\ Relay(ErrorEvent(tmx)) /\ PlainLine(ErrorEvent(tmx))
  <2>1. src.ended = "no" /\ src'.ended = "error" /\ src'.calls = src.calls
    BY <1>5, <1>7 DEF FailMessage
  <2>2. Text(<<Word>>) \in Items(Plain)
    BY WordPlain DEF Tokens
  <2>3. PlainLine(ErrorEvent(tmx))
    BY <2>1, <2>2 DEF PlainLine, ErrorEvent, Result
  <2> QED BY <1>7, <2>1, <2>3 DEF FailMessage
<1>10. \A kind, text : StartBlock(kind, text) => provider \in Providers
  BY <1>0 DEF StartBlock, Relay
<1>11. <<>> \in Seq(Tokens)
  OBVIOUS
<1>12. ASSUME NEW word \in Words[provider], NEW kind \in {"text", "thinking"},
              NEW text \in {<<>>, <<word>>}, StartBlock(kind, text)
       PROVE  src.ended = "no" /\ \E r : Relay(r) /\ PlainLine(r)
  <2>1. word \in Tokens
    BY <1>8, <1>10, <1>12
  <2>2. <<word>> \in Seq(Tokens)
    BY <2>1
  <2>3. text \in Seq(Tokens)
    BY <1>11, <1>12, <2>2, Zenon
  <2> QED BY <1>2, <1>12, <2>3
<1>13. ASSUME StartBlock("tool_use", <<>>) PROVE src.ended = "no" /\ \E r : Relay(r) /\ PlainLine(r)
  BY <1>2, <1>11, <1>13
<1> QED
  BY <1>1, <1>3, <1>4, <1>6, <1>7, <1>9, <1>12, <1>13
     DEF StreamNext, TextChunk, NativeChunk, SendParts, FailVertex, SendOllama, SendSelfHosted,
         SendOneMin

LEMMA MessageSeen ==
    ASSUME HeardInv, Seen, phase = "open", provider \in Messages, src.ended = "no",
           NEW r, Relay(r), PlainLine(r) \/ FinalLine(r)
    PROVE  Seen'
<1>1. /\ saw'.calls <=> (saw.calls \/ "call" \in Kinds(r.items) \/ "args" \in Kinds(r.items))
      /\ saw'.finish <=> (saw.finish \/ "finish" \in Kinds(r.items))
      /\ heard' = IF gone THEN heard ELSE heard \o r.items
      /\ gone' = gone
  BY DEF Relay, Write
<1>2. heard \in Heard
  BY HeardItems DEF HeardInv
<1>3. ~saw.finish /\ (~gone => NoneIn(heard, "finish"))
  BY DEF Seen
<1>4. CASE PlainLine(r)
  <2>1. /\ r.items \in Heard /\ NoneIn(r.items, "finish") /\ "finish" \notin Kinds(r.items)
        /\ src'.ended \in {"no", "error"}
        /\ \/ src'.calls \in {0, src.calls}
           \/ src'.calls = src.calls + 1 /\ "call" \in Kinds(r.items)
    BY <1>4, PlainKinds DEF PlainLine
  <2>2. ~saw'.finish
    BY <1>1, <1>3, <2>1
  <2>3. ~gone' => NoneIn(heard', "finish")
    BY <1>1, <1>2, <1>3, <2>1, AppendNone
  <2>4. src'.calls \in Nat /\ (src'.calls > 0 => saw'.calls)
    <3>1. src.calls \in Nat /\ (src.calls > 0 => saw.calls)
      BY DEF Seen
    <3>2. CASE src'.calls \in {0, src.calls}
      BY <1>1, <3>1, <3>2
    <3>3. CASE src'.calls = src.calls + 1 /\ "call" \in Kinds(r.items)
      <4>1. src.calls + 1 \in Nat
        BY <3>1
      <4> QED BY <1>1, <3>3, <4>1
    <3> QED BY <2>1, <3>2, <3>3
  <2> QED BY <2>1, <2>2, <2>3, <2>4 DEF Seen
<1>5. CASE FinalLine(r)
  <2>1. PICK reason \in {"stop", "length", "tool_calls"} : r.items = Finish(reason)
    BY <1>5 DEF FinalLine
  <2>2. r.items \in Heard /\ OnceIn(r.items, "finish") /\ "finish" \in Kinds(r.items)
    BY <2>1, FinishKinds
  <2>3. saw'.finish
    BY <1>1, <2>2
  <2>4. ~gone' => OnceIn(heard', "finish")
    BY <1>1, <1>2, <1>3, <2>2, AppendOnce
  <2>5. src'.calls \in Nat /\ (src'.calls > 0 => saw'.calls) /\ src'.ended \notin {"no", "error"}
    BY <1>1, <1>5 DEF FinalLine, Seen
  <2> QED BY <2>3, <2>4, <2>5 DEF Seen
<1> QED BY <1>4, <1>5

LEMMA ClosingTells ==
    ASSUME HeardInv, FinishInv, Close
    PROVE  FinishTold'
<1>1. /\ phase = "open" /\ phase' = "over"
      /\ heard \in Heard /\ UNCHANGED <<provider, saw, gone, src>>
      /\ heard' = IF gone THEN heard ELSE heard \o Closing
  BY HeardItems DEF Close, Write, HeardInv
<1> SUFFICES ASSUME ~gone' PROVE
      /\ provider \in Messages => Once("finish")'
      /\ provider = "1minai" => "finish" \in Kinds(heard')
      /\ provider \in Messages /\ src.calls > 0 /\ src.ended \in {"no", "error"} =>
             Item("finish", "tool_calls") \in { heard'[k] : k \in DOMAIN heard' }
  BY <1>1 DEF FinishTold
<1>2. heard' = heard \o Closing
  BY <1>1
<1>3. ASSUME NEW i \in Heard, NEW k \in DOMAIN i
      PROVE  i[k] \in { (heard \o i)[j] : j \in DOMAIN (heard \o i) }
  <2>1. k \in 1..Len(i) /\ (heard \o i)[Len(heard) + k] = i[k]
    BY ZenonT(40), <1>1, <1>3, Concatenated
  <2>2. Len(heard) + k \in DOMAIN (heard \o i)
    <3>1. /\ Len(heard) \in Nat /\ Len(i) \in Nat
          /\ DOMAIN (heard \o i) = 1..(Len(heard) + Len(i))
      BY <1>1, Concatenated
    <3> DEFINE m == Len(heard)
               n == Len(i)
    <3> HIDE DEF m, n
    <3>2. \A l \in 1..n : m \in Nat /\ n \in Nat => m + l \in 1..(m + n)
      OBVIOUS
    <3> QED BY <2>1, <3>1, <3>2 DEF m, n
  <2> QED BY <2>1, <2>2
<1>4. ASSUME NEW reason \in {"stop", "tool_calls"}, Closing = Finish(reason) \o Done
      PROVE  Item("finish", reason) \in { heard'[k] : k \in DOMAIN heard' }
  <2>1. Closing \in Heard
    BY <1>4, FinishKinds
  <2>2. 1 \in DOMAIN Closing /\ Closing[1] = Item("finish", reason)
    <3>1. \A x, y : 1 \in DOMAIN (<<x>> \o <<y>>) /\ (<<x>> \o <<y>>)[1] = x
      OBVIOUS
    <3> QED BY <1>4, <3>1 DEF Finish, Done
  <2> QED BY <1>2, <1>3, <2>1, <2>2
<1>5. ASSUME provider \in Messages PROVE Once("finish")'
  <2>1. Seen
    BY <1>1, <1>5 DEF FinishInv
  <2>2. CASE saw.finish
    <3>1. Closing = <<>> \o Done
      BY <1>5, <2>2 DEF Closing, Messages
    <3>2. Closing = Done
      <4>1. \A x : <<>> \o <<x>> = <<x>>
        OBVIOUS
      <4> QED BY <3>1, <4>1 DEF Done
    <3>3. OnceIn(heard, "finish")
      BY <1>1, <2>1, <2>2 DEF Seen
    <3>4. OnceIn(heard', "finish")
      BY <1>1, <1>2, <3>2, <3>3, FinishKinds, AppendNone
    <3> QED BY <3>4 DEF OnceIn, PositionsIn, Once, Positions
  <2>3. CASE ~saw.finish
    <3>1. PICK reason \in {"stop", "length", "tool_calls"} : Closing = Finish(reason) \o Done
      BY <1>5, <2>3 DEF Closing, Messages
    <3>2. NoneIn(heard, "finish")
      BY <1>1, <2>1, <2>3 DEF Seen
    <3>3. OnceIn(heard', "finish")
      BY <1>1, <1>2, <3>1, <3>2, FinishKinds, AppendOnce
    <3> QED BY <3>3 DEF OnceIn, PositionsIn, Once, Positions
  <2> QED BY <2>2, <2>3
<1>6. ASSUME provider = "1minai" PROVE "finish" \in Kinds(heard')
  <2>1. Closing = Finish("stop") \o Done
    BY <1>6 DEF Closing
  <2>2. Item("finish", "stop") \in { heard'[k] : k \in DOMAIN heard' }
    BY <1>4, <2>1
  <2>3. Item("finish", "stop").as = "finish"
    BY DEF Item
  <2> QED BY <2>2, <2>3 DEF Kinds
<1>7. ASSUME provider \in Messages, src.calls > 0, src.ended \in {"no", "error"}
      PROVE  Item("finish", "tool_calls") \in { heard'[k] : k \in DOMAIN heard' }
  <2>1. saw.calls /\ ~saw.finish
    BY <1>1, <1>7 DEF FinishInv, Seen
  <2>2. Closing = Finish("tool_calls") \o Done
    BY <1>7, <2>1 DEF Closing, Messages
  <2> QED BY <1>4, <2>2
<1> QED BY <1>5, <1>6, <1>7

\* The provider's own [DONE]: what was heard of a finish is what was said.
LEMMA DoneTells ==
    ASSUME HeardInv, FinishInv, RelayDone
    PROVE  FinishTold'
<1>1. /\ phase = "open" /\ phase' = "done" /\ heard \in Heard /\ UNCHANGED <<provider, gone, src>>
      /\ heard' = IF gone THEN heard ELSE heard \o Done
  BY HeardItems DEF RelayDone, Write, HeardInv
<1>2. SUFFICES ASSUME ~gone, provider \in Messages
               PROVE  IF src.ended \in {"no", "error"} THEN NoneIn(heard', "finish")
                      ELSE OnceIn(heard', "finish")
  BY <1>1 DEF FinishTold, Positions, PositionsIn, NoneIn, OnceIn, Once
<1>3. Seen
  BY <1>1, <1>2 DEF FinishInv
<1>4. Done \in Heard /\ NoneIn(Done, "finish")
  BY FinishKinds
<1>5. CASE src.ended \in {"no", "error"}
  <2>1. NoneIn(heard, "finish")
    BY <1>2, <1>3, <1>5 DEF Seen
  <2> QED BY <1>1, <1>2, <1>4, <1>5, <2>1, AppendNone
<1>6. CASE src.ended \notin {"no", "error"}
  <2>1. OnceIn(heard, "finish")
    BY <1>2, <1>3, <1>6 DEF Seen
  <2> QED BY <1>1, <1>2, <1>4, <1>6, <2>1, AppendNone
<1> QED BY <1>5, <1>6

LEMMA RelayFinish ==
    ASSUME HeardInv, FinishInv, RelayStep
    PROVE  FinishInv'
<1>0. StreamNext
  BY DEF RelayStep
<1>1. CASE Close
  <2>1. phase' = "over"
    BY <1>1 DEF Close
  <2> QED BY <1>1, <2>1, ClosingTells DEF FinishInv
<1>2. CASE Panic
  BY <1>2 DEF Panic, FinishInv, FinishTold
<1>3. CASE RelayDone
  <2>1. phase' = "done"
    BY <1>3 DEF RelayDone
  <2> QED BY <1>3, <2>1, DoneTells DEF FinishInv
<1>4. ASSUME NEW r, Relay(r) PROVE FinishTold' /\ phase = "open" /\ provider' = provider
  BY <1>4 DEF Relay, FinishTold
<1>5. CASE provider \in Messages
  <2>1. ASSUME src.ended = "no", NEW r, Relay(r), PlainLine(r) \/ FinalLine(r) PROVE FinishInv'
    <3>1. Seen /\ phase = "open"
      BY <1>4, <1>5, <2>1 DEF FinishInv
    <3>2. Seen'
      BY <1>5, <2>1, <3>1, MessageSeen
    <3> QED BY <1>4, <2>1, <3>2 DEF FinishInv
  <2> QED BY <1>0, <1>1, <1>2, <1>3, <1>5, <2>1, MessageLine
<1>6. CASE provider \notin Messages
  <2>1. ASSUME NEW r, Relay(r) PROVE FinishInv'
    BY <1>4, <1>6, <2>1 DEF FinishInv
  <2> QED BY <1>0, <1>1, <1>2, <1>3, <2>1, LineFine
<1> QED BY <1>5, <1>6

LEMMA FinishInit == Init => FinishInv
BY DEF Init, StreamInit, FinishInv, FinishTold

LEMMA FinishStep == HeardInv /\ FinishInv /\ [Next]_vars => FinishInv'
<1> SUFFICES ASSUME HeardInv, FinishInv, [Next]_vars PROVE FinishInv'
  OBVIOUS
<1>1. ASSUME UNCHANGED <<phase, provider, saw, src, heard>>, gone => gone' PROVE FinishInv'
  BY <1>1 DEF FinishInv, Seen, FinishTold, Once, Positions
<1>2. CASE StartRelay
  <2>1. /\ at = "success" /\ phase' = "open" /\ UNCHANGED heard
        /\ src' = Start /\ saw' = [calls |-> FALSE, finish |-> FALSE]
    BY <1>2 DEF StartRelay, StreamStart
  <2>2. phase = "off"
    BY <2>1 DEF HeardInv, Streaming
  <2>3. heard' = <<>>
    BY <2>1, <2>2 DEF HeardInv
  <2>4. src'.calls = 0 /\ src'.ended = "no" /\ ~saw'.finish
    BY <2>1 DEF Start
  <2>5. NoneIn(heard', "finish")
    BY <2>3 DEF NoneIn, PositionsIn
  <2>6. Seen'
    BY <2>4, <2>5 DEF Seen
  <2> QED BY <2>1, <2>6 DEF FinishInv, FinishTold
<1>3. CASE RelayStep
  BY <1>3, RelayFinish
<1>4. CASE ClientLeaves
  BY <1>1, <1>4 DEF ClientLeaves
<1>5. ASSUME [Next]_vars, ~StartRelay, ~RelayStep, ~ClientLeaves
      PROVE  UNCHANGED streamVars
  BY <1>5 DEF Next, vars, Attempt, Translate, Send, Mirror, Agree, AcceptTerms, EndRelay, Respond, GeminiAnswer,
              Recover, Finally, Unwritten
<1>6. CASE UNCHANGED streamVars
  BY <1>1, <1>6 DEF streamVars, relay
<1> QED BY <1>2, <1>3, <1>4, <1>5, <1>6

(* A client that stays until a stream in Anthropic's format closes hears   *)
(* one finish reason, whatever the provider left out, and it says so when  *)
(* there are tools to call; a stream of 1min.ai has one as well.           *)
THEOREM FinishIsTold == Spec => []FinishTold
<1>1. HeardInv /\ FinishInv => FinishTold
  BY DEF FinishInv
<1>2. Init => HeardInv /\ FinishInv
  BY HeardInit, FinishInit
<1>3. HeardInv /\ FinishInv /\ [Next]_vars => (HeardInv /\ FinishInv)'
  BY HeardStep, FinishStep
<1> QED BY <1>1, <1>2, <1>3, PTL DEF Spec

-----------------------------------------------------------------------------
(* Functions by recursion, and what the client heard without its endings.  *)

\* g is base at zero, and at each number a step from the number before.
Recurs(g, n, S, base, step) ==
    /\ g \in [0..n -> S] /\ g[0] = base
    /\ \A k \in 1..n : g[k] = step[<<k, g[k - 1]>>]

\* A function may be defined by recursion.
LEMMA Recursion ==
    ASSUME NEW n \in Nat, NEW S, NEW base \in S, NEW step \in [(1..n) \X S -> S]
    PROVE  \E g : Recurs(g, n, S, base, step)
<1> DEFINE Upto(g, m) == /\ g \in [0..m -> S] /\ g[0] = base
                         /\ \A k \in 1..m : g[k] = step[<<k, g[k - 1]>>]
           T == {m \in Nat : m <= n => \E g : Upto(g, m)}
<1>1. 0 \in T
  <2> DEFINE g == [k \in 0..0 |-> base]
  <2>1. Upto(g, 0)
    OBVIOUS
  <2> QED BY <2>1
<1>2. ASSUME NEW m \in T PROVE m + 1 \in T
  <2> SUFFICES ASSUME m + 1 <= n PROVE \E g : Upto(g, m + 1)
    OBVIOUS
  <2>0. m \in Nat /\ m + 1 \in 1..n /\ m <= n
    OBVIOUS
  <2>1. PICK g : Upto(g, m)
    BY <2>0
  <2> DEFINE e == step[<<m + 1, g[m]>>]
             h == [k \in 0..(m + 1) |-> IF k = m + 1 THEN e ELSE g[k]]
  <2>2. g[m] \in S
    BY <2>0, <2>1
  <2>3. e \in S
    BY <2>0, <2>2
  <2>4. h \in [0..(m + 1) -> S] /\ h[0] = base
    BY <2>0, <2>1, <2>3
  <2>5. \A k \in 1..(m + 1) : h[k] = step[<<k, h[k - 1]>>]
    <3> TAKE k \in 1..(m + 1)
    <3>1. k - 1 \in 0..(m + 1) /\ k - 1 # m + 1 /\ k - 1 \in 0..m
      BY <2>0
    <3>2. h[k - 1] = g[k - 1]
      BY <3>1
    <3>3. CASE k = m + 1
      <4>1. h[k] = e /\ k - 1 = m
        BY <2>0, <3>3
      <4> QED BY <3>2, <3>3, <4>1
    <3>4. CASE k # m + 1
      <4>1. k \in 1..m
        BY <2>0, <3>4
      <4>2. h[k] = g[k]
        BY <3>4
      <4> QED BY <2>1, <3>2, <4>1, <4>2
    <3> QED BY <3>3, <3>4
  <2> HIDE DEF h
  <2> QED BY <2>4, <2>5
<1> HIDE DEF T
<1>3. n \in T
  BY <1>1, <1>2, Everywhere
<1> QED BY <1>3 DEF T, Recurs

\* g is what the provider said of the first items, one more each time.
Tells(g, items) ==
    /\ g \in [0..Len(items) -> Heard]
    /\ g[0] = <<>>
    /\ \A k \in 1..Len(items) : g[k] = Said(g[k - 1], items[k])

LEMMA SaidHeard ==
    ASSUME NEW r \in Heard, NEW x \in [as : Spoken \cup {"done"}, what : Whats]
    PROVE  Said(r, x) \in Heard
<1> DEFINE P == [as : Spoken \cup {"done"}, what : Whats]
<1> HIDE DEF P
<1>1. r \in Seq(P) /\ x \in P
  BY DEF P, Heard, Items
<1>2. Append(r, x) \in Seq(P)
  BY <1>1
<1> QED BY <1>2 DEF P, Heard, Items, Said

LEMMA EachHeard ==
    ASSUME NEW h \in Heard
    PROVE  /\ Len(h) \in Nat /\ DOMAIN h = 1..Len(h)
           /\ \A k \in 1..Len(h) : h[k] \in [as : Spoken \cup {"done"}, what : Whats]
<1> DEFINE P == [as : Spoken \cup {"done"}, what : Whats]
<1> HIDE DEF P
<1>1. h \in Seq(P)
  BY DEF P, Heard, Items
<1>2. Len(h) \in Nat /\ DOMAIN h = 1..Len(h) /\ \A k \in 1..Len(h) : h[k] \in P
  BY <1>1
<1> QED BY <1>2 DEF P

LEMMA NoneHeard == <<>> \in Heard
BY DEF Heard, Items

LEMMA TellsSome == ASSUME NEW h \in Heard PROVE \E g : Tells(g, h)
<1> DEFINE n == Len(h)
           step == [x \in (1..n) \X Heard |-> Said(x[2], h[x[1]])]
<1>1. n \in Nat /\ \A k \in 1..n : h[k] \in [as : Spoken \cup {"done"}, what : Whats]
  BY EachHeard
<1> HIDE DEF n
<1>2. \A x \in (1..n) \X Heard : Said(x[2], h[x[1]]) \in Heard
  <2>1. \A k \in 1..n : \A r \in Heard : Said(r, h[k]) \in Heard
    BY <1>1, SaidHeard
  <2> TAKE x \in (1..n) \X Heard
  <2>2. PICK k \in 1..n, r \in Heard : x = <<k, r>>
    OBVIOUS
  <2>3. x[1] = k /\ x[2] = r
    BY <2>2
  <2> QED BY <2>1, <2>3, Zenon
<1>3. step \in [(1..n) \X Heard -> Heard]
  BY <1>2
<1>4. \A k \in 1..n : \A r \in Heard : step[<<k, r>>] = Said(r, h[k])
  OBVIOUS
<1> HIDE DEF step
<1>5. PICK g : Recurs(g, n, Heard, <<>>, step)
  BY <1>1, <1>3, NoneHeard, Recursion
<1>6. g \in [0..n -> Heard] /\ g[0] = <<>> /\ \A k \in 1..n : g[k] = step[<<k, g[k - 1]>>]
  BY <1>5 DEF Recurs
<1>7. ASSUME NEW k \in 1..n PROVE g[k] = Said(g[k - 1], h[k])
  <2>1. k - 1 \in 0..n
    BY <1>1
  <2>2. g[k - 1] \in Heard
    BY <1>6, <2>1
  <2> QED BY <1>4, <1>6, <2>2
<1>8. \A k \in 1..n : g[k] = Said(g[k - 1], h[k])
  BY <1>7
<1>9. g \in [0..n -> Heard] /\ g[0] = <<>>
  BY <1>6
<1> QED BY <1>8, <1>9 DEF Tells, n

LEMMA ContentTells ==
    ASSUME NEW h \in Heard, NEW g, Tells(g, h)
    PROVE  Content(h) = g[Len(h)]
<1> DEFINE Fold(f) == f = [k \in 0..Len(h) |-> IF k = 0 THEN <<>> ELSE Said(f[k - 1], h[k])]
           u == CHOOSE f : Fold(f)
<1>0. Len(h) \in Nat
  BY EachHeard
<1>1. ASSUME NEW f, Tells(f, h) PROVE Fold(f)
  <2>1. \A k \in 0..Len(h) : k = 0 \/ k \in 1..Len(h)
    BY <1>0
  <2>2. \A k \in 0..Len(h) : f[k] = IF k = 0 THEN <<>> ELSE Said(f[k - 1], h[k])
    BY <1>1, <2>1, Zenon DEF Tells
  <2>3. f = [k \in 0..Len(h) |-> f[k]]
    BY <1>1 DEF Tells
  <2> QED BY <2>2, <2>3, Zenon
<1>2. Fold(u)
  BY <1>1
<1>3. Content(h) = u[Len(h)]
  BY Zenon DEF Content
<1> HIDE DEF u
<1>4. u[0] = <<>> /\ g[0] = <<>>
  BY <1>0, <1>2 DEF Tells
<1> DEFINE T == {k \in Nat : k <= Len(h) => u[k] = g[k]}
<1>5. 0 \in T
  BY <1>4
<1>6. ASSUME NEW k \in T PROVE k + 1 \in T
  <2> SUFFICES ASSUME k + 1 <= Len(h) PROVE u[k + 1] = g[k + 1]
    OBVIOUS
  <2>1. k + 1 \in 1..Len(h) /\ (k + 1) - 1 = k /\ u[k] = g[k] /\ k + 1 # 0 /\ k + 1 \in 0..Len(h)
    BY <1>0
  <2>2. g[k + 1] = Said(g[k], h[k + 1])
    BY <2>1 DEF Tells
  <2>3. u[k + 1] = Said(u[k], h[k + 1])
    BY <1>2, <2>1
  <2> QED BY <2>1, <2>2, <2>3
<1> HIDE DEF T
<1>7. Len(h) \in T
  BY <1>0, <1>5, <1>6, Everywhere
<1> QED BY <1>3, <1>7 DEF T

\* What was said by then and what is said now, one after the other.
LEMMA ContentJoin ==
    ASSUME NEW h \in Heard, NEW i \in Heard
    PROVE  /\ Content(h \o i) = Content(h) \o Content(i)
           /\ Content(h) \in Heard
<1> DEFINE P == [as : Spoken \cup {"done"}, what : Whats]
           m == Len(h)
           n == Len(i)
           s == h \o i
<1>1. PICK f : Tells(f, h)
  BY TellsSome
<1>2. PICK g : Tells(g, i)
  BY TellsSome
<1>3. /\ s \in Heard /\ m \in Nat /\ n \in Nat /\ Len(s) = m + n
      /\ \A k \in 1..m : s[k] = h[k]
      /\ \A k \in 1..n : s[m + k] = i[k]
  <2>1. \A a, b \in Seq(P) : Len(a \o b) = Len(a) + Len(b)
    OBVIOUS
  <2>2. Len(s) = m + n
    BY <2>1 DEF Heard, Items
  <2> QED BY <2>2, Concatenated
<1> HIDE DEF m, n, s
<1>4. /\ f \in [0..m -> Heard] /\ f[0] = <<>>
      /\ \A k \in 1..m : f[k] = Said(f[k - 1], h[k])
  BY <1>1 DEF Tells, m
<1>5. /\ g \in [0..n -> Heard] /\ g[0] = <<>>
      /\ \A k \in 1..n : g[k] = Said(g[k - 1], i[k])
  BY <1>2 DEF Tells, n
<1>6. f[m] \in Heard /\ \A k \in 0..n : g[k] \in Heard
  BY <1>3, <1>4, <1>5
<1>7. ASSUME NEW a \in Heard, NEW b \in Heard, NEW x \in P
      PROVE  Said(a \o b, x) = a \o Said(b, x)
  <2> HIDE DEF P
  <2>1. a \in Seq(P) /\ b \in Seq(P)
    BY DEF P, Heard, Items
  <2>2. Append(a \o b, x) = a \o Append(b, x)
    BY <2>1
  <2> QED BY <2>2 DEF Said
<1>8. \A a \in Heard : a \o <<>> = a
  <2> HIDE DEF P
  <2>1. \A a \in Seq(P) : a \o <<>> = a
    OBVIOUS
  <2> QED BY <2>1 DEF P, Heard, Items
<1>9. \A k \in 1..n : i[k] \in P
  BY EachHeard DEF n
<1> HIDE DEF P
<1> DEFINE u == [k \in 0..(m + n) |-> IF k <= m THEN f[k] ELSE f[m] \o g[k - m]]
<1>10. u \in [0..(m + n) -> Heard]
  <2>1. ASSUME NEW k \in 0..(m + n) PROVE (IF k <= m THEN f[k] ELSE f[m] \o g[k - m]) \in Heard
    <3>1. CASE k <= m
      <4>1. k \in 0..m
        BY <1>3, <3>1
      <4> QED BY <1>4, <3>1, <4>1
    <3>2. CASE ~(k <= m)
      <4>1. k - m \in 0..n
        BY <1>3, <3>2
      <4> QED BY <1>6, <3>2, <4>1, Concatenated
    <3> QED BY <3>1, <3>2
  <2> QED BY <2>1
<1>11. \A k \in 0..(m + n) : /\ k <= m => u[k] = f[k]
                             /\ ~(k <= m) => u[k] = f[m] \o g[k - m]
  OBVIOUS
<1> HIDE DEF u
<1>12. u[0] = <<>>
  <2>1. 0 \in 0..(m + n) /\ 0 <= m
    BY <1>3
  <2>2. u[0] = f[0]
    BY <1>11, <2>1, Zenon
  <2> QED BY <1>4, <2>2
<1>13. ASSUME NEW k \in 1..(m + n) PROVE u[k] = Said(u[k - 1], s[k])
  <2>0. k \in 0..(m + n) /\ k - 1 \in 0..(m + n)
    BY <1>3
  <2>1. CASE k <= m
    <3>1. k \in 1..m /\ k - 1 <= m
      BY <1>3, <2>1
    <3>2. u[k] = f[k] /\ u[k - 1] = f[k - 1]
      BY <1>11, <2>0, <2>1, <3>1, Zenon
    <3>3. s[k] = h[k] /\ f[k] = Said(f[k - 1], h[k])
      BY <1>3, <1>4, <3>1, Zenon
    <3> QED BY <3>2, <3>3, Zenon
  <2>2. CASE ~(k <= m)
    <3>1. k - m \in 1..n /\ m + (k - m) = k /\ (k - 1) - m = (k - m) - 1
      BY <1>3, <2>2
    <3>2. PICK j \in 1..n : m + j = k /\ k - m = j /\ (k - 1) - m = j - 1
      BY <3>1
    <3>3. u[k] = f[m] \o g[j]
      <4>1. u[k] = f[m] \o g[k - m]
        BY <1>11, <2>0, <2>2, Zenon
      <4> QED BY <3>2, <4>1, Zenon
    <3>4. u[k - 1] = f[m] \o g[j - 1]
      <4>1. CASE k - 1 <= m
        <5>1. k - 1 = m /\ j - 1 = 0
          BY <1>3, <2>2, <3>2, <4>1
        <5>2. u[k - 1] = f[k - 1]
          BY <1>11, <2>0, <4>1, Zenon
        <5>3. f[m] \o g[0] = f[m]
          BY <1>5, <1>6, <1>8
        <5> QED BY <5>1, <5>2, <5>3, Zenon
      <4>2. CASE ~(k - 1 <= m)
        <5>1. u[k - 1] = f[m] \o g[(k - 1) - m]
          BY <1>11, <2>0, <4>2, Zenon
        <5> QED BY <3>2, <5>1, Zenon
      <4> QED BY <4>1, <4>2
    <3>5. s[k] = i[j] /\ i[j] \in P
      BY <1>3, <1>9, <3>2
    <3>6. g[j] = Said(g[j - 1], i[j]) /\ g[j - 1] \in Heard
      <4>1. j - 1 \in 0..n
        BY <1>3
      <4> QED BY <1>5, <1>6, <4>1
    <3>7. f[m] \o Said(g[j - 1], i[j]) = Said(f[m] \o g[j - 1], i[j])
      BY <1>6, <1>7, <3>5, <3>6
    <3> QED BY <3>3, <3>4, <3>5, <3>6, <3>7, Zenon
  <2> QED BY <2>1, <2>2
<1>14. Tells(u, s)
  BY <1>3, <1>10, <1>12, <1>13 DEF Tells
<1>15. u[m + n] = f[m] \o g[n]
  <2>1. m + n \in 0..(m + n) /\ (m + n) - m = n
    BY <1>3
  <2>2. CASE n = 0
    <3>1. m + n <= m /\ m + n = m
      BY <1>3, <2>2
    <3>2. u[m + n] = f[m + n]
      BY <1>11, <2>1, <3>1, Zenon
    <3>3. f[m] \o g[0] = f[m]
      BY <1>5, <1>6, <1>8
    <3>4. f[m + n] = f[m] /\ g[n] = g[0]
      BY <2>2, <3>1, Zenon
    <3> QED BY <3>2, <3>3, <3>4, Zenon
  <2>3. CASE n # 0
    <3>1. ~(m + n <= m)
      BY <1>3, <2>3
    <3> QED BY <1>11, <2>1, <3>1
  <2> QED BY <2>2, <2>3
<1>16. Content(s) = u[m + n] /\ Content(h) = f[m] /\ Content(i) = g[n]
  BY <1>1, <1>2, <1>3, <1>14, ContentTells DEF m, n
<1> QED BY <1>6, <1>15, <1>16 DEF s

\* All of what is neither a finish reason nor the end was said.
LEMMA ContentPlain == ASSUME NEW s \in Items(Plain) PROVE Content(s) = s
<1> DEFINE P == [as : Plain, what : Whats]
           n == Len(s)
           g == [k \in 0..n |-> SubSeq(s, 1, k)]
<1>0. s \in Heard
  BY PlainKinds
<1>1. s \in Seq(P) /\ n \in Nat
  BY DEF Items
<1>2. \A x \in P : x.as \notin {"finish", "done"}
  BY DEF Plain
<1> HIDE DEF P
<1>3. \A k \in 1..n : s[k] \in P
  BY <1>1
<1>4. ASSUME NEW k \in 0..n PROVE g[k] \in Items(Plain)
  <2>1. SubSeq(s, 1, k) \in Seq(P)
    BY <1>1
  <2> QED BY <2>1 DEF Items, P
<1>5. g \in [0..n -> Heard]
  BY <1>4, PlainKinds
<1>6. g[0] = <<>>
  BY <1>1
<1>7. ASSUME NEW k \in 1..n PROVE g[k] = Said(g[k - 1], s[k])
  <2>1. SubSeq(s, 1, k) = Append(SubSeq(s, 1, k - 1), s[k])
    BY <1>1
  <2>2. k - 1 \in 0..n /\ k \in 0..n
    BY <1>1
  <2>3. s[k].as \notin {"finish", "done"}
    BY <1>2, <1>3
  <2> QED BY <2>1, <2>2, <2>3 DEF Said
<1>8. Tells(g, s)
  BY <1>5, <1>6, <1>7 DEF Tells
<1>9. g[n] = s
  BY <1>1
<1> HIDE DEF g
<1> QED BY <1>0, <1>8, <1>9, ContentTells

\* A finish reason, or the end, says nothing.
LEMMA ContentNone ==
    ASSUME NEW s \in Heard, \A k \in DOMAIN s : s[k].as \in {"finish", "done"}
    PROVE  Content(s) = <<>>
<1> DEFINE n == Len(s)
           g == [k \in 0..n |-> <<>>]
<1>1. n \in Nat /\ DOMAIN s = 1..n
  BY EachHeard
<1>2. g \in [0..n -> Heard]
  BY NoneHeard
<1>3. g[0] = <<>>
  BY <1>1
<1>4. ASSUME NEW k \in 1..n PROVE g[k] = Said(g[k - 1], s[k])
  <2>1. k - 1 \in 0..n /\ k \in 0..n /\ s[k].as \in {"finish", "done"}
    BY <1>1
  <2> QED BY <2>1 DEF Said
<1>5. Tells(g, s)
  BY <1>2, <1>3, <1>4 DEF Tells
<1>6. g[n] = <<>>
  BY <1>1
<1> HIDE DEF g
<1> QED BY <1>5, <1>6, ContentTells

\* What ends a stream.
LEMMA ContentEnd ==
    ASSUME NEW reason \in {"stop", "length", "tool_calls"}
    PROVE  /\ Content(Finish(reason)) = <<>> /\ Content(Done) = <<>>
           /\ Content(Finish(reason) \o Done) = <<>>
           /\ Content(Finish(reason) \o Finish(reason)) = <<>>
<1>1. Finish(reason) \in Heard /\ Done \in Heard
  BY FinishKinds
<1>2. \A k \in DOMAIN Finish(reason) : Finish(reason)[k].as = "finish"
  BY DEF Finish, Item
<1>3. \A k \in DOMAIN Done : Done[k].as = "done"
  <2>1. DOMAIN Done = {1} /\ Done[1] = Item("done", "")
    BY DEF Done
  <2>2. Item("done", "").as = "done"
    BY DEF Item
  <2> QED BY <2>1, <2>2
<1>4. Content(Finish(reason)) = <<>>
  BY <1>1, <1>2, ContentNone
<1>5. Content(Done) = <<>>
  BY <1>1, <1>3, ContentNone
<1>6. <<>> \o <<>> = <<>>
  OBVIOUS
<1> QED BY <1>1, <1>4, <1>5, <1>6, ContentJoin

-----------------------------------------------------------------------------
(* What a text means, and what becomes of it: where its tags divide it.    *)

\* Words without tags.
Spelt == {Word, Break}

\* Words said or thought.
Spoke(thought, words) == IF thought THEN Reasoning(words) ELSE Text(words)

LEMMA SpeltWords ==
    ASSUME NEW words \in Seq(Spelt)
    PROVE  /\ words \in Seq(Tokens) /\ Len(words) \in Nat /\ Raw(words) \in Seq(Tokens)
           /\ \A k \in 1..Len(words) : words[k] \in Tokens /\ words[k] \notin {Open, Shut}
           /\ ~Has(Open, words) /\ ~Has(Shut, words)
<1>1. \A x \in Spelt : x \in Tokens /\ x \notin {Open, Shut}
  BY DEF Spelt, Tokens, Word, Break, Open, Shut
<1>2. Len(words) \in Nat /\ DOMAIN words = 1..Len(words) /\ \A k \in 1..Len(words) : words[k] \in Spelt
  OBVIOUS
<1>3. words \in Seq(Tokens)
  BY <1>1
<1>4. ~Has(Open, words) /\ ~Has(Shut, words)
  BY <1>1, <1>2 DEF Has
<1> QED BY <1>1, <1>2, <1>3, <1>4, TextPlain

LEMMA NoneSpelt == <<>> \in Seq(Spelt) /\ Len(<<>>) = 0 /\ \A thought \in BOOLEAN : Spoke(thought, <<>>) = <<>>
BY DEF Spoke, Reasoning, Text

LEMMA SpokePlain ==
    ASSUME NEW words \in Seq(Tokens), NEW thought \in BOOLEAN
    PROVE  Spoke(thought, words) \in Items(Plain)
BY TextPlain DEF Spoke

LEMMA SpokeMore ==
    ASSUME NEW words \in Seq(Tokens), NEW word \in Tokens, NEW thought \in BOOLEAN
    PROVE  Spoke(thought, Append(words, word)) =
             Spoke(thought, words) \o IF thought THEN Reasoning(<<word>>) ELSE Text(<<word>>)
<1> DEFINE as == IF thought THEN "reasoning" ELSE "text"
           P == [as : Plain, what : Whats]
           of(w) == [k \in DOMAIN w |-> Item(as, w[k])]
           x == Item(as, word)
           n == Len(words)
<1>1. \A w : Spoke(thought, w) = of(w)
  BY DEF Spoke, Reasoning, Text
<1>2. (IF thought THEN Reasoning(<<word>>) ELSE Text(<<word>>)) = <<x>>
  <2>1. of(<<word>>) = <<x>>
    OBVIOUS
  <2> QED BY <2>1 DEF Reasoning, Text
<1>3. \A w \in Seq(Tokens) : of(w) \in Seq(P) /\ Len(of(w)) = Len(w)
  <2> SUFFICES ASSUME NEW w \in Seq(Tokens) PROVE of(w) \in Seq(P) /\ Len(of(w)) = Len(w)
    OBVIOUS
  <2>1. of(w) \in Items(Plain)
    BY <1>1, SpokePlain
  <2>2. DOMAIN of(w) = 1..Len(w) /\ Len(w) \in Nat
    OBVIOUS
  <2> HIDE DEF of, P
  <2>3. of(w) \in Seq(P)
    BY <2>1 DEF Items, P
  <2> QED BY <2>2, <2>3
<1>4. n \in Nat /\ Append(words, word) \in Seq(Tokens) /\ Len(Append(words, word)) = n + 1
      /\ Append(words, word)[n + 1] = word /\ \A k \in 1..n : Append(words, word)[k] = words[k]
  OBVIOUS
<1>5. x \in P
  BY DEF Item, Plain, Whats
<1>6. /\ DOMAIN of(Append(words, word)) = 1..(n + 1)
      /\ of(Append(words, word))[n + 1] = x
      /\ \A k \in 1..n : of(Append(words, word))[k] = of(words)[k]
  <2>1. DOMAIN Append(words, word) = 1..(n + 1) /\ DOMAIN words = 1..n
    BY <1>4
  <2>2. n + 1 \in 1..(n + 1) /\ \A k \in 1..n : k \in 1..(n + 1)
    BY <1>4
  <2> QED BY <1>4, <2>1, <2>2
<1> DEFINE a == of(words)
           b == of(Append(words, word))
<1>7. a \in Seq(P) /\ Len(a) = n /\ b \in Seq(P) /\ Len(b) = n + 1
  BY <1>3, <1>4
<1>8. b[n + 1] = x /\ \A k \in 1..n : b[k] = a[k]
  BY <1>6
<1> HIDE DEF a, b, x, P, n
<1>9. b = a \o <<x>>
  <2>1. a \o <<x>> \in Seq(P) /\ Len(a \o <<x>>) = n + 1
    BY <1>5, <1>7
  <2>2. \A k \in 1..(n + 1) : (a \o <<x>>)[k] = b[k]
    BY <1>4, <1>5, <1>7, <1>8
  <2> QED BY <1>4, <1>7, <2>1, <2>2
<1> QED BY <1>1, <1>2, <1>9, Zenon DEF a, b

\* A tag at the front.
LEMMA TagFirst ==
    ASSUME NEW tag \in Tokens, NEW rest \in Seq(Tokens)
    PROVE  LET text == <<tag>> \o rest IN
           /\ text \in Seq(Tokens) /\ Len(text) = Len(rest) + 1 /\ text[1] = tag
           /\ \A k \in 1..Len(rest) : text[k + 1] = rest[k]
           /\ Has(tag, text) /\ Before(tag, text) = <<>> /\ After(tag, text) = rest
           /\ \A other : Has(other, rest) => Has(other, text)
           /\ \A other : other # tag /\ ~Has(other, rest) => ~Has(other, text)
<1> DEFINE text == <<tag>> \o rest
<1>1. text \in Seq(Tokens) /\ Len(text) = Len(rest) + 1 /\ text[1] = tag /\ DOMAIN text = 1..Len(text)
      /\ Len(rest) \in Nat /\ DOMAIN rest = 1..Len(rest)
  OBVIOUS
<1>2. \A k \in 1..Len(rest) : text[k + 1] = rest[k]
  OBVIOUS
<1>3. SubSeq(text, 2, Len(text)) = rest
  OBVIOUS
<1> HIDE DEF text
<1>4. Has(tag, text)
  BY <1>1 DEF Has
<1> DEFINE First(k) == text[k] = tag /\ \A j \in 1..(k - 1) : text[j] # tag
           f == CHOOSE k \in DOMAIN text : First(k)
<1>5. 1 \in DOMAIN text /\ First(1)
  BY <1>1
<1>6. f \in DOMAIN text /\ First(f)
  BY <1>5
<1>7. f = 1
  <2>1. f \in Nat /\ f >= 1 /\ (f # 1 => 1 \in 1..(f - 1))
    BY <1>1, <1>6
  <2> QED BY <1>1, <1>6, <2>1
<1>8. Before(tag, text) = SubSeq(text, 1, f - 1)
  BY DEF Before
<1> HIDE DEF f, First
<1>9. Before(tag, text) = <<>>
  BY <1>1, <1>7, <1>8
<1>10. After(tag, text) = rest
  BY <1>3, <1>9 DEF After
<1>11. ASSUME NEW other, Has(other, rest) PROVE Has(other, text)
  <2>1. PICK k \in 1..Len(rest) : rest[k] = other
    BY <1>1, <1>11 DEF Has
  <2>2. k + 1 \in DOMAIN text /\ text[k + 1] = other
    BY <1>1, <1>2, <2>1
  <2> QED BY <2>2 DEF Has
<1>12. ASSUME NEW other, other # tag, Has(other, text) PROVE Has(other, rest)
  <2>1. PICK k \in 1..Len(text) : text[k] = other
    BY <1>1, <1>12 DEF Has
  <2>2. k # 1
    BY <1>1, <1>12, <2>1
  <2>3. k - 1 \in 1..Len(rest) /\ (k - 1) + 1 = k
    BY <1>1, <2>2
  <2>4. rest[k - 1] = other
    BY <1>2, <2>1, <2>3
  <2> QED BY <1>1, <2>3, <2>4 DEF Has
<1> QED BY <1>1, <1>2, <1>4, <1>9, <1>10, <1>11, <1>12 DEF text

\* A closing tag after the words.
LEMMA TagLast ==
    ASSUME NEW words \in Seq(Spelt)
    PROVE  LET text == words \o <<Shut>>
               n == Len(words)
           IN
           /\ text \in Seq(Tokens) /\ Len(text) = n + 1 /\ text[n + 1] = Shut
           /\ \A k \in 1..n : text[k] = words[k]
           /\ SubSeq(text, 1, n) = words
           /\ Has(Shut, text) /\ Before(Shut, text) = words /\ After(Shut, text) = <<>>
           /\ ~Has(Open, text)
<1> DEFINE text == words \o <<Shut>>
           n == Len(words)
<1>0. /\ words \in Seq(Tokens) /\ n \in Nat /\ Shut \in Tokens
      /\ \A k \in 1..n : words[k] # Open /\ words[k] # Shut
  BY SpeltWords DEF Tokens
<1>1. text \in Seq(Tokens) /\ Len(text) = n + 1 /\ text[n + 1] = Shut /\ DOMAIN text = 1..(n + 1)
  BY <1>0
<1>2. \A k \in 1..n : text[k] = words[k]
  BY <1>0
<1>3. SubSeq(text, 1, n) = words
  BY <1>0
<1>4. \A k \in 1..n : text[k] # Open /\ text[k] # Shut
  BY <1>0, <1>2
<1> HIDE DEF text
<1>5. Has(Shut, text)
  BY <1>0, <1>1 DEF Has
<1>6. ~Has(Open, text)
  <2>1. \A k \in 1..(n + 1) : k \in 1..n \/ k = n + 1
    BY <1>0
  <2>2. Open # Shut
    BY DEF Open, Shut
  <2> QED BY <1>1, <1>4, <2>1, <2>2 DEF Has
<1> DEFINE First(k) == text[k] = Shut /\ \A j \in 1..(k - 1) : text[j] # Shut
           f == CHOOSE k \in DOMAIN text : First(k)
<1> HIDE DEF n
<1>7. n + 1 \in DOMAIN text /\ First(n + 1)
  BY <1>0, <1>1, <1>4
<1>8. f \in DOMAIN text /\ First(f)
  BY <1>7
<1>9. f = n + 1
  <2>1. f \in 1..(n + 1) /\ (f # n + 1 => f \in 1..n)
    BY <1>0, <1>1, <1>8
  <2> QED BY <1>4, <1>8, <2>1
<1>10. Before(Shut, text) = SubSeq(text, 1, f - 1)
  BY DEF Before
<1> HIDE DEF f, First
<1>11. Before(Shut, text) = words
  BY <1>0, <1>3, <1>9, <1>10
<1>12. After(Shut, text) = <<>>
  <2>1. After(Shut, text) = SubSeq(text, n + 2, n + 1)
    BY <1>0, <1>1, <1>11 DEF After, n
  <2> QED BY <1>0, <1>1, <2>1
<1> QED BY <1>1, <1>2, <1>3, <1>5, <1>6, <1>11, <1>12 DEF text, n

Meanings == [items : Heard, inside : BOOLEAN]

\* g is what the first tokens of a text mean, one more each time.
Means(g, text) ==
    /\ g[0] = [items |-> <<>>, inside |-> src.inside]
    /\ \A k \in 1..Len(text) : g[k] = Meaning(g[k - 1], text[k])

LEMMA MeaningTyped ==
    ASSUME NEW m \in Meanings, NEW token \in Tokens
    PROVE  Meaning(m, token) \in Meanings
<1>1. m.items \in Heard /\ m.inside \in BOOLEAN
  BY DEF Meanings
<1>2. Reasoning(<<token>>) \in Heard /\ Text(<<token>>) \in Heard
  <2>1. <<token>> \in Seq(Tokens)
    OBVIOUS
  <2> QED BY <2>1, TextPlain, PlainKinds
<1>3. (m.items \o IF m.inside THEN Reasoning(<<token>>) ELSE Text(<<token>>)) \in Heard
  BY <1>1, <1>2, Concatenated
<1>4. \A i \in Heard : [m EXCEPT !.items = i] \in Meanings
  BY DEF Meanings
<1>5. \A b \in BOOLEAN : [m EXCEPT !.inside = b] \in Meanings
  BY DEF Meanings
<1> QED BY <1>3, <1>4, <1>5 DEF Meaning

LEMMA MeantFold ==
    ASSUME NEW text \in Seq(Tokens), src.inside \in BOOLEAN
    PROVE  \E g : Means(g, text) /\ Meant(text) = g[Len(text)]
<1> DEFINE n == Len(text)
           base == [items |-> <<>>, inside |-> src.inside]
           step == [x \in (1..n) \X Meanings |-> Meaning(x[2], text[x[1]])]
           Fold(f) == f = [k \in 0..n |-> IF k = 0 THEN base ELSE Meaning(f[k - 1], text[k])]
           u == CHOOSE f : Fold(f)
<1>1. n \in Nat /\ \A k \in 1..n : text[k] \in Tokens
  OBVIOUS
<1>2. base \in Meanings
  BY NoneHeard DEF Meanings
<1>3. Meant(text) = u[n]
  BY Zenon DEF Meant
<1> HIDE DEF n, base
<1>4. \A k \in 1..n : \A m \in Meanings : Meaning(m, text[k]) \in Meanings
  BY <1>1, MeaningTyped
<1>5. step \in [(1..n) \X Meanings -> Meanings]
  <2>1. \A x \in (1..n) \X Meanings : Meaning(x[2], text[x[1]]) \in Meanings
    <3> TAKE x \in (1..n) \X Meanings
    <3>1. PICK k \in 1..n, m \in Meanings : x = <<k, m>>
      OBVIOUS
    <3>2. x[1] = k /\ x[2] = m
      BY <3>1
    <3> QED BY <1>4, <3>2, Zenon
  <2> QED BY <2>1
<1>6. \A k \in 1..n : \A m \in Meanings : step[<<k, m>>] = Meaning(m, text[k])
  OBVIOUS
<1> HIDE DEF step
<1>7. PICK g : Recurs(g, n, Meanings, base, step)
  BY <1>1, <1>2, <1>5, Recursion
<1>8. g \in [0..n -> Meanings] /\ g[0] = base /\ \A k \in 1..n : g[k] = step[<<k, g[k - 1]>>]
  BY <1>7 DEF Recurs
<1>9. \A k \in 0..n : g[k] = IF k = 0 THEN base ELSE Meaning(g[k - 1], text[k])
  <2> TAKE k \in 0..n
  <2>1. CASE k = 0
    BY <1>8, <2>1
  <2>2. CASE k # 0
    <3>1. k \in 1..n /\ k - 1 \in 0..n
      BY <1>1, <2>2
    <3>2. g[k - 1] \in Meanings
      BY <1>8, <3>1
    <3>3. g[k] = Meaning(g[k - 1], text[k])
      BY <1>6, <1>8, <3>1, <3>2
    <3> QED BY <2>2, <3>3
  <2> QED BY <2>1, <2>2
<1>10. Fold(g)
  <2>1. g = [k \in 0..n |-> g[k]]
    BY <1>8
  <2> QED BY <1>9, <2>1, Zenon
<1>11. Fold(u)
  BY <1>10
<1> HIDE DEF u
<1>12. u[0] = base
  BY <1>1, <1>11
<1>13. \A k \in 1..n : u[k] = Meaning(u[k - 1], text[k])
  <2> TAKE k \in 1..n
  <2>1. k \in 0..n /\ k # 0
    BY <1>1
  <2> QED BY <1>11, <2>1
<1> QED BY <1>3, <1>12, <1>13 DEF Means, base, n

WordsFrom(text, from, words) == \A k \in 1..Len(words) : text[from + k] = words[k]

\* After k tokens g has items, on one side of the tags.
Stands(g, k, items, inside) == g[k] = [items |-> items, inside |-> inside]

\* Words after each other say what they are words of.
LEMMA MeansWords ==
    ASSUME NEW words \in Seq(Spelt),
           NEW text, NEW g, Means(g, text), NEW from \in Nat, NEW inside \in BOOLEAN,
           Len(text) \in Nat, from + Len(words) <= Len(text), WordsFrom(text, from, words),
           Stands(g, from, <<>>, inside)
    PROVE  Stands(g, from + Len(words), Spoke(inside, words), inside)
<1> DEFINE n == Len(words)
           upto(k) == SubSeq(words, 1, k)
<1>0. /\ n \in Nat /\ words \in Seq(Tokens)
      /\ \A k \in 1..n : words[k] \in Tokens /\ words[k] \notin {Open, Shut}
  BY SpeltWords
<1>11. /\ upto(0) = <<>> /\ upto(n) = words
       /\ \A k \in 0..n : upto(k) \in Seq(Tokens)
       /\ \A k \in 0..(n - 1) : upto(k + 1) = Append(upto(k), words[k + 1])
  BY <1>0
<1>12. from + n <= Len(text) /\ \A k \in 1..n : text[from + k] = words[k]
  BY DEF WordsFrom
<1> HIDE DEF n, upto
<1> DEFINE T == {k \in Nat : k <= n => Stands(g, from + k, Spoke(inside, upto(k)), inside)}
<1>1. 0 \in T
  <2>1. from + 0 = from /\ Spoke(inside, upto(0)) = <<>>
    BY <1>11, NoneSpelt
  <2> QED BY <2>1
<1>2. ASSUME NEW k \in T PROVE k + 1 \in T
  <2> SUFFICES ASSUME k + 1 <= n
               PROVE  Stands(g, from + (k + 1), Spoke(inside, upto(k + 1)), inside)
    OBVIOUS
  <2>1. /\ k \in Nat /\ k <= n /\ k + 1 \in 1..n /\ from + (k + 1) \in 1..Len(text)
        /\ (from + (k + 1)) - 1 = from + k /\ k \in 0..(n - 1) /\ k \in 0..n
    BY <1>0, <1>12
  <2> DEFINE word == words[k + 1]
             s == Spoke(inside, upto(k))
  <2>2. g[from + k] = [items |-> s, inside |-> inside]
    BY <2>1 DEF Stands
  <2>3. g[from + (k + 1)] = Meaning(g[from + k], word)
    <3>1. g[from + (k + 1)] = Meaning(g[(from + (k + 1)) - 1], text[from + (k + 1)])
      BY <2>1, Zenon DEF Means
    <3>2. text[from + (k + 1)] = word
      BY <1>12, <2>1
    <3> QED BY <2>1, <3>1, <3>2, Zenon
  <2>4. word \in Tokens /\ word \notin {Open, Shut}
    BY <1>0, <2>1
  <2>7. Spoke(inside, upto(k + 1)) = s \o IF inside THEN Reasoning(<<word>>) ELSE Text(<<word>>)
    <3>1. upto(k) \in Seq(Tokens) /\ upto(k + 1) = Append(upto(k), word)
      BY <1>11, <2>1
    <3> HIDE DEF word
    <3> QED BY <2>4, <3>1, SpokeMore
  <2> DEFINE m == [items |-> s, inside |-> inside]
  <2>5. /\ m.items = s /\ m.inside = inside
        /\ \A i : [m EXCEPT !.items = i] = [items |-> i, inside |-> inside]
    OBVIOUS
  <2> HIDE DEF m, s, word
  <2>6. Meaning(m, word) =
          [items |-> s \o (IF inside THEN Reasoning(<<word>>) ELSE Text(<<word>>)),
           inside |-> inside]
    BY <2>4, <2>5 DEF Meaning
  <2> QED BY <2>2, <2>3, <2>6, <2>7, Zenon DEF m, Stands
<1> HIDE DEF T
<1>3. n \in T
  BY <1>0, <1>1, <1>2, Everywhere
<1>4. Stands(g, from + n, Spoke(inside, upto(n)), inside)
  BY <1>0, <1>3 DEF T
<1> QED BY <1>11, <1>4 DEF n

\* A tag says nothing, and changes which side the words are on.
LEMMA TagMeans ==
    ASSUME NEW text, NEW g, Means(g, text), NEW k \in Nat, Len(text) \in Nat, k < Len(text),
           NEW items, NEW inside \in BOOLEAN, Stands(g, k, items, inside),
           NEW opens \in BOOLEAN, text[k + 1] = IF opens THEN Open ELSE Shut
    PROVE  Stands(g, k + 1, items, opens)
<1> DEFINE m == [items |-> items, inside |-> inside]
<1>1. k + 1 \in 1..Len(text) /\ (k + 1) - 1 = k
  OBVIOUS
<1>2. g[k + 1] = Meaning(g[(k + 1) - 1], text[k + 1])
  BY <1>1, Zenon DEF Means
<1>3. g[k + 1] = Meaning(m, text[k + 1])
  BY <1>1, <1>2, Zenon DEF Stands
<1>4. \A b : [m EXCEPT !.inside = b] = [items |-> items, inside |-> b]
  OBVIOUS
<1> HIDE DEF m
<1>5. text[k + 1] \in {Open, Shut} /\ (text[k + 1] = Open) = opens
  BY DEF Open, Shut
<1>6. Meaning(m, text[k + 1]) = [items |-> items, inside |-> opens]
  BY <1>4, <1>5 DEF Meaning
<1> QED BY <1>3, <1>6 DEF Stands

\* Where a text begins, and where it ends.
LEMMA MeantEnds ==
    ASSUME NEW text \in Seq(Tokens), src.inside \in BOOLEAN
    PROVE  \E g : /\ Means(g, text) /\ Stands(g, 0, <<>>, src.inside)
                  /\ \A items, inside : Stands(g, Len(text), items, inside)
                                           => Meant(text) = [items |-> items, inside |-> inside]
<1>1. PICK g : Means(g, text) /\ Meant(text) = g[Len(text)]
  BY MeantFold
<1>2. Stands(g, 0, <<>>, src.inside)
  BY <1>1 DEF Means, Stands
<1>3. \A items, inside : Stands(g, Len(text), items, inside)
                            => Meant(text) = [items |-> items, inside |-> inside]
  BY <1>1, Zenon DEF Stands
<1> QED BY <1>1, <1>2, <1>3

-----------------------------------------------------------------------------
(* How what was said looks to a client of formats that escape twice.       *)

Look(x) == IF x.as \in {"text", "reasoning"} /\ x.what = Break THEN Item(x.as, Literal) ELSE x

Looks(items) == [k \in DOMAIN items |-> Look(items[k])]

ShownBy(p, items) == IF p \in {"ollama", "1minai"} THEN items ELSE Looks(items)

LEMMA LooksPlain ==
    ASSUME NEW items \in Heard
    PROVE  /\ Looks(items) \in Heard /\ Len(Looks(items)) = Len(items)
           /\ DOMAIN Looks(items) = DOMAIN items
           /\ \A k \in DOMAIN items : Looks(items)[k] = Look(items[k])
<1> DEFINE P == [as : Spoken \cup {"done"}, what : Whats]
           n == Len(items)
<1>1. n \in Nat /\ DOMAIN items = 1..n /\ \A k \in 1..n : items[k] \in P
  BY EachHeard
<1>2. \A x \in P : Look(x) \in P
  BY DEF Look, Item, Whats, Tokens
<1> HIDE DEF P, n
<1>3. Looks(items) \in [1..n -> P]
  BY <1>1, <1>2 DEF Looks
<1>4. Looks(items) \in Seq(P) /\ Len(Looks(items)) = n
  BY <1>1, <1>3
<1> QED BY <1>4 DEF Looks, Heard, Items, P, n

LEMMA LooksJoin ==
    ASSUME NEW h \in Heard, NEW i \in Heard
    PROVE  Looks(h \o i) = Looks(h) \o Looks(i)
<1> DEFINE m == Len(h)
           n == Len(i)
           a == Looks(h \o i)
           lh == Looks(h)
           li == Looks(i)
           b == lh \o li
<1>1. /\ h \o i \in Heard /\ m \in Nat /\ n \in Nat /\ DOMAIN h = 1..m /\ DOMAIN i = 1..n
      /\ DOMAIN (h \o i) = 1..(m + n)
      /\ \A k \in 1..m : (h \o i)[k] = h[k]
      /\ \A k \in 1..n : (h \o i)[m + k] = i[k]
  BY Concatenated
<1>2. /\ lh \in Heard /\ li \in Heard /\ Len(lh) = m /\ Len(li) = n
      /\ \A k \in 1..m : lh[k] = Look(h[k])
      /\ \A k \in 1..n : li[k] = Look(i[k])
  BY <1>1, LooksPlain
<1>3. DOMAIN a = 1..(m + n) /\ \A k \in 1..(m + n) : a[k] = Look((h \o i)[k])
  BY <1>1, LooksPlain
<1>4. /\ b \in Heard /\ DOMAIN b = 1..(m + n)
      /\ \A k \in 1..m : b[k] = lh[k]
      /\ \A k \in 1..n : b[m + k] = li[k]
  <2> HIDE DEF lh, li, m, n
  <2> QED BY <1>2, Concatenated
<1>5. a \in Heard
  BY <1>1, LooksPlain
<1> DEFINE P == [as : Spoken \cup {"done"}, what : Whats]
<1> HIDE DEF a, b, lh, li, m, n, P
<1>6. a \in Seq(P) /\ b \in Seq(P)
  BY <1>4, <1>5 DEF Heard, Items, P
<1>7. ASSUME NEW k \in 1..(m + n) PROVE a[k] = b[k]
  <2>1. CASE k \in 1..m
    <3>1. a[k] = Look(h[k]) /\ b[k] = Look(h[k])
      BY <1>1, <1>2, <1>3, <1>4, <2>1
    <3> QED BY <3>1
  <2>2. CASE k \notin 1..m
    <3>1. PICK j \in 1..n : k = m + j
      <4>1. k - m \in 1..n /\ k = m + (k - m)
        BY <1>1, <2>2
      <4> QED BY <4>1
    <3>2. a[k] = Look((h \o i)[m + j]) /\ b[k] = li[j]
      BY <1>3, <1>4, <3>1
    <3> QED BY <1>1, <1>2, <3>2
  <2> QED BY <2>1, <2>2
<1>8. a = b
  BY <1>1, <1>3, <1>4, <1>6, <1>7
<1> QED BY <1>8 DEF a, b, lh, li

LEMMA ShownJoin ==
    ASSUME NEW h \in Heard, NEW i \in Heard, NEW p
    PROVE  ShownBy(p, h \o i) = ShownBy(p, h) \o ShownBy(p, i)
BY LooksJoin DEF ShownBy

LEMMA ShownNone == \A p : ShownBy(p, <<>>) = <<>>
BY DEF ShownBy, Looks

\* A word looks the same escaped or not.
LEMMA LooksRaw ==
    ASSUME NEW words \in Seq(Tokens), NEW thought \in BOOLEAN
    PROVE  Looks(Spoke(thought, Raw(words))) = Looks(Spoke(thought, words))
<1> DEFINE as == IF thought THEN "reasoning" ELSE "text"
           raw == Raw(words)
<1>1. DOMAIN raw = DOMAIN words
      /\ \A k \in DOMAIN words : raw[k] = IF words[k] = Break THEN Literal ELSE words[k]
  BY DEF Raw
<1> HIDE DEF raw
<1>2. \A w : Looks(Spoke(thought, w)) = [k \in DOMAIN w |-> Look(Item(as, w[k]))]
  BY DEF Spoke, Looks, Text, Reasoning
<1>3. \A x : Look(Item(as, IF x = Break THEN Literal ELSE x)) = Look(Item(as, x))
  <2>1. as \in {"text", "reasoning"}
    OBVIOUS
  <2>2. Literal # Break
    BY DEF Literal, Break
  <2>3. \A y : Item(as, y).as = as /\ Item(as, y).what = y
    BY DEF Item
  <2> HIDE DEF as
  <2> QED BY <2>1, <2>2, <2>3 DEF Look
<1> HIDE DEF as
<1>4. \A k \in DOMAIN words : Look(Item(as, raw[k])) = Look(Item(as, words[k]))
  BY <1>1, <1>3
<1>5. Looks(Spoke(thought, raw)) = [k \in DOMAIN words |-> Look(Item(as, raw[k]))]
  BY <1>1, <1>2
<1>6. Looks(Spoke(thought, words)) = [k \in DOMAIN words |-> Look(Item(as, words[k]))]
  BY <1>2
<1> QED BY <1>4, <1>5, <1>6 DEF raw

-----------------------------------------------------------------------------
(* The chunks a transmuxer can follow.                                     *)

\* What they become looks like what they mean.
Follows(p, text) ==
    LET r == Translated(p, text, tmx)
        m == Meant(text)
    IN  /\ Looks(r.items) = Looks(m.items) /\ r.tmx.inside = m.inside
        /\ m.items \in Items(Plain) /\ r.items \in Items(Plain)

LEMMA Together ==
    ASSUME NEW words \in Seq(Spelt),
           NEW p, NEW text, NEW thought \in BOOLEAN, NEW t, NEW inside \in BOOLEAN,
           t.inside = inside,
           Meant(text) = [items |-> Spoke(thought, words), inside |-> inside],
           \/ Translated(p, text, tmx) = Result(Spoke(thought, words), t)
           \/ Translated(p, text, tmx) = Result(Spoke(thought, Raw(words)), t)
    PROVE  Follows(p, text)
<1>0. words \in Seq(Tokens) /\ Raw(words) \in Seq(Tokens)
  BY SpeltWords
<1>1. Meant(text).items = Spoke(thought, words) /\ Meant(text).inside = inside
  OBVIOUS
<1>2. /\ \/ Translated(p, text, tmx).items = Spoke(thought, words)
         \/ Translated(p, text, tmx).items = Spoke(thought, Raw(words))
      /\ Translated(p, text, tmx).tmx = t
  BY DEF Result
<1>3. Spoke(thought, words) \in Items(Plain) /\ Spoke(thought, Raw(words)) \in Items(Plain)
  BY <1>0, SpokePlain
<1>4. Looks(Spoke(thought, Raw(words))) = Looks(Spoke(thought, words))
  BY <1>0, LooksRaw
<1> QED BY <1>1, <1>2, <1>3, <1>4 DEF Follows

LEMMA WordsMeant ==
    ASSUME src.inside \in BOOLEAN, NEW words \in Seq(Spelt)
    PROVE  Meant(words) = [items |-> Spoke(src.inside, words), inside |-> src.inside]
<1>1. words \in Seq(Tokens) /\ Len(words) \in Nat /\ 0 + Len(words) = Len(words)
  BY SpeltWords
<1>2. WordsFrom(words, 0, words)
  BY <1>1 DEF WordsFrom
<1>3. PICK g : /\ Means(g, words) /\ Stands(g, 0, <<>>, src.inside)
               /\ \A items, inside : Stands(g, Len(words), items, inside)
                                        => Meant(words) = [items |-> items, inside |-> inside]
  BY <1>1, MeantEnds
<1>4. Stands(g, 0 + Len(words), Spoke(src.inside, words), src.inside)
  BY <1>1, <1>2, <1>3, MeansWords
<1> QED BY <1>1, <1>3, <1>4

\* A tag and then words.
LEMMA FirstMeant ==
    ASSUME src.inside \in BOOLEAN, NEW opens \in BOOLEAN, NEW words \in Seq(Spelt)
    PROVE  Meant(<<IF opens THEN Open ELSE Shut>> \o words) =
             [items |-> Spoke(opens, words), inside |-> opens]
<1> DEFINE tag == IF opens THEN Open ELSE Shut
           text == <<tag>> \o words
           n == Len(words)
<1>1. tag \in Tokens /\ words \in Seq(Tokens) /\ n \in Nat
  BY SpeltWords DEF Tokens
<1> HIDE DEF tag
<1>2. /\ text \in Seq(Tokens) /\ Len(text) = n + 1 /\ text[1] = tag
      /\ \A k \in 1..n : text[k + 1] = words[k]
  BY <1>1, TagFirst
<1> HIDE DEF text
<1>3. WordsFrom(text, 1, words)
  <2>1. \A k \in 1..n : 1 + k = k + 1
    BY <1>1
  <2> QED BY <1>1, <1>2, <2>1, Zenon DEF WordsFrom
<1>4. PICK g : /\ Means(g, text) /\ Stands(g, 0, <<>>, src.inside)
               /\ \A items, inside : Stands(g, Len(text), items, inside)
                                        => Meant(text) = [items |-> items, inside |-> inside]
  BY <1>2, MeantEnds
<1>5. Stands(g, 1, <<>>, opens)
  <2>1. 0 \in Nat /\ Len(text) \in Nat /\ 0 < Len(text) /\ 0 + 1 = 1
    BY <1>1, <1>2
  <2>2. text[0 + 1] = IF opens THEN Open ELSE Shut
    BY <1>2 DEF tag
  <2>3. Stands(g, 0 + 1, <<>>, opens)
    BY <1>4, <2>1, <2>2, TagMeans
  <2> QED BY <2>1, <2>3
<1>6. Stands(g, 1 + n, Spoke(opens, words), opens)
  <2>1. 1 + n <= Len(text) /\ Len(text) \in Nat
    BY <1>1, <1>2
  <2> QED BY <1>3, <1>4, <1>5, <2>1, MeansWords
<1>7. 1 + n = Len(text)
  BY <1>1, <1>2
<1> QED BY <1>4, <1>6, <1>7, Zenon DEF text, tag

\* Words and then a closing tag.
LEMMA LastMeant ==
    ASSUME src.inside \in BOOLEAN, NEW words \in Seq(Spelt)
    PROVE  Meant(words \o <<Shut>>) = [items |-> Spoke(src.inside, words), inside |-> FALSE]
<1> DEFINE text == words \o <<Shut>>
           n == Len(words)
<1>1. /\ text \in Seq(Tokens) /\ Len(text) = n + 1 /\ text[n + 1] = Shut /\ n \in Nat
      /\ \A k \in 1..n : text[k] = words[k]
  BY TagLast, SpeltWords
<1> HIDE DEF text
<1>2. WordsFrom(text, 0, words)
  BY <1>1 DEF WordsFrom
<1>3. PICK g : /\ Means(g, text) /\ Stands(g, 0, <<>>, src.inside)
               /\ \A items, inside : Stands(g, Len(text), items, inside)
                                        => Meant(text) = [items |-> items, inside |-> inside]
  BY <1>1, MeantEnds
<1>4. Stands(g, n, Spoke(src.inside, words), src.inside)
  <2>1. 0 + n <= Len(text) /\ Len(text) \in Nat /\ 0 + n = n
    BY <1>1
  <2>2. Stands(g, 0 + n, Spoke(src.inside, words), src.inside)
    BY <1>2, <1>3, <2>1, MeansWords
  <2> QED BY <2>1, <2>2
<1>5. Stands(g, n + 1, Spoke(src.inside, words), FALSE)
  <2>1. Len(text) \in Nat /\ n < Len(text) /\ text[n + 1] = IF FALSE THEN Open ELSE Shut
    BY <1>1
  <2> QED BY <1>1, <1>3, <1>4, <2>1, TagMeans
<1> QED BY <1>1, <1>3, <1>5, Zenon DEF text

\* NVIDIA: an opening tag, words, and the tag that closes.
LEMMA WholeMeant ==
    ASSUME src.inside \in BOOLEAN, NEW words \in Seq(Spelt)
    PROVE  Meant(<<Open>> \o (words \o <<Shut>>)) = [items |-> Spoke(TRUE, words), inside |-> FALSE]
<1> DEFINE rest == words \o <<Shut>>
           text == <<Open>> \o rest
           n == Len(words)
<1>1. /\ rest \in Seq(Tokens) /\ Len(rest) = n + 1 /\ rest[n + 1] = Shut /\ n \in Nat
      /\ \A k \in 1..n : rest[k] = words[k]
  BY TagLast, SpeltWords
<1> HIDE DEF rest
<1>2. /\ text \in Seq(Tokens) /\ Len(text) = n + 2 /\ text[1] = Open
      /\ \A k \in 1..(n + 1) : text[k + 1] = rest[k]
  BY <1>1, TagFirst DEF Tokens
<1> HIDE DEF text, n
<1>3. WordsFrom(text, 1, words)
  <2> SUFFICES ASSUME NEW k \in 1..n PROVE text[1 + k] = words[k]
    BY DEF WordsFrom, n
  <2>1. k \in 1..(n + 1) /\ 1 + k = k + 1
    BY <1>1
  <2> QED BY <1>1, <1>2, <2>1, Zenon
<1>4. text[(n + 1) + 1] = Shut
  <2>1. n + 1 \in 1..(n + 1)
    BY <1>1
  <2> QED BY <1>1, <1>2, <2>1, Zenon
<1>5. PICK g : /\ Means(g, text) /\ Stands(g, 0, <<>>, src.inside)
               /\ \A items, inside : Stands(g, Len(text), items, inside)
                                        => Meant(text) = [items |-> items, inside |-> inside]
  BY <1>2, MeantEnds
<1>6. Len(text) \in Nat /\ 0 < Len(text) /\ n + 1 < Len(text) /\ 1 + n <= Len(text)
  BY <1>1, <1>2
<1>7. Stands(g, 1, <<>>, TRUE)
  <2>1. text[0 + 1] = (IF TRUE THEN Open ELSE Shut) /\ 0 + 1 = 1
    BY <1>2
  <2>2. Stands(g, 0 + 1, <<>>, TRUE)
    BY <1>5, <1>6, <2>1, TagMeans
  <2> QED BY <2>1, <2>2
<1>8. Stands(g, n + 1, Spoke(TRUE, words), TRUE)
  <2>1. Stands(g, 1 + n, Spoke(TRUE, words), TRUE)
    BY <1>3, <1>5, <1>6, <1>7, MeansWords DEF n
  <2>2. 1 + n = n + 1
    BY <1>1
  <2> QED BY <2>1, <2>2, Zenon
<1>9. Stands(g, (n + 1) + 1, Spoke(TRUE, words), FALSE)
  <2>1. text[(n + 1) + 1] = (IF FALSE THEN Open ELSE Shut) /\ n + 1 \in Nat
    BY <1>1, <1>4
  <2> QED BY <1>5, <1>6, <1>8, <2>1, TagMeans
<1>10. (n + 1) + 1 = Len(text)
  BY <1>1, <1>2
<1> QED BY <1>5, <1>9, <1>10, Zenon DEF text, rest

\* NVIDIA: a thought of nothing, and then words.
LEMMA EmptyMeant ==
    ASSUME src.inside \in BOOLEAN, NEW words \in Seq(Spelt)
    PROVE  Meant(<<Open>> \o (<<Shut>> \o words)) = [items |-> Spoke(FALSE, words), inside |-> FALSE]
<1> DEFINE rest == <<Shut>> \o words
           text == <<Open>> \o rest
           n == Len(words)
<1>1. /\ rest \in Seq(Tokens) /\ Len(rest) = n + 1 /\ rest[1] = Shut /\ n \in Nat
      /\ \A k \in 1..n : rest[k + 1] = words[k]
  <2>1. words \in Seq(Tokens) /\ n \in Nat
    BY SpeltWords
  <2> QED BY <2>1, TagFirst DEF Tokens
<1> HIDE DEF rest
<1>2. /\ text \in Seq(Tokens) /\ Len(text) = n + 2 /\ text[1] = Open
      /\ \A k \in 1..(n + 1) : text[k + 1] = rest[k]
  BY <1>1, TagFirst DEF Tokens
<1> HIDE DEF text, n
<1>3. text[1 + 1] = Shut
  <2>1. 1 \in 1..(n + 1)
    BY <1>1
  <2> QED BY <1>1, <1>2, <2>1, Zenon
<1>4. WordsFrom(text, 2, words)
  <2> SUFFICES ASSUME NEW k \in 1..n PROVE text[2 + k] = words[k]
    BY DEF WordsFrom, n
  <2>1. k + 1 \in 1..(n + 1) /\ (k + 1) + 1 = 2 + k
    BY <1>1
  <2> QED BY <1>1, <1>2, <2>1
<1>5. PICK g : /\ Means(g, text) /\ Stands(g, 0, <<>>, src.inside)
               /\ \A items, inside : Stands(g, Len(text), items, inside)
                                        => Meant(text) = [items |-> items, inside |-> inside]
  BY <1>2, MeantEnds
<1>6. Len(text) \in Nat /\ 0 < Len(text) /\ 1 < Len(text) /\ 2 + n <= Len(text)
  BY <1>1, <1>2
<1>7. Stands(g, 1, <<>>, TRUE)
  <2>1. text[0 + 1] = (IF TRUE THEN Open ELSE Shut) /\ 0 + 1 = 1
    BY <1>2
  <2>2. Stands(g, 0 + 1, <<>>, TRUE)
    BY <1>5, <1>6, <2>1, TagMeans
  <2> QED BY <2>1, <2>2
<1>8. Stands(g, 2, <<>>, FALSE)
  <2>1. text[1 + 1] = (IF FALSE THEN Open ELSE Shut) /\ 1 + 1 = 2
    BY <1>3
  <2>2. Stands(g, 1 + 1, <<>>, FALSE)
    BY <1>5, <1>6, <1>7, <2>1, TagMeans
  <2> QED BY <2>1, <2>2
<1>9. Stands(g, 2 + n, Spoke(FALSE, words), FALSE)
  BY <1>4, <1>5, <1>6, <1>8, MeansWords DEF n
<1>10. 2 + n = Len(text)
  BY <1>1, <1>2
<1> QED BY <1>5, <1>9, <1>10, Zenon DEF text, rest

LEMMA SidesOf ==
    ASSUME NEW t \in Modes
    PROVE  /\ Within(t).inside = TRUE /\ Without(t).inside = FALSE
           /\ t.inside \in BOOLEAN
BY DEF Modes, Within, Without

\* One of the two is empty, so that nothing is lost.
LEMMA OneOfWords ==
    ASSUME NEW words \in Seq(Spelt)
    PROVE  /\ OneOf(<<>>, words) = Spoke(FALSE, Raw(words))
           /\ OneOf(words, <<>>) = Spoke(TRUE, Raw(words))
<1>1. OneOf(<<>>, words) = Spoke(FALSE, Raw(words))
  BY DEF OneOf, Spoke
<1>2. CASE words # <<>>
  BY <1>1, <1>2 DEF OneOf, Spoke
<1>3. CASE words = <<>>
  <2>1. Raw(<<>>) = <<>> /\ Text(<<>>) = <<>> /\ Reasoning(<<>>) = <<>>
    BY DEF Raw, Text, Reasoning
  <2>2. OneOf(words, <<>>) = <<>>
    BY <1>3, <2>1 DEF OneOf
  <2> QED BY <1>1, <1>3, <2>1, <2>2 DEF Spoke
<1> QED BY <1>2, <1>3, <1>1

\* A first tag opens what is not open, and closes what is.
LEMMA FirstBalanced ==
    ASSUME src.inside \in BOOLEAN, NEW opens \in BOOLEAN, NEW rest \in Seq(Tokens),
           Balanced(<<IF opens THEN Open ELSE Shut>> \o rest)
    PROVE  src.inside = ~opens
<1> DEFINE tag == IF opens THEN Open ELSE Shut
           text == <<tag>> \o rest
<1>1. tag \in Tokens /\ tag \in {Open, Shut} /\ (tag = Shut) = ~opens
  BY DEF Tokens, Open, Shut
<1>2. text \in Seq(Tokens) /\ Len(text) = Len(rest) + 1 /\ text[1] = tag /\ 1 \in DOMAIN text
  <2> HIDE DEF tag
  <2> QED BY <1>1, TagFirst
<1>3. Balanced(text)
  OBVIOUS
<1> HIDE DEF text, tag
<1>4. (tag = Shut) = Meant(SubSeq(text, 1, 1 - 1)).inside
  BY <1>1, <1>2, <1>3 DEF Balanced
<1>5. SubSeq(text, 1, 1 - 1) = <<>>
  BY <1>2
<1>6. Meant(<<>>).inside = src.inside
  <2>1. <<>> \in Seq(Spelt)
    BY NoneSpelt
  <2>2. Meant(<<>>) = [items |-> Spoke(src.inside, <<>>), inside |-> src.inside]
    BY <2>1, WordsMeant
  <2> QED BY <2>2
<1> QED BY <1>1, <1>4, <1>5, <1>6

LEMMA LastBalanced ==
    ASSUME src.inside \in BOOLEAN, NEW words \in Seq(Spelt), Balanced(words \o <<Shut>>)
    PROVE  src.inside = TRUE
<1> DEFINE text == words \o <<Shut>>
           n == Len(words)
<1>1. /\ text \in Seq(Tokens) /\ Len(text) = n + 1 /\ text[n + 1] = Shut /\ n \in Nat
      /\ SubSeq(text, 1, n) = words
  BY TagLast, SpeltWords
<1>2. Balanced(text)
  OBVIOUS
<1> HIDE DEF text, n
<1>3. n + 1 \in DOMAIN text /\ (n + 1) - 1 = n
  BY <1>1
<1>4. (text[n + 1] = Shut) = Meant(SubSeq(text, 1, (n + 1) - 1)).inside
  BY <1>1, <1>2, <1>3 DEF Balanced
<1>5. Meant(words).inside = src.inside
  BY WordsMeant
<1> QED BY <1>1, <1>3, <1>4, <1>5

LEMMA TextFollowed ==
    ASSUME tmx \in Modes, tmx.inside = src.inside,
           NEW p, NEW words \in Seq(Spelt), NEW text \in Follow(p, words), Balanced(text)
    PROVE  Follows(p, text)
<1>1. src.inside \in BOOLEAN
  BY SidesOf
<1>2. /\ Within(tmx).inside = TRUE /\ Without(tmx).inside = FALSE
      /\ DOMAIN tmx = {"inside", "block", "tool"}
  BY SidesOf DEF Modes
<1>3. words \in Seq(Tokens) /\ Open \in Tokens /\ Shut \in Tokens
      /\ ~Has(Open, words) /\ ~Has(Shut, words)
  BY SpeltWords DEF Tokens
<1>4. Open # Shut
  BY DEF Open, Shut
<1>5. CASE text = words
  <2>1. CASE src.inside
    <3>1. Translated(p, text, tmx) = Result(Spoke(TRUE, Raw(words)), tmx)
      BY <1>3, <1>5, <2>1 DEF Translated, Spoke
    <3> QED BY <1>1, <1>5, <2>1, <3>1, WordsMeant, Together
  <2>2. CASE ~src.inside
    <3>1. Translated(p, text, tmx) = Result(Spoke(FALSE, words), tmx) /\ src.inside = FALSE
      BY <1>1, <1>3, <1>5, <2>2 DEF Translated, Spoke
    <3> QED BY <1>1, <1>5, <3>1, WordsMeant, Together
  <2> QED BY <2>1, <2>2
<1>6. CASE text = <<Open>> \o words
  <2>1. src.inside = FALSE /\ Meant(text) = [items |-> Spoke(TRUE, words), inside |-> TRUE]
    <3>1. text = <<IF TRUE THEN Open ELSE Shut>> \o words
      BY <1>6
    <3> QED BY <1>1, <1>3, <3>1, FirstBalanced, FirstMeant
  <2>2. Has(Open, text) /\ After(Open, text) = words
    BY <1>3, <1>6, TagFirst
  <2>3. Translated(p, text, tmx) = Result(Spoke(TRUE, Raw(words)), Within(tmx))
    BY <1>3, <2>1, <2>2 DEF Translated, Opened, Spoke
  <2> QED BY <1>2, <2>1, <2>3, Together
<1>7. CASE text = <<Shut>> \o words
  <2>1. src.inside = TRUE /\ Meant(text) = [items |-> Spoke(FALSE, words), inside |-> FALSE]
    <3>1. text = <<IF FALSE THEN Open ELSE Shut>> \o words
      BY <1>7
    <3> QED BY <1>1, <1>3, <3>1, FirstBalanced, FirstMeant
  <2>2. Has(Shut, text) /\ Before(Shut, text) = <<>> /\ After(Shut, text) = words
    BY <1>3, <1>7, TagFirst
  <2>3. Translated(p, text, tmx) = Result(Spoke(FALSE, Raw(words)), Without(tmx))
    BY <2>1, <2>2, OneOfWords DEF Translated
  <2> QED BY <1>2, <2>1, <2>3, Together
<1>8. CASE text = words \o <<Shut>>
  <2>1. src.inside = TRUE /\ Meant(text) = [items |-> Spoke(TRUE, words), inside |-> FALSE]
    BY <1>1, <1>8, LastBalanced, LastMeant
  <2>2. Has(Shut, text) /\ Before(Shut, text) = words /\ After(Shut, text) = <<>>
    BY <1>8, TagLast
  <2>3. Translated(p, text, tmx) = Result(Spoke(TRUE, Raw(words)), Without(tmx))
    BY <2>1, <2>2, OneOfWords DEF Translated
  <2> QED BY <1>2, <2>1, <2>3, Together
<1>9. CASE p = "nvidia" /\ text = <<Open>> \o (<<Shut>> \o words)
  <2> DEFINE rest == <<Shut>> \o words
  <2>1. /\ rest \in Seq(Tokens) /\ Has(Shut, rest)
        /\ Before(Shut, rest) = <<>> /\ After(Shut, rest) = words
    BY <1>3, TagFirst
  <2>2. Meant(text) = [items |-> Spoke(FALSE, words), inside |-> FALSE]
    BY <1>1, <1>9, EmptyMeant
  <2> HIDE DEF rest
  <2>3. src.inside = FALSE
    <3>1. text = <<IF TRUE THEN Open ELSE Shut>> \o rest
      BY <1>9 DEF rest
    <3> QED BY <1>1, <2>1, <3>1, FirstBalanced
  <2>4. Has(Open, text) /\ After(Open, text) = rest
    BY <1>3, <1>9, <2>1, TagFirst DEF rest
  <2>5. Translated(p, text, tmx) = Result(Spoke(FALSE, Raw(words)), Without(tmx))
    BY <1>9, <2>1, <2>3, <2>4, OneOfWords DEF Translated, Opened
  <2> QED BY <1>2, <2>2, <2>5, Together
<1>10. CASE p = "nvidia" /\ text = <<Open>> \o (words \o <<Shut>>)
  <2> DEFINE rest == words \o <<Shut>>
  <2>1. /\ rest \in Seq(Tokens) /\ Has(Shut, rest)
        /\ Before(Shut, rest) = words /\ After(Shut, rest) = <<>>
    BY TagLast
  <2>2. Meant(text) = [items |-> Spoke(TRUE, words), inside |-> FALSE]
    BY <1>1, <1>10, WholeMeant
  <2> HIDE DEF rest
  <2>3. src.inside = FALSE
    <3>1. text = <<IF TRUE THEN Open ELSE Shut>> \o rest
      BY <1>10 DEF rest
    <3> QED BY <1>1, <2>1, <3>1, FirstBalanced
  <2>4. Has(Open, text) /\ After(Open, text) = rest
    BY <1>3, <1>10, <2>1, TagFirst DEF rest
  <2>5. Translated(p, text, tmx) = Result(Spoke(TRUE, Raw(words)), Without(tmx))
    BY <1>10, <2>1, <2>3, <2>4, OneOfWords DEF Translated, Opened
  <2> QED BY <1>2, <2>2, <2>5, Together
<1> QED BY <1>5, <1>6, <1>7, <1>8, <1>9, <1>10 DEF Follow

\* A text that is followed has words that are.
LEMMA FollowedWords ==
    ASSUME NEW p, NEW text \in Seq({Word, Break, Open, Shut}), Followed(p, text)
    PROVE  \E words \in Seq(Spelt) : text \in Follow(p, words)
<1> DEFINE S == {Word, Break, Open, Shut}
<1>1. PICK from \in 1..3, to \in 0..Len(text) :
           /\ ~Has(Open, SubSeq(text, from, to)) /\ ~Has(Shut, SubSeq(text, from, to))
           /\ text \in Follow(p, SubSeq(text, from, to))
  BY Zenon DEF Followed
<1> DEFINE words == SubSeq(text, from, to)
<1>2. \A x \in S : x = Open \/ x = Shut \/ x \in Spelt
  BY DEF Spelt
<1> HIDE DEF S
<1>3. words \in Seq(S)
  BY DEF S
<1>4. ~Has(Open, words) /\ ~Has(Shut, words) /\ text \in Follow(p, words)
  BY <1>1
<1> HIDE DEF words
<1>5. \A k \in 1..Len(words) : words[k] \in S /\ words[k] # Open /\ words[k] # Shut
  BY <1>3, <1>4 DEF Has
<1>6. \A k \in 1..Len(words) : words[k] \in Spelt
  BY <1>2, <1>5
<1>7. words \in Seq(Spelt)
  BY <1>3, <1>6
<1> QED BY <1>4, <1>7

-----------------------------------------------------------------------------
(* The parts of a chunk of Vertex.                                         *)

PartMeanings == [items : Items(Plain), calls : Nat]

\* What is meant and what it became look alike, with calls counted alike.
Alike(m, r) == Looks(m.items) = Looks(r.items) /\ m.calls = r.tmx.tool

\* A word, said or thought, escaped or not.
LEMMA OneWord ==
    ASSUME NEW word \in Tokens, NEW thought \in BOOLEAN
    PROVE  /\ <<word>> \in Seq(Tokens)
           /\ Spoke(thought, <<word>>) \in Items(Plain)
           /\ Spoke(thought, Raw(<<word>>)) \in Items(Plain)
           /\ Looks(Spoke(thought, Raw(<<word>>))) = Looks(Spoke(thought, <<word>>))
<1>1. <<word>> \in Seq(Tokens)
  OBVIOUS
<1>2. Raw(<<word>>) \in Seq(Tokens)
  BY <1>1, TextPlain
<1> QED BY <1>1, <1>2, SpokePlain, LooksRaw

\* What one part adds: to what is meant, and to what it becomes.
Adds(part, word, m, t, said, got, n) ==
    /\ said \in Items(Plain) /\ got \in Items(Plain) /\ n \in Nat
    /\ Looks(got) = Looks(said)
    /\ MeantPart(m, part, word) = [items |-> m.items \o said, calls |-> n]
    /\ Part(part, word, t).items = got
    /\ Part(part, word, t).tmx \in Modes /\ Part(part, word, t).tmx.tool = n

LEMMA PartAdds ==
    ASSUME NEW part \in {"thought", "text", "call"}, NEW word \in Tokens,
           NEW m \in PartMeanings, NEW t \in Modes, m.calls = t.tool
    PROVE  \E said, got, n : Adds(part, word, m, t, said, got, n)
<1>1. /\ DOMAIN m = {"items", "calls"} /\ m.calls \in Nat /\ t.tool \in Nat
      /\ \A i : [m EXCEPT !.items = i] = [items |-> i, calls |-> m.calls]
  <2> DEFINE S == Items(Plain)
  <2>1. m \in [items : S, calls : Nat] /\ t.tool \in Nat
    BY DEF PartMeanings, Modes
  <2> HIDE DEF S
  <2> QED BY <2>1
<1>2. Part(part, word, t).tmx \in Modes
  BY PartFine DEF Fine
<1>3. ASSUME NEW thought \in BOOLEAN, part = IF thought THEN "thought" ELSE "text"
      PROVE  /\ MeantPart(m, part, word) = [items |-> m.items \o Spoke(thought, <<word>>), calls |-> m.calls]
             /\ Part(part, word, t) = Result(Spoke(thought, Raw(<<word>>)), t)
  BY <1>1, <1>3 DEF MeantPart, Part, Spoke
<1>4. \A i, s : Result(i, s).items = i /\ Result(i, s).tmx = s
  BY DEF Result
<1>5. CASE part \in {"thought", "text"}
  <2>1. PICK thought \in BOOLEAN : part = IF thought THEN "thought" ELSE "text"
    <3>1. part = (IF TRUE THEN "thought" ELSE "text") \/ part = (IF FALSE THEN "thought" ELSE "text")
      BY <1>5
    <3> QED BY <3>1
  <2> DEFINE said == Spoke(thought, <<word>>)
             raw == Spoke(thought, Raw(<<word>>))
  <2>2. said \in Items(Plain) /\ raw \in Items(Plain) /\ Looks(raw) = Looks(said)
    BY OneWord
  <2>3. MeantPart(m, part, word) = [items |-> m.items \o said, calls |-> m.calls]
        /\ Part(part, word, t) = Result(raw, t)
    BY <1>3, <2>1
  <2> HIDE DEF said, raw
  <2>4. Part(part, word, t).items = raw /\ Part(part, word, t).tmx.tool = m.calls
    BY <1>4, <2>3
  <2>5. Adds(part, word, m, t, said, raw, m.calls)
    BY <1>1, <1>2, <2>2, <2>3, <2>4 DEF Adds
  <2> QED BY <2>5
<1>6. CASE part = "call"
  <2> DEFINE call == <<Item("call", t.tool), Item("args", t.tool)>>
             after == [t EXCEPT !.tool = @ + 1]
  <2>1. Part(part, word, t) = Result(call, after)
    BY <1>6 DEF Part
  <2>2. MeantPart(m, part, word) = [items |-> m.items \o call, calls |-> t.tool + 1]
    BY <1>6 DEF MeantPart
  <2>9. after.tool = t.tool + 1
    BY DEF Modes
  <2>3. after.tool = t.tool + 1 /\ t.tool + 1 \in Nat
    BY <1>1, <2>9
  <2>4. call \in Items(Plain)
    BY <1>1, CallPlain
  <2> HIDE DEF call, after
  <2>5. Part(part, word, t).items = call /\ Part(part, word, t).tmx.tool = t.tool + 1
    BY <1>4, <2>1, <2>3
  <2>6. Looks(call) = Looks(call)
    OBVIOUS
  <2>7. Adds(part, word, m, t, call, call, t.tool + 1)
    BY <1>2, <2>2, <2>3, <2>4, <2>5, <2>6 DEF Adds
  <2> QED BY <2>7
<1> QED BY <1>5, <1>6

LEMMA PartAlike ==
    ASSUME NEW part \in {"thought", "text", "call"}, NEW word \in Tokens,
           NEW m \in PartMeanings, NEW r, Fine(r, Plain), Alike(m, r)
    PROVE  LET s == Part(part, word, r.tmx)
           IN  /\ MeantPart(m, part, word) \in PartMeanings
               /\ Fine(Result(r.items \o s.items, s.tmx), Plain)
               /\ Alike(MeantPart(m, part, word), Result(r.items \o s.items, s.tmx))
<1> DEFINE t == r.tmx
           i == r.items
           j == m.items
<1>1. t \in Modes /\ i \in Items(Plain) /\ j \in Items(Plain) /\ m.calls = t.tool /\ Looks(j) = Looks(i)
  BY DEF Fine, Alike, PartMeanings
<1> HIDE DEF t, i, j
<1>0. PICK said, got, n : Adds(part, word, m, t, said, got, n)
  BY <1>1, PartAdds
<1>2. /\ said \in Items(Plain) /\ got \in Items(Plain) /\ n \in Nat
      /\ Looks(got) = Looks(said)
      /\ MeantPart(m, part, word) = [items |-> j \o said, calls |-> n]
      /\ Part(part, word, t).items = got
      /\ Part(part, word, t).tmx \in Modes /\ Part(part, word, t).tmx.tool = n
  BY <1>0 DEF Adds, j
<1> DEFINE u == Part(part, word, t).tmx
           a == j \o said
           b == i \o got
<1>3. a \in Items(Plain) /\ b \in Items(Plain)
  BY <1>1, <1>2, JoinedItems
<1>4. Looks(a) = Looks(b)
  <2>1. j \in Heard /\ said \in Heard /\ i \in Heard /\ got \in Heard
    BY <1>1, <1>2, PlainKinds
  <2>2. Looks(a) = Looks(j) \o Looks(said)
    BY <2>1, LooksJoin
  <2>3. Looks(b) = Looks(i) \o Looks(got)
    BY <2>1, LooksJoin
  <2> HIDE DEF a, b
  <2> QED BY <1>1, <1>2, <2>2, <2>3
<1>5. Part(part, word, t).items = got /\ u \in Modes /\ u.tool = n
  BY <1>2
<1>6. MeantPart(m, part, word) = [items |-> a, calls |-> n]
  BY <1>2
<1> HIDE DEF u, a, b
<1>7. [items |-> a, calls |-> n] \in PartMeanings
  BY <1>2, <1>3 DEF PartMeanings
<1>8. Fine(Result(b, u), Plain) /\ Alike([items |-> a, calls |-> n], Result(b, u))
  BY <1>3, <1>4, <1>5 DEF Fine, Alike, Result
<1>9. Result(r.items \o Part(part, word, r.tmx).items, Part(part, word, r.tmx).tmx) = Result(b, u)
  BY <1>5 DEF b, u, t, i
<1> QED BY <1>6, <1>7, <1>8, <1>9

LEMMA MeantPartsFold ==
    ASSUME NEW parts \in Seq({"thought", "text", "call"}), NEW word \in Tokens, src.calls \in Nat
    PROVE  \E f : /\ f[0] = [items |-> <<>>, calls |-> src.calls]
                  /\ \A k \in 1..Len(parts) : f[k] = MeantPart(f[k - 1], parts[k], word)
                  /\ MeantParts(parts, word) = f[Len(parts)]
<1> DEFINE n == Len(parts)
           base == [items |-> <<>>, calls |-> src.calls]
           step == [x \in (1..n) \X PartMeanings |-> MeantPart(x[2], parts[x[1]], word)]
           Fold(f) == f = [k \in 0..n |-> IF k = 0 THEN base ELSE MeantPart(f[k - 1], parts[k], word)]
           u == CHOOSE f : Fold(f)
<1>1. n \in Nat /\ \A k \in 1..n : parts[k] \in {"thought", "text", "call"}
  OBVIOUS
<1>2. base \in PartMeanings
  BY NonePlain DEF PartMeanings
<1>3. MeantParts(parts, word) = u[n]
  BY Zenon DEF MeantParts
<1> HIDE DEF n, base
<1>4. ASSUME NEW k \in 1..n, NEW m \in PartMeanings PROVE MeantPart(m, parts[k], word) \in PartMeanings
  <2> DEFINE t == [inside |-> FALSE, block |-> "", tool |-> m.calls]
  <2>1. t \in Modes /\ m.calls = t.tool /\ m.items \in Items(Plain)
    BY DEF Modes, PartMeanings
  <2> HIDE DEF t
  <2>2. parts[k] \in {"thought", "text", "call"}
    BY <1>1
  <2>3. PICK said, got, c : Adds(parts[k], word, m, t, said, got, c)
    BY <2>1, <2>2, PartAdds
  <2>4. /\ MeantPart(m, parts[k], word) = [items |-> m.items \o said, calls |-> c]
        /\ said \in Items(Plain) /\ c \in Nat
    BY <2>3 DEF Adds
  <2>5. m.items \o said \in Items(Plain)
    BY <2>1, <2>4, JoinedItems
  <2> QED BY <2>4, <2>5 DEF PartMeanings
<1>5. step \in [(1..n) \X PartMeanings -> PartMeanings]
  <2>1. \A x \in (1..n) \X PartMeanings : MeantPart(x[2], parts[x[1]], word) \in PartMeanings
    <3> TAKE x \in (1..n) \X PartMeanings
    <3>1. PICK k \in 1..n, m \in PartMeanings : x = <<k, m>>
      OBVIOUS
    <3>2. x[1] = k /\ x[2] = m
      BY <3>1
    <3> QED BY <1>4, <3>2, Zenon
  <2> QED BY <2>1
<1>6. \A k \in 1..n : \A m \in PartMeanings : step[<<k, m>>] = MeantPart(m, parts[k], word)
  OBVIOUS
<1> HIDE DEF step
<1>7. PICK g : Recurs(g, n, PartMeanings, base, step)
  BY <1>1, <1>2, <1>5, Recursion
<1>8. g \in [0..n -> PartMeanings] /\ g[0] = base /\ \A k \in 1..n : g[k] = step[<<k, g[k - 1]>>]
  BY <1>7 DEF Recurs
<1>9. \A k \in 0..n : g[k] = IF k = 0 THEN base ELSE MeantPart(g[k - 1], parts[k], word)
  <2> TAKE k \in 0..n
  <2>1. CASE k = 0
    BY <1>8, <2>1
  <2>2. CASE k # 0
    <3>1. k \in 1..n /\ k - 1 \in 0..n
      BY <1>1, <2>2
    <3>2. g[k - 1] \in PartMeanings
      BY <1>8, <3>1
    <3>3. g[k] = MeantPart(g[k - 1], parts[k], word)
      BY <1>6, <1>8, <3>1, <3>2
    <3> QED BY <2>2, <3>3
  <2> QED BY <2>1, <2>2
<1>10. Fold(g)
  <2>1. g = [k \in 0..n |-> g[k]]
    BY <1>8
  <2> QED BY <1>9, <2>1, Zenon
<1>11. Fold(u)
  BY <1>10
<1> HIDE DEF u
<1>12. u[0] = base
  BY <1>1, <1>11
<1>13. \A k \in 1..n : u[k] = MeantPart(u[k - 1], parts[k], word)
  <2> TAKE k \in 1..n
  <2>1. k \in 0..n /\ k # 0
    BY <1>1
  <2> QED BY <1>11, <2>1
<1> QED BY <1>3, <1>12, <1>13 DEF base, n

LEMMA PartsFollowed ==
    ASSUME NEW parts \in Seq({"thought", "text", "call"}), NEW word \in Tokens,
           tmx \in Modes, tmx.tool = src.calls
    PROVE  /\ MeantParts(parts, word) \in PartMeanings
           /\ Fine(Parts(parts, word, tmx), Plain)
           /\ Alike(MeantParts(parts, word), Parts(parts, word, tmx))
<1> DEFINE n == Len(parts)
<1>1. n \in Nat /\ \A k \in 1..n : parts[k] \in {"thought", "text", "call"}
  OBVIOUS
<1>2. PICK g : Becoming(g, parts, word, tmx) /\ Parts(parts, word, tmx) = g[n]
  BY <1>1, PartsFold
<1>3. src.calls \in Nat
  BY DEF Modes
<1>4. PICK f : /\ f[0] = [items |-> <<>>, calls |-> src.calls]
               /\ \A k \in 1..n : f[k] = MeantPart(f[k - 1], parts[k], word)
               /\ MeantParts(parts, word) = f[n]
  BY <1>3, MeantPartsFold
<1>5. g[0] = Result(<<>>, tmx)
  BY SMTT(30), <1>1, <1>2 DEF Becoming
<1>6. ASSUME NEW k \in 1..n
      PROVE  LET s == Part(parts[k], word, g[k - 1].tmx) IN g[k] = Result(g[k - 1].items \o s.items, s.tmx)
  <2>1. k \in 0..n /\ k # 0
    BY <1>1
  <2> QED BY <1>2, <2>1 DEF Becoming
<1> HIDE DEF n
<1> DEFINE Good(k) == f[k] \in PartMeanings /\ Fine(g[k], Plain) /\ Alike(f[k], g[k])
           T == {k \in Nat : k <= n => Good(k)}
<1>7. 0 \in T
  <2>1. f[0] \in PartMeanings
    BY <1>3, <1>4, NonePlain DEF PartMeanings
  <2>2. Fine(g[0], Plain)
    BY <1>5, NonePlain DEF Fine, Result
  <2>3. Alike(f[0], g[0])
    BY <1>4, <1>5 DEF Alike, Result
  <2> QED BY <2>1, <2>2, <2>3
<1>8. ASSUME NEW k \in T PROVE k + 1 \in T
  <2> SUFFICES ASSUME k + 1 <= n PROVE Good(k + 1)
    OBVIOUS
  <2>1. k + 1 \in 1..n /\ (k + 1) - 1 = k /\ Good(k)
    BY <1>1
  <2>2. f[k + 1] = MeantPart(f[k], parts[k + 1], word)
    BY <1>4, <2>1
  <2> DEFINE s == Part(parts[k + 1], word, g[k].tmx)
  <2>3. g[k + 1] = Result(g[k].items \o s.items, s.tmx)
    BY <1>6, <2>1
  <2>4. /\ MeantPart(f[k], parts[k + 1], word) \in PartMeanings
        /\ Fine(Result(g[k].items \o s.items, s.tmx), Plain)
        /\ Alike(MeantPart(f[k], parts[k + 1], word), Result(g[k].items \o s.items, s.tmx))
    <3>1. parts[k + 1] \in {"thought", "text", "call"}
      BY <1>1, <2>1
    <3>2. f[k] \in PartMeanings /\ Fine(g[k], Plain) /\ Alike(f[k], g[k])
      BY <2>1
    <3> QED BY <3>1, <3>2, PartAlike
  <2> HIDE DEF s
  <2> QED BY <2>2, <2>3, <2>4
<1> HIDE DEF T
<1>9. n \in T
  BY <1>1, <1>7, <1>8, Everywhere
<1> QED BY <1>1, <1>2, <1>4, <1>9 DEF T

-----------------------------------------------------------------------------
(* The transmuxer is where the provider is: inside a tag or not, until a   *)
(* chunk has words on both sides of one, in a block of the same kind, and  *)
(* at the same tool call.                                                  *)
InStep ==
    /\ provider \in Thinking /\ ~src.mixed => tmx.inside = src.inside
    /\ provider \in Messages => /\ tmx.block = src.block
                                /\ src.calls = IF src.block = "tool_use" THEN tmx.tool + 1 ELSE tmx.tool
    /\ provider = "vertex" => tmx.tool = src.calls

\* What came of items looks like what was said; of one's own Ollama's, nothing does.
Like(items, said) ==
    IF provider = SelfHosted THEN Content(items) = <<>>
    ELSE ShownBy(provider, Content(items)) = ShownBy(provider, said)

\* While it is, a client that stays has heard what was said.
FollowInv ==
    /\ phase = "open" => InStep
    /\ phase = "off" => told = <<>>
    /\ ~src.mixed => told \in Heard
    /\ ~gone /\ ~src.mixed => Like(heard, told)

LEMMA FollowIsFaithful == FollowInv => Faithful
<1>1. \A items : Shown(items) = ShownBy(provider, items)
  BY DEF Shown, ShownBy, Looks, Look
<1> QED BY <1>1 DEF FollowInv, Faithful, Like

\* A line that says something, and what becomes of it.
Told(r, said) ==
    /\ r.items \in Heard /\ said \in Heard
    /\ told' = told \o said
    /\ Like(r.items, said)

\* A line becomes what it means, and the transmuxer stays in step.
Kept(r) ==
    /\ Relay(r)
    /\ InStep'
    /\ ~src'.mixed => ~src.mixed /\ \E said : Told(r, said)

LEMMA OneKind ==
    /\ \A p \in Thinking : p \notin Messages /\ p \notin {"vertex", "ollama", "1minai", SelfHosted}
    /\ \A p \in Messages : p \notin Thinking /\ p \notin {"vertex", "ollama", "1minai", SelfHosted}
    /\ \A p \in {"vertex", "ollama", "1minai", SelfHosted} : p \notin Thinking \cup Messages
    /\ SelfHosted \notin {"vertex", "ollama", "1minai"}
    /\ "vertex" \notin {"ollama", "1minai"}
BY DEF Thinking, Messages, SelfHosted

\* What is plain is what the provider said; the rest ends it.
LEMMA PlainFollowed ==
    ASSUME NEW items \in Items(Plain)
    PROVE  /\ items \in Heard /\ Content(items) = items
           /\ items \o Finish("stop") \in Heard
           /\ Content(items \o Finish("stop")) = items
           /\ items \o (Finish("stop") \o Finish("stop")) \in Heard
           /\ Content(items \o (Finish("stop") \o Finish("stop"))) = items
           /\ items \o <<>> = items
<1> DEFINE P == [as : Plain, what : Whats]
           f == Finish("stop")
<1>1. items \in Heard /\ Content(items) = items
  BY PlainSpoken, HeardItems, ContentPlain
<1>2. items \o <<>> = items
  <2>1. items \in Seq(P)
    BY DEF Items
  <2> HIDE DEF P
  <2> QED BY <2>1
<1>3. f \in Heard /\ f \o f \in Heard
  BY FinishSpoken, JoinedItems, HeardItems
<1>4. Content(f) = <<>> /\ Content(f \o f) = <<>>
  BY ContentEnd
<1> HIDE DEF f
<1>5. items \o f \in Heard /\ items \o (f \o f) \in Heard
  BY <1>1, <1>3, Concatenated
<1>6. Content(items \o f) = items \o <<>> /\ Content(items \o (f \o f)) = items \o <<>>
  BY <1>1, <1>3, <1>4, ContentJoin
<1> QED BY <1>1, <1>2, <1>5, <1>6 DEF f

\* What is heard as it is meant, or looks so.
LEMMA LikeItself ==
    ASSUME provider # SelfHosted, NEW r, NEW said \in Items(Plain), NEW got \in Items(Plain),
           r.items = got,
           got = said \/ (provider \notin {"ollama", "1minai"} /\ Looks(got) = Looks(said)),
           told' = told \o said
    PROVE  Told(r, said)
<1>1. got \in Heard /\ said \in Heard /\ Content(got) = got
  BY PlainFollowed
<1>2. ShownBy(provider, got) = ShownBy(provider, said)
  BY DEF ShownBy
<1> QED BY <1>1, <1>2 DEF Told, Like

LEMMA TextLine ==
    ASSUME HeardInv, FollowInv, NEW text \in Texts[provider], TextChunk(text)
    PROVE  \E r : Kept(r)
<1> DEFINE r == Translated(provider, text, tmx)
           m == Meant(text)
           lost == src.mixed \/ ~Followed(provider, text)
           next == [src EXCEPT !.inside = m.inside, !.mixed = lost]
<1>1. provider \in Thinking /\ phase = "open" /\ Balanced(text) /\ Relay(r)
  BY DEF TextChunk, Relay
<1>2. provider \in Providers /\ tmx \in Modes /\ Sourced
  BY <1>1 DEF HeardInv, Streaming
<1>3. Says(next, m.items)
  <2> HIDE DEF m
  <2>1. Says([src EXCEPT !.inside = m.inside, !.mixed = @ \/ ~Followed(provider, text)], m.items)
    BY DEF TextChunk, m
  <2> QED BY <2>1
<1>4. provider \notin Messages /\ provider \notin {"vertex", "ollama", "1minai", SelfHosted}
  BY <1>1, OneKind
<1>5. /\ next.inside = m.inside /\ next.mixed = lost
      /\ DOMAIN next = {"inside", "mixed", "block", "calls", "lines", "ended"}
  <2> HIDE DEF m, lost
  <2> QED BY <1>2 DEF Sourced
<1> HIDE DEF next
<1>6. src'.inside = m.inside /\ src'.mixed = lost
  <2> HIDE DEF m, lost
  <2> QED BY <1>2, <1>3, <1>5, SaysWhere
<1>7. told' = told \o m.items /\ tmx' = r.tmx /\ provider' = provider
  <2> HIDE DEF m, lost, r
  <2> QED BY <1>1, <1>3 DEF Says, Relay
<1>8. ASSUME ~src'.mixed
      PROVE  ~src.mixed /\ tmx'.inside = src'.inside /\ Told(r, m.items)
  <2>1. ~src.mixed /\ Followed(provider, text)
    BY <1>6, <1>8
  <2>2. tmx.inside = src.inside
    BY <1>1, <2>1 DEF FollowInv, InStep
  <2>3. text \in Seq({Word, Break, Open, Shut})
    BY <1>2, StreamAssumption DEF StreamAssumption
  <2>4. PICK words \in Seq(Spelt) : text \in Follow(provider, words)
    BY <2>1, <2>3, FollowedWords
  <2>5. Follows(provider, text)
    BY <1>1, <1>2, <2>2, <2>4, TextFollowed
  <2>6. /\ Looks(r.items) = Looks(m.items) /\ r.tmx.inside = m.inside
        /\ m.items \in Items(Plain) /\ r.items \in Items(Plain)
    BY <2>5 DEF Follows
  <2> HIDE DEF r, m
  <2>7. Told(r, m.items)
    BY <1>4, <1>7, <2>6, LikeItself
  <2> QED BY <1>6, <1>7, <2>1, <2>6, <2>7
<1> HIDE DEF r, m
<1>9. InStep'
  BY <1>1, <1>4, <1>7, <1>8 DEF InStep
<1> QED BY <1>1, <1>8, <1>9 DEF Kept

LEMMA NativeLine ==
    ASSUME HeardInv, FollowInv, NEW item, item = Item("reasoning", Word) \/ item = Item("finish", "stop"),
           NativeChunk(item)
    PROVE  \E r : Kept(r)
<1> DEFINE r == Result(<<item>>, tmx)
           items == IF item.as = "finish" THEN <<>> ELSE <<item>>
           next == [src EXCEPT !.ended = IF item.as = "finish" THEN item.what ELSE @]
<1>1. /\ provider \in Thinking /\ phase = "open" /\ Relay(r) /\ Says(next, items)
  BY DEF NativeChunk, Relay
<1>2. Sourced /\ (~src.mixed => tmx.inside = src.inside)
  BY <1>1 DEF HeardInv, FollowInv, InStep
<1>3. /\ next.inside = src.inside /\ next.mixed = src.mixed
      /\ DOMAIN next = {"inside", "mixed", "block", "calls", "lines", "ended"}
  BY <1>2 DEF Sourced
<1>4. r.items = <<item>> /\ r.tmx = tmx
  BY DEF Result
<1>5. r.items \in Heard /\ Content(r.items) = items /\ items \in Items(Plain)
  <2>1. CASE item = Item("reasoning", Word)
    <3>1. item.as # "finish" /\ <<item>> = Spoke(TRUE, <<Word>>)
      BY <2>1 DEF Item, Reasoning, Spoke
    <3>2. <<item>> \in Items(Plain)
      BY <3>1, OneWord DEF Tokens
    <3> QED BY <1>4, <3>1, <3>2, PlainFollowed
  <2>2. CASE item = Item("finish", "stop")
    <3>1. item.as = "finish" /\ <<item>> = Finish("stop")
      BY <2>2 DEF Item, Finish
    <3> QED BY <1>4, <3>1, ContentEnd, FinishSpoken, HeardItems, NonePlain
  <2> QED BY <2>1, <2>2
<1> HIDE DEF r, next, items
<1>6. src'.inside = src.inside /\ src'.mixed = src.mixed
  BY <1>1, <1>2, <1>3, SaysWhere
<1>7. told' = told \o items /\ tmx' = tmx /\ provider' = provider
  BY <1>1, <1>4 DEF Says, Relay
<1>8. provider \notin Messages /\ provider \notin {"vertex", "ollama", "1minai", SelfHosted}
  BY <1>1, OneKind
<1>9. InStep'
  BY <1>2, <1>6, <1>7, <1>8 DEF InStep
<1>10. Told(r, items)
  BY <1>5, <1>7, <1>8, PlainFollowed DEF Told, Like
<1> QED BY <1>1, <1>6, <1>9, <1>10 DEF Kept

LEMMA StartMessageLine ==
    ASSUME HeardInv, FollowInv, StartMessage
    PROVE  \E r : Kept(r)
<1> DEFINE r == MessageStart(tmx)
           next == [src EXCEPT !.block = "", !.calls = 0]
<1>1. /\ provider \in Messages /\ phase = "open" /\ Relay(r) /\ Says(next, <<>>)
  BY DEF StartMessage, Relay
<1>2. Sourced /\ tmx \in Modes
  BY <1>1 DEF HeardInv
<1>3. /\ next.block = "" /\ next.calls = 0 /\ next.mixed = src.mixed
      /\ DOMAIN next = {"inside", "mixed", "block", "calls", "lines", "ended"}
  BY <1>2 DEF Sourced
<1>4. r.items = <<>> /\ r.tmx.block = "" /\ r.tmx.tool = 0
  BY <1>2 DEF MessageStart, Result, Modes
<1> HIDE DEF r, next
<1>5. src'.block = "" /\ src'.calls = 0 /\ src'.mixed = src.mixed
  BY <1>1, <1>2, <1>3, SaysWhere
<1>6. told' = told \o <<>> /\ tmx' = r.tmx /\ provider' = provider
  BY <1>1 DEF Says, Relay
<1>7. provider \notin Thinking /\ provider \notin {"vertex", "ollama", "1minai", SelfHosted}
  BY <1>1, OneKind
<1>8. InStep'
  BY <1>4, <1>5, <1>6, <1>7 DEF InStep
<1>9. Told(r, <<>>)
  BY <1>4, <1>6, <1>7, NonePlain, LikeItself
<1> QED BY <1>1, <1>5, <1>8, <1>9 DEF Kept

LEMMA StartLine ==
    ASSUME HeardInv, FollowInv, NEW kind \in {"text", "thinking", "tool_use"},
           NEW text \in Seq(Tokens), StartBlock(kind, text)
    PROVE  \E r : Kept(r)
<1> DEFINE r == BlockStart(kind, text, tmx)
           mid == [src EXCEPT !.block = kind]
           next == [mid EXCEPT !.calls = IF kind = "tool_use" THEN @ + 1 ELSE @]
           said == CASE kind = "thinking" -> Reasoning(text)
                     [] kind = "text" -> Text(text)
                     [] kind = "tool_use" -> <<Item("call", src.calls)>>
           got == CASE kind = "thinking" -> Reasoning(Raw(text))
                    [] kind = "text" -> Text(Raw(text))
                    [] kind = "tool_use" -> <<Item("call", tmx.tool)>>
<1>1. /\ provider \in Messages /\ phase = "open" /\ src.block = "" /\ Relay(r) /\ Says(next, said)
  BY DEF StartBlock, Relay
<1>2. Sourced /\ tmx \in Modes /\ tmx.block = "" /\ src.calls = tmx.tool /\ tmx.tool \in Nat
  BY <1>1 DEF HeardInv, FollowInv, InStep, Modes
<1>3. /\ next.block = kind /\ next.mixed = src.mixed
      /\ next.calls = IF kind = "tool_use" THEN src.calls + 1 ELSE src.calls
      /\ DOMAIN next = {"inside", "mixed", "block", "calls", "lines", "ended"}
  BY <1>2 DEF Sourced
<1>4. r.items = got /\ r.tmx.block = kind /\ r.tmx.tool = tmx.tool
  <2> DEFINE t == [tmx EXCEPT !.block = kind]
  <2>1. t.block = kind /\ t.tool = tmx.tool
    BY <1>2 DEF Modes
  <2>2. r = Result(got, t)
    BY DEF BlockStart
  <2> HIDE DEF r, got, t
  <2> QED BY <2>1, <2>2 DEF Result
<1>5. said \in Items(Plain) /\ got \in Items(Plain) /\ (got = said \/ Looks(got) = Looks(said))
  <2>1. ASSUME NEW thought \in BOOLEAN
        PROVE  /\ Spoke(thought, text) \in Items(Plain) /\ Spoke(thought, Raw(text)) \in Items(Plain)
               /\ Looks(Spoke(thought, Raw(text))) = Looks(Spoke(thought, text))
    <3>1. Raw(text) \in Seq(Tokens)
      BY TextPlain
    <3> QED BY <3>1, SpokePlain, LooksRaw
  <2>2. CASE kind = "thinking"
    <3>1. said = Spoke(TRUE, text) /\ got = Spoke(TRUE, Raw(text))
      BY <2>2 DEF Spoke
    <3> HIDE DEF said, got
    <3> QED BY <2>1, <3>1
  <2>3. CASE kind = "text"
    <3>1. said = Spoke(FALSE, text) /\ got = Spoke(FALSE, Raw(text))
      BY <2>3 DEF Spoke
    <3> HIDE DEF said, got
    <3> QED BY <2>1, <3>1
  <2>4. CASE kind = "tool_use"
    <3>1. said = <<Item("call", tmx.tool)>> /\ got = said
      BY <1>2, <2>4
    <3> HIDE DEF said, got
    <3> QED BY <1>2, <3>1, CallPlain
  <2> QED BY <2>2, <2>3, <2>4
<1> HIDE DEF r, next, said, got
<1>6. /\ src'.block = kind /\ src'.mixed = src.mixed
      /\ src'.calls = IF kind = "tool_use" THEN src.calls + 1 ELSE src.calls
  BY <1>1, <1>2, <1>3, SaysWhere
<1>7. told' = told \o said /\ tmx' = r.tmx /\ provider' = provider
  BY <1>1 DEF Says, Relay
<1>8. provider \notin Thinking /\ provider \notin {"vertex", "ollama", "1minai", SelfHosted}
  BY <1>1, OneKind
<1>9. InStep'
  BY <1>2, <1>4, <1>6, <1>7, <1>8 DEF InStep
<1>10. Told(r, said)
  BY <1>4, <1>5, <1>7, <1>8, LikeItself
<1> QED BY <1>1, <1>6, <1>9, <1>10 DEF Kept

LEMMA ContinueLine ==
    ASSUME HeardInv, FollowInv, NEW word \in Words[provider], ContinueBlock(word)
    PROVE  \E r : Kept(r)
<1> DEFINE r == BlockDelta(src.block, word, tmx)
           said == CASE src.block = "thinking" -> Reasoning(<<word>>)
                     [] src.block = "text" -> Text(<<word>>)
                     [] src.block = "tool_use" -> <<Item("args", src.calls - 1)>>
           got == CASE src.block = "thinking" -> Reasoning(Raw(<<word>>))
                    [] src.block = "text" -> Text(Raw(<<word>>))
                    [] src.block = "tool_use" -> <<Item("args", tmx.tool)>>
<1>1. /\ provider \in Messages /\ phase = "open" /\ src.block # "" /\ Relay(r) /\ Says(src, said)
  BY DEF ContinueBlock, Relay
<1>2. /\ provider \in Providers /\ Sourced /\ tmx \in Modes /\ tmx.block = src.block
      /\ src.calls = IF src.block = "tool_use" THEN tmx.tool + 1 ELSE tmx.tool
  BY <1>1 DEF HeardInv, Streaming, FollowInv, InStep
<1>3. word \in Tokens
  BY <1>2, StreamAssumption DEF StreamAssumption, Tokens
<1>4. src.block \in {"thinking", "text", "tool_use"} /\ tmx.tool \in Nat
  BY <1>1, <1>2 DEF Sourced, Modes
<1>5. src.block = "tool_use" => src.calls - 1 = tmx.tool
  BY <1>2, <1>4
<1>6. r.items = got /\ r.tmx = tmx
  <2>1. r = Result(got, tmx)
    BY DEF BlockDelta
  <2> HIDE DEF r, got
  <2> QED BY <2>1 DEF Result
<1>7. said \in Items(Plain) /\ got \in Items(Plain) /\ (got = said \/ Looks(got) = Looks(said))
  <2>1. CASE src.block = "thinking"
    <3>1. said = Spoke(TRUE, <<word>>) /\ got = Spoke(TRUE, Raw(<<word>>))
      BY <2>1 DEF Spoke
    <3> HIDE DEF said, got
    <3> QED BY <1>3, <3>1, OneWord
  <2>2. CASE src.block = "text"
    <3>1. said = Spoke(FALSE, <<word>>) /\ got = Spoke(FALSE, Raw(<<word>>))
      BY <2>2 DEF Spoke
    <3> HIDE DEF said, got
    <3> QED BY <1>3, <3>1, OneWord
  <2>3. CASE src.block = "tool_use"
    <3>1. said = <<Item("args", tmx.tool)>> /\ got = said
      BY <1>5, <2>3
    <3> HIDE DEF said, got
    <3> QED BY <1>4, <3>1, CallPlain
  <2> QED BY <1>4, <2>1, <2>2, <2>3
<1> HIDE DEF r, said, got
<1>8. src'.block = src.block /\ src'.calls = src.calls /\ src'.mixed = src.mixed
  BY <1>1, <1>2, SaysWhere DEF Sourced
<1>9. told' = told \o said /\ tmx' = tmx /\ provider' = provider
  BY <1>1, <1>6 DEF Says, Relay
<1>10. provider \notin Thinking /\ provider \notin {"vertex", "ollama", "1minai", SelfHosted}
  BY <1>1, OneKind
<1>11. InStep'
  BY <1>2, <1>8, <1>9, <1>10 DEF InStep
<1>12. Told(r, said)
  BY <1>6, <1>7, <1>9, <1>10, LikeItself
<1> QED BY <1>1, <1>8, <1>11, <1>12 DEF Kept

LEMMA StopLine ==
    ASSUME HeardInv, FollowInv, StopBlock
    PROVE  \E r : Kept(r)
<1> DEFINE r == BlockStop(tmx)
           next == [src EXCEPT !.block = ""]
<1>1. /\ provider \in Messages /\ phase = "open" /\ Relay(r) /\ Says(next, <<>>)
  BY DEF StopBlock, Relay
<1>2. /\ Sourced /\ tmx \in Modes /\ tmx.block = src.block
      /\ src.calls = IF src.block = "tool_use" THEN tmx.tool + 1 ELSE tmx.tool
  BY <1>1 DEF HeardInv, FollowInv, InStep
<1>3. /\ next.block = "" /\ next.calls = src.calls /\ next.mixed = src.mixed
      /\ DOMAIN next = {"inside", "mixed", "block", "calls", "lines", "ended"}
  BY <1>2 DEF Sourced
<1>4. r.items = <<>> /\ r.tmx.block = "" /\ r.tmx.tool = src.calls
  <2>1. \A n : [tmx EXCEPT !.block = "", !.tool = n].block = ""
               /\ [tmx EXCEPT !.block = "", !.tool = n].tool = n
    BY <1>2 DEF Modes
  <2> QED BY <1>2, <2>1 DEF BlockStop, Result
<1> HIDE DEF r, next
<1>5. src'.block = "" /\ src'.calls = src.calls /\ src'.mixed = src.mixed
  BY <1>1, <1>2, <1>3, SaysWhere
<1>6. told' = told \o <<>> /\ tmx' = r.tmx /\ provider' = provider
  BY <1>1 DEF Says, Relay
<1>7. provider \notin Thinking /\ provider \notin {"vertex", "ollama", "1minai", SelfHosted}
  BY <1>1, OneKind
<1>8. InStep'
  BY <1>4, <1>5, <1>6, <1>7 DEF InStep
<1>9. Told(r, <<>>)
  BY <1>4, <1>6, <1>7, NonePlain, LikeItself
<1> QED BY <1>1, <1>5, <1>8, <1>9 DEF Kept

\* The rest leaves the transmuxer as it is, and only ends what is said.
LEMMA EndingLine ==
    ASSUME HeardInv, FollowInv, NEW e, NEW items, Says([src EXCEPT !.ended = e], items),
           NEW r, Relay(r), r.tmx = tmx, r.items \in Heard, items \in Heard, Like(r.items, items)
    PROVE  Kept(r)
<1> DEFINE next == [src EXCEPT !.ended = e]
<1>1. phase = "open" /\ Sourced /\ InStep
  BY DEF Relay, HeardInv, FollowInv
<1>2. /\ next.inside = src.inside /\ next.block = src.block /\ next.calls = src.calls
      /\ next.mixed = src.mixed
      /\ DOMAIN next = {"inside", "mixed", "block", "calls", "lines", "ended"}
  BY <1>1 DEF Sourced
<1> HIDE DEF next
<1>3. /\ src'.inside = src.inside /\ src'.block = src.block /\ src'.calls = src.calls
      /\ src'.mixed = src.mixed
  BY <1>1, <1>2, SaysWhere DEF next
<1>4. told' = told \o items /\ tmx' = tmx /\ provider' = provider
  BY DEF Says, Relay
<1>5. InStep'
  BY <1>1, <1>3, <1>4 DEF InStep
<1>6. Told(r, items)
  BY <1>4 DEF Told
<1> QED BY <1>3, <1>5, <1>6 DEF Kept

LEMMA EndLine ==
    ASSUME HeardInv, FollowInv, NEW reason \in Reasons, EndMessage(reason)
    PROVE  \E r : Kept(r)
<1> DEFINE r == MessageDelta(reason, tmx)
<1>1. r.tmx = tmx /\ r.items = Finish(StopReason(reason))
  BY DEF MessageDelta, Result
<1>2. StopReason(reason) \in {"stop", "length", "tool_calls"}
  BY DEF Reasons, StopReason
<1>3. r.items \in Heard /\ Content(r.items) = <<>>
  BY <1>1, <1>2, FinishSpoken, HeardItems, ContentEnd
<1>4. Relay(r) /\ Says([src EXCEPT !.ended = reason], <<>>)
  BY DEF EndMessage
<1> HIDE DEF r
<1>5. <<>> \in Heard /\ Like(r.items, <<>>)
  BY <1>3, NoneHeard DEF Like
<1> QED BY <1>1, <1>3, <1>4, <1>5, EndingLine

LEMMA FailLine ==
    ASSUME HeardInv, FollowInv, FailMessage \/ FailVertex
    PROVE  \E r : Kept(r)
<1>1. Text(<<Word>>) \in Items(Plain)
  BY WordPlain DEF Tokens
<1>2. provider # SelfHosted
  BY OneKind DEF FailMessage, FailVertex
<1>3. CASE FailMessage
  <2> DEFINE r == ErrorEvent(tmx)
  <2>1. r.tmx = tmx /\ r.items = Text(<<Word>>)
    BY DEF ErrorEvent, Result
  <2>2. Relay(r) /\ Says([src EXCEPT !.ended = "error"], Text(<<Word>>))
    BY <1>3 DEF FailMessage
  <2> HIDE DEF r
  <2>3. r.items \in Heard /\ Content(r.items) = Text(<<Word>>) /\ Text(<<Word>>) \in Heard
    BY <1>1, <2>1, PlainFollowed
  <2>4. Like(r.items, Text(<<Word>>))
    BY <1>2, <2>3 DEF Like
  <2> QED BY <2>1, <2>2, <2>3, <2>4, EndingLine
<1>4. CASE FailVertex
  <2> DEFINE r == GeminiError(tmx)
  <2>1. r.tmx = tmx /\ r.items = Text(<<Word>>) \o Finish("stop")
    BY DEF GeminiError, Result
  <2>2. Relay(r) /\ Says([src EXCEPT !.ended = "error"], Text(<<Word>>))
    BY <1>4 DEF FailVertex
  <2> HIDE DEF r
  <2>3. r.items \in Heard /\ Content(r.items) = Text(<<Word>>) /\ Text(<<Word>>) \in Heard
    BY <1>1, <2>1, PlainFollowed
  <2>4. Like(r.items, Text(<<Word>>))
    BY <1>2, <2>3 DEF Like
  <2> QED BY <2>1, <2>2, <2>3, <2>4, EndingLine
<1> QED BY <1>3, <1>4

LEMMA VertexLine ==
    ASSUME HeardInv, FollowInv, NEW word \in Words[provider], NEW parts \in Batches,
           NEW reason \in {"", "stop"}, NEW usage \in BOOLEAN, SendParts(parts, word, reason, usage)
    PROVE  \E r : Kept(r)
<1> DEFINE r == GeminiChunk(parts, word, reason, usage, tmx)
           mid == [src EXCEPT !.ended = IF reason = "" THEN @ ELSE reason]
           n == MeantParts(parts, word).calls
           said == MeantParts(parts, word).items
           next == [mid EXCEPT !.calls = n]
           now == Parts(parts, word, tmx)
           got == now.items
           tail == GeminiFinish(reason, usage)
<1>1. provider = "vertex" /\ phase = "open" /\ Relay(r)
  BY DEF SendParts, Relay
<1>2. Says(next, said)
  BY Zenon DEF SendParts
<1>3. provider \in Providers /\ Sourced /\ tmx \in Modes /\ tmx.tool = src.calls
  BY <1>1 DEF HeardInv, Streaming, FollowInv, InStep
<1>4. word \in Tokens
  BY <1>3, StreamAssumption DEF StreamAssumption, Tokens
<1>5. parts \in Seq({"thought", "text", "call"})
  BY StreamAssumption DEF StreamAssumption
<1>6. /\ said \in Items(Plain) /\ got \in Items(Plain)
      /\ Looks(got) = Looks(said) /\ n = now.tmx.tool
  <2>1. /\ MeantParts(parts, word) \in PartMeanings
        /\ Fine(now, Plain) /\ Alike(MeantParts(parts, word), now)
    BY <1>3, <1>4, <1>5, PartsFollowed
  <2> QED BY <2>1 DEF PartMeanings, Fine, Alike
<1>7. r.items = got \o tail /\ r.tmx = now.tmx
  <2> HIDE DEF now, tail
  <2>1. r = Result(now.items \o tail, now.tmx)
    BY DEF GeminiChunk, now, tail
  <2> DEFINE i == now.items \o tail
             m == now.tmx
  <2>2. r = Result(i, m)
    BY <2>1
  <2> HIDE DEF r, i, m
  <2>3. r.items = i /\ r.tmx = m
    BY <2>2 DEF Result
  <2> QED BY <2>3 DEF i, m
<1> HIDE DEF got
<1>8. r.items \in Heard /\ Content(r.items) = got
  <2>1. tail \in {<<>>, Finish("stop"), Finish("stop") \o Finish("stop")}
    BY DEF GeminiFinish
  <2> HIDE DEF r, now, tail, said
  <2>2. got \o <<>> = got
    BY <1>6, PlainFollowed
  <2>3. CASE tail = <<>>
    BY <1>6, <1>7, <2>2, <2>3, PlainFollowed
  <2>4. CASE tail = Finish("stop")
    BY <1>6, <1>7, <2>4, PlainFollowed
  <2>5. CASE tail = Finish("stop") \o Finish("stop")
    BY <1>6, <1>7, <2>5, PlainFollowed
  <2> QED BY <2>1, <2>3, <2>4, <2>5
<1> HIDE DEF n
<1>9. /\ next.calls = n /\ next.mixed = src.mixed
      /\ DOMAIN next = {"inside", "mixed", "block", "calls", "lines", "ended"}
  BY <1>3 DEF Sourced
<1> HIDE DEF r, next, now, said
<1>10. src'.calls = n /\ src'.mixed = src.mixed
  BY <1>2, <1>3, <1>9, SaysWhere
<1>11. told' = told \o said /\ tmx' = r.tmx /\ provider' = provider
  BY <1>1, <1>2 DEF Says, Relay
<1>12. InStep'
  BY <1>1, <1>6, <1>7, <1>10, <1>11, OneKind DEF InStep
<1>13. Told(r, said)
  <2>1. said \in Heard
    BY <1>6, PlainFollowed
  <2>2. provider \notin {"ollama", "1minai", SelfHosted}
    BY <1>1, OneKind
  <2> QED BY <1>6, <1>8, <1>11, <2>1, <2>2 DEF Told, Like, ShownBy
<1> QED BY <1>1, <1>10, <1>12, <1>13 DEF Kept

LEMMA OllamaLine ==
    ASSUME HeardInv, FollowInv, NEW text \in Seq(Tokens), NEW done \in BOOLEAN,
           SendOllama(text, done) \/ SendSelfHosted(text, done)
    PROVE  \E r : Kept(r)
<1>1. Text(text) \in Items(Plain)
  BY TextPlain
<1>2. CASE SendOllama(text, done)
  <2> DEFINE r == OllamaChunk(text, done, tmx)
  <2>1. r.tmx = tmx /\ r.items \in Heard /\ Content(r.items) = Text(text) /\ Text(text) \in Heard
    <3>1. r.tmx = tmx /\ r.items = Text(text) \o IF done THEN Finish("stop") ELSE <<>>
      BY DEF OllamaChunk, Result
    <3> HIDE DEF r
    <3> QED BY <1>1, <3>1, PlainFollowed
  <2>2. Relay(r) /\ Says([src EXCEPT !.ended = IF done THEN "stop" ELSE @], Text(text))
    BY <1>2 DEF SendOllama
  <2> HIDE DEF r
  <2>3. Like(r.items, Text(text))
    <3>1. provider # SelfHosted
      BY <1>2, OneKind DEF SendOllama
    <3> QED BY <2>1, <3>1 DEF Like
  <2> QED BY <2>1, <2>2, <2>3, EndingLine
<1>3. CASE SendSelfHosted(text, done)
  <2> DEFINE r == OllamaOther(tmx)
  <2>1. r.tmx = tmx /\ r.items = <<>>
    BY DEF OllamaOther, Result
  <2>2. Relay(r) /\ Says([src EXCEPT !.ended = IF done THEN "stop" ELSE @], Text(text))
    BY <1>3 DEF SendSelfHosted
  <2> HIDE DEF r
  <2>3. r.items \in Heard /\ Text(text) \in Heard /\ Content(r.items) = <<>>
    BY <1>1, <2>1, NonePlain, PlainFollowed
  <2>4. Like(r.items, Text(text))
    BY <1>3, <2>3 DEF Like, SendSelfHosted
  <2> QED BY <2>1, <2>2, <2>3, <2>4, EndingLine
<1> QED BY <1>2, <1>3

LEMMA OneMinLine ==
    ASSUME HeardInv, FollowInv, NEW word \in Words[provider],
           NEW event \in {"content", "done", "error"}, SendOneMin(event, word)
    PROVE  \E r : Kept(r)
<1> DEFINE e == IF event = "content" THEN src.ended ELSE event
<1>1. provider \in Providers /\ provider # SelfHosted
  BY OneKind DEF SendOneMin, Relay, HeardInv, Streaming
<1>2. word \in Tokens
  BY <1>1, StreamAssumption DEF StreamAssumption, Tokens
<1>3. CASE event = "content"
  <2> DEFINE r == OneMinContent(word, tmx)
  <2>1. r.tmx = tmx /\ r.items = Text(<<word>>)
    BY DEF OneMinContent, Result
  <2>2. Relay(r) /\ Says([src EXCEPT !.ended = e], Text(<<word>>))
    BY <1>3 DEF SendOneMin
  <2> HIDE DEF r
  <2>3. r.items \in Heard /\ Content(r.items) = Text(<<word>>) /\ Text(<<word>>) \in Heard
    BY <1>2, <2>1, WordPlain, PlainFollowed
  <2>4. Like(r.items, Text(<<word>>))
    BY <1>1, <2>3 DEF Like
  <2> QED BY <2>1, <2>2, <2>3, <2>4, EndingLine
<1>4. CASE event = "done"
  <2> DEFINE r == OneMinDone(tmx)
  <2>1. r.tmx = tmx /\ r.items = Finish("stop")
    BY DEF OneMinDone, Result
  <2>2. Relay(r) /\ Says([src EXCEPT !.ended = e], <<>>)
    BY <1>4 DEF SendOneMin
  <2> HIDE DEF r
  <2>3. r.items \in Heard /\ Content(r.items) = <<>> /\ <<>> \in Heard
    BY <2>1, FinishSpoken, HeardItems, ContentEnd, NoneHeard
  <2>4. Like(r.items, <<>>)
    BY <1>1, <2>3 DEF Like
  <2> QED BY <2>1, <2>2, <2>3, <2>4, EndingLine
<1>5. CASE event = "error"
  <2> DEFINE r == OneMinError(tmx)
  <2>1. r.tmx = tmx /\ r.items = <<Item("raw", "")>>
    BY DEF OneMinError, Result
  <2>2. Relay(r) /\ Says([src EXCEPT !.ended = e], <<Item("raw", "")>>)
    BY <1>5 DEF SendOneMin
  <2> HIDE DEF r
  <2>3. <<Item("raw", "")>> \in Items(Plain)
    <3>1. Item("raw", "") \in [as : Plain, what : Whats]
      BY DEF Item, Plain, Whats
    <3> QED BY <3>1, OneItem, Zenon
  <2>4. r.items \in Heard /\ Content(r.items) = <<Item("raw", "")>> /\ <<Item("raw", "")>> \in Heard
    BY <2>1, <2>3, PlainFollowed
  <2>5. Like(r.items, <<Item("raw", "")>>)
    BY <1>1, <2>4 DEF Like
  <2> QED BY <2>1, <2>2, <2>4, <2>5, EndingLine
<1> QED BY <1>3, <1>4, <1>5

LEMMA LineFollowed ==
    ASSUME HeardInv, FollowInv, StreamNext
    PROVE  RelayDone \/ Close \/ Panic \/ \E r : Kept(r)
<1>1. ASSUME NEW item, item = Item("reasoning", Word) \/ item = Item("finish", "stop"), NativeChunk(item)
      PROVE  \E r : Kept(r)
  BY <1>1, NativeLine
<1>2. ASSUME NEW word \in Words[provider], NEW text \in {<<>>, <<word>>}, provider \in Providers
      PROVE  text \in Seq(Tokens)
  <2>1. word \in Tokens
    BY <1>2, StreamAssumption DEF StreamAssumption, Tokens
  <2>2. <<>> \in Seq(Tokens) /\ <<word>> \in Seq(Tokens)
    BY <2>1
  <2> QED BY <2>2, Zenon
<1>3. phase = "open" => provider \in Providers
  BY DEF HeardInv, Streaming
<1>4. ASSUME NEW kind \in {"text", "thinking", "tool_use"}, NEW text, StartBlock(kind, text)
      PROVE  provider \in Providers
  BY <1>3, <1>4 DEF StartBlock, Relay
<1>5. ASSUME NEW word \in Words[provider], NEW kind \in {"text", "thinking"},
             NEW text \in {<<>>, <<word>>}, StartBlock(kind, text)
      PROVE  \E r : Kept(r)
  <2>1. text \in Seq(Tokens)
    BY <1>2, <1>4, <1>5
  <2> QED BY <1>5, <2>1, StartLine
<1>6. ASSUME StartBlock("tool_use", <<>>) PROVE \E r : Kept(r)
  <2>1. <<>> \in Seq(Tokens)
    OBVIOUS
  <2> QED BY <1>6, <2>1, StartLine
<1>7. ASSUME NEW word \in Words[provider], NEW text \in {<<>>, <<word>>}, NEW done \in BOOLEAN,
             SendOllama(text, done) \/ SendSelfHosted(text, done)
      PROVE  \E r : Kept(r)
  <2>1. provider \in Providers
    BY <1>3, <1>7 DEF SendOllama, SendSelfHosted, Relay
  <2>2. text \in Seq(Tokens)
    BY <1>2, <2>1
  <2> QED BY <1>7, <2>2, OllamaLine
<1> QED BY <1>1, <1>5, <1>6, <1>7, TextLine, StartMessageLine, ContinueLine, StopLine, EndLine, FailLine,
           VertexLine, OneMinLine DEF StreamNext

\* What was alike, and becomes so one after the other, is alike.
LEMMA LikeJoin ==
    ASSUME NEW h \in Heard, NEW t \in Heard, NEW items \in Heard, NEW said \in Heard,
           Like(h, t), Like(items, said)
    PROVE  Like(h \o items, t \o said)
<1> DEFINE a == Content(h)
           b == Content(items)
<1>1. Content(h \o items) = a \o b /\ a \in Heard /\ b \in Heard
  BY ContentJoin
<1> HIDE DEF a, b
<1>2. CASE provider = SelfHosted
  <2>1. a = <<>> /\ b = <<>>
    BY <1>2 DEF Like, a, b
  <2>2. Content(h \o items) = <<>>
    BY <1>1, <2>1
  <2> QED BY <1>2, <2>2 DEF Like
<1>3. CASE provider # SelfHosted
  <2>1. ShownBy(provider, a) = ShownBy(provider, t) /\ ShownBy(provider, b) = ShownBy(provider, said)
    BY <1>3 DEF Like, a, b
  <2>2. ShownBy(provider, a \o b) = ShownBy(provider, a) \o ShownBy(provider, b)
    <3>1. ASSUME NEW x \in Heard, NEW y \in Heard
          PROVE  ShownBy(provider, x \o y) = ShownBy(provider, x) \o ShownBy(provider, y)
      BY ShownJoin, ZenonT(40)
    <3> QED BY <1>1, <3>1
  <2>3. ShownBy(provider, t \o said) = ShownBy(provider, t) \o ShownBy(provider, said)
    BY ShownJoin
  <2> QED BY <1>1, <1>3, <2>1, <2>2, <2>3 DEF Like
<1> QED BY <1>2, <1>3

LEMMA ClosingSaysNothing ==
    /\ Done \in Heard /\ Closing \in Heard
    /\ Content(Closing) = <<>> /\ Content(Done) = <<>>
<1>1. Done \in Heard /\ Finish("stop") \in Heard /\ Finish("tool_calls") \in Heard
  BY FinishKinds
<1>2. Closing \in {<<>> \o Done, Finish("stop") \o Done, Finish("tool_calls") \o Done}
  BY DEF Closing
<1>3. <<>> \o Done = Done
  <2> DEFINE done == Item("done", "")
  <2>1. Done = <<done>>
    BY DEF Done
  <2> HIDE DEF done
  <2> QED BY <2>1
<1>4. Finish("stop") \o Done \in Heard /\ Finish("tool_calls") \o Done \in Heard
  BY <1>1, Concatenated
<1>5. Content(Finish("stop") \o Done) = <<>> /\ Content(Finish("tool_calls") \o Done) = <<>>
      /\ Content(Done) = <<>>
  BY ContentEnd
<1> QED BY <1>1, <1>2, <1>3, <1>4, <1>5

LEMMA RelayFollowed ==
    ASSUME HeardInv, FollowInv, StreamNext
    PROVE  FollowInv'
<1>0. heard \in Heard
  <2>1. phase = "open"
    BY LineFollowed DEF RelayDone, Close, Panic, Kept, Relay
  <2> QED BY <2>1, HeardItems DEF HeardInv
<1>1. CASE RelayDone \/ Close \/ Panic
  <2>1. PICK items \in {Done, Closing} :
            /\ phase' \in {"over", "done", "lost"} /\ UNCHANGED <<provider, src, gone, told>>
            /\ heard' = IF gone THEN heard ELSE heard \o items
    BY <1>1 DEF RelayDone, Close, Panic, Write
  <2>2. items \in Heard /\ Content(items) = <<>>
    BY ClosingSaysNothing
  <2>3. Content(heard) \o <<>> = Content(heard)
    <3> DEFINE P == [as : Spoken \cup {"done"}, what : Whats]
    <3>1. Content(heard) \in Seq(P)
      BY <1>0, NoneHeard, ContentJoin DEF Heard, Items
    <3> HIDE DEF P
    <3> QED BY <3>1
  <2>4. ~gone => Content(heard') = Content(heard)
    BY <1>0, <2>1, <2>2, <2>3, ContentJoin
  <2>5. ~src.mixed => told' \in Heard
    BY <2>1 DEF FollowInv
  <2>6. ~gone /\ ~src.mixed => Like(heard, told)'
    BY <2>1, <2>4 DEF FollowInv, Like, ShownBy
  <2> QED BY <2>1, <2>5, <2>6 DEF FollowInv
<1>2. ASSUME NEW r, Kept(r) PROVE FollowInv'
  <2>1. /\ phase' # "off" /\ gone' = gone /\ provider' = provider /\ InStep'
        /\ heard' = IF gone THEN heard ELSE heard \o r.items
    BY <1>2 DEF Kept, Relay, Write
  <2>2. ASSUME ~src'.mixed PROVE told' \in Heard /\ (~gone => Like(heard, told)')
    <3>1. PICK said : Told(r, said)
      BY <1>2, <2>2 DEF Kept
    <3> DEFINE i == r.items
    <3>2. i \in Heard /\ said \in Heard /\ told' = told \o said /\ Like(i, said)
      BY <3>1 DEF Told
    <3>3. told \in Heard /\ (~gone => Like(heard, told))
      BY <1>2, <2>2 DEF Kept, FollowInv
    <3> HIDE DEF i
    <3>4. told \o said \in Heard
      BY <3>2, <3>3, Concatenated
    <3>5. ~gone => Like(heard \o i, told \o said)
      BY <1>0, <3>2, <3>3, LikeJoin
    <3>6. ~gone => heard' = heard \o i
      BY <2>1 DEF i
    <3>7. ~gone => Like(heard, told)'
      BY <2>1, <3>2, <3>5, <3>6 DEF Like, ShownBy
    <3> QED BY <3>2, <3>4, <3>7
  <2> QED BY <2>1, <2>2 DEF FollowInv
<1> QED BY <1>1, <1>2, LineFollowed

LEMMA NothingAlike == Like(<<>>, <<>>)
<1>1. Content(<<>>) = <<>>
  BY ContentPlain, NonePlain
<1> QED BY <1>1 DEF Like

LEMMA FollowInit == Init => FollowInv
<1> SUFFICES ASSUME Init PROVE FollowInv
  OBVIOUS
<1>1. phase = "off" /\ heard = <<>> /\ told = <<>>
  BY DEF Init, StreamInit
<1> QED BY <1>1, NoneHeard, NothingAlike DEF FollowInv

LEMMA FollowStep == HeardInv /\ FollowInv /\ [Next]_vars => FollowInv'
<1> SUFFICES ASSUME HeardInv, FollowInv, [Next]_vars PROVE FollowInv'
  OBVIOUS
<1>1. ASSUME UNCHANGED <<phase, provider, tmx, src, heard, told>>, gone => gone' PROVE FollowInv'
  <2>1. Content(heard') = Content(heard)
    BY <1>1
  <2> QED BY <1>1, <2>1 DEF FollowInv, InStep, Like, ShownBy
<1>2. CASE StartRelay
  <2>1. /\ at = "success" /\ phase' = "open" /\ UNCHANGED <<heard, gone, told>>
        /\ src' = Start /\ tmx' = Nowhere
    BY <1>2 DEF StartRelay, StreamStart
  <2>2. phase = "off"
    BY <2>1 DEF HeardInv, Streaming
  <2>3. heard' = <<>> /\ told' = <<>>
    BY <2>1, <2>2 DEF HeardInv, FollowInv
  <2>4. InStep'
    BY <2>1 DEF InStep, Start, Nowhere
  <2>5. Like(heard, told)'
    <3>1. Content(heard') = <<>>
      BY <2>3, ContentPlain, NonePlain
    <3> QED BY <2>3, <3>1 DEF Like
  <2> QED BY <2>1, <2>3, <2>4, <2>5, NoneHeard DEF FollowInv
<1>3. CASE RelayStep
  BY <1>3, RelayFollowed DEF RelayStep
<1>4. CASE ClientLeaves
  BY <1>1, <1>4 DEF ClientLeaves
<1>5. ASSUME [Next]_vars, ~StartRelay, ~RelayStep, ~ClientLeaves
      PROVE  UNCHANGED streamVars
  BY <1>5 DEF Next, vars, Attempt, Translate, Send, Mirror, Agree, AcceptTerms, EndRelay, Respond, GeminiAnswer,
              Recover, Finally, Unwritten
<1>6. CASE UNCHANGED streamVars
  BY <1>1, <1>6 DEF streamVars, relay
<1> QED BY <1>2, <1>3, <1>4, <1>5, <1>6

(* A client that stays hears what the provider means, whatever the texts   *)
(* and however they are cut into chunks, in its order and but for escapes, *)
(* until a chunk has words on both sides of a tag; and of an Ollama of     *)
(* one's own it hears nothing.                                             *)
THEOREM StreamIsFaithful == Spec => []Faithful
<1>1. HeardInv /\ FollowInv => Faithful
  BY FollowIsFaithful
<1>2. Init => HeardInv /\ FollowInv
  BY HeardInit, FollowInit
<1>3. HeardInv /\ FollowInv /\ [Next]_vars => (HeardInv /\ FollowInv)'
  BY HeardStep, FollowStep
<1> QED BY <1>1, <1>2, <1>3, PTL DEF Spec

-----------------------------------------------------------------------------
(* The promise of AnswerPromise, kept by one attempt after another: what   *)
(* is judged was sent, and what goes back to the loop unwritten is an      *)
(* error the loop may write.                                               *)
Paid ==
    /\ sends \in Nat
    /\ at \in {"mirror", "success"} \cup Agreeing => sends > 0
    /\ at = "returned" => Success(status) \/ status \in 400..599

LEMMA PaidInit == Init => Paid
BY DEF Init, Paid, Agreeing

\* Every reply has a status of the promise.
LEMMA CodeInRange == ASSUME NEW r \in Replies PROVE Success(Code(r)) \/ Code(r) \in 400..599
BY DEF Replies, Code, Success

\* Whatever is judged was sent.
LEMMA PaidJudge ==
    ASSUME NEW r \in Replies, Judge(r), sends' \in Nat, sends' > 0 PROVE Paid'
<1>1. at' = "returned" => status' = Code(r)
  BY DEF Judge, Onward
<1> QED BY <1>1, CodeInRange DEF Paid

LEMMA PaidSend ==
    ASSUME Written, Paid, NEW r \in Replies, Send(r) \/ Mirror(r) \/ Agree(r)
    PROVE  Paid' /\ sends' = sends + 1
<1>1. sends' = sends + 1 /\ sends' \in Nat /\ sends' > 0
  BY DEF Send, Mirror, Agree, Paid, Sending
<1>2. CASE Send(r)
  <2>1. Judge(r) \/ at' = "mirror"
    BY <1>2 DEF Send
  <2> QED BY <1>1, <2>1, PaidJudge DEF Paid
<1>3. CASE Mirror(r)
  <2>1. Judge(IF Code(r) < 500 THEN r ELSE reply)
    BY <1>3 DEF Mirror
  <2>2. (IF Code(r) < 500 THEN r ELSE reply) \in Replies
    BY DEF Written
  <2> QED BY <1>1, <2>1, <2>2, PaidJudge
<1>4. CASE Agree(r)
  <2>1. at' = "success" \/ (at' = "returned" /\ status' = Code(reply))
    BY <1>4 DEF Agree, Return
  <2>2. reply \in Replies
    BY DEF Written
  <2> QED BY <1>1, <2>1, <2>2, CodeInRange DEF Paid
<1> QED BY <1>1, <1>2, <1>3, <1>4

\* The terms are asked for, or passed over.
LEMMA PaidTerms ==
    ASSUME Paid, AcceptTerms
    PROVE  /\ Paid' /\ (sends' = sends + 1 \/ UNCHANGED sends)
           /\ at \in Agreeing /\ at' \in Agreeing /\ UNCHANGED wire
<1>1. /\ at \in Agreeing /\ at' \in Agreeing /\ UNCHANGED wire
      /\ sends' = sends + 1 \/ UNCHANGED sends
  BY DEF AcceptTerms, Agreeing, Sending, Unsent, Unwritten
<1>2. at' # "returned"
  BY <1>1 DEF Agreeing
<1> QED BY <1>1, <1>2 DEF Paid

\* A body is answered with the reply's status, or goes back as an error.
LEMMA Responds ==
    ASSUME Written, Paid, NEW body, Respond(body)
    PROVE  /\ at = "success" /\ UNCHANGED sends /\ at' = "returned"
           /\ \/ status' = Code(reply) /\ wire' = <<Code(reply)>>
              \/ status' \in {500, 502} /\ UNCHANGED wire
<1>1. at = "success" /\ wire = <<>> /\ UNCHANGED sends
  BY DEF Respond, Written, Before200
<1>2. Answer \/ ((Return(500) \/ Return(502)) /\ UNCHANGED wire)
  BY DEF Respond, AnswerImage, AnswerOwned, AnswerRead
<1>3. CASE Answer
  BY <1>1, <1>3 DEF Answer, Return, WriteHeader
<1>4. CASE (Return(500) \/ Return(502)) /\ UNCHANGED wire
  BY <1>1, <1>4 DEF Return
<1> QED BY <1>2, <1>3, <1>4

\* The SDK's answer is written, or its error goes back.
LEMMA GeminiResponds ==
    ASSUME Written, Paid, GeminiAnswer
    PROVE  /\ at = "built" /\ sends' = sends + 1 /\ at' = "returned"
           /\ \/ status' = 200 /\ wire' = <<200>>
              \/ status' \in 400..599 /\ UNCHANGED wire
<1>1. at = "built" /\ wire = <<>> /\ sends' = sends + 1
  BY DEF GeminiAnswer, Written, Before200, Sending
<1>2. \/ Return(200) /\ WriteHeader(200)
      \/ \E code \in {400, 401, 429, 500, 502, 504} : Return(code) /\ UNCHANGED wire
  BY DEF GeminiAnswer
<1>3. at' = "returned"
  BY <1>2 DEF Return
<1>4. CASE Return(200) /\ WriteHeader(200)
  BY <1>1, <1>3, <1>4 DEF Return, WriteHeader
<1>5. CASE \E code \in {400, 401, 429, 500, 502, 504} : Return(code) /\ UNCHANGED wire
  BY <1>1, <1>3, <1>5 DEF Return
<1> QED BY <1>2, <1>4, <1>5

LEMMA PaidStep == Written /\ Paid /\ [Next]_vars => Paid'
<1> SUFFICES ASSUME Written, Paid, [Next]_vars PROVE Paid'
  OBVIOUS
<1>1. ASSUME NEW c, Attempt(c) PROVE Paid'
  BY <1>1 DEF Attempt, Paid, Agreeing
<1>2. CASE Translate
  <2>1. /\ UNCHANGED sends
        /\ at' = "built" \/ (at' = "returned" /\ status' \in Untranslatable)
    BY <1>2 DEF Translate, Return
  <2>2. \A code \in Untranslatable : code \in 400..599
    BY DEF Untranslatable
  <2> QED BY <2>1, <2>2 DEF Paid, Agreeing
<1>3. ASSUME NEW r \in Replies, Send(r) \/ Mirror(r) \/ Agree(r) PROVE Paid'
  BY <1>3, PaidSend
<1>4. CASE StartRelay \/ RelayStep \/ ClientLeaves
  BY <1>4 DEF StartRelay, RelayStep, ClientLeaves, attempt, Paid, Agreeing
<1>5. CASE EndRelay
  BY <1>5 DEF EndRelay, Return, Paid, Agreeing, Success
<1>6. ASSUME NEW body \in BodyKinds, Respond(body) PROVE Paid'
  <2>1. Success(Code(reply))
    BY <1>6, Responds DEF Written
  <2> QED BY <1>6, <2>1, Responds DEF Paid, Agreeing
<1>7. CASE GeminiAnswer
  <2>1. sends' \in Nat
    BY <1>7, GeminiResponds DEF Paid
  <2> QED BY <1>7, <2>1, GeminiResponds DEF Paid, Agreeing, Success
<1>8. CASE Recover
  BY <1>8 DEF Recover, Return, Paid, Agreeing
<1>9. CASE Finally
  BY <1>9 DEF Finally, Paid, Agreeing
<1>10. CASE AcceptTerms
  BY <1>10, PaidTerms
<1>11. CASE UNCHANGED vars
  BY <1>11 DEF vars, attempt, Paid, Agreeing
<1> QED
  BY <1>1, <1>2, <1>3, <1>4, <1>5, <1>6, <1>7, <1>8, <1>9, <1>10, <1>11 DEF Next

\* Five things a step can be to the client.
LEMMA IsNothing ==
    ASSUME UNCHANGED <<wire, sends>>, at # "over", at' # "over"
    PROVE  UNCHANGED Promise!promiseVars
BY DEF Promise!promiseVars, Stage, One

LEMMA IsAsking ==
    ASSUME wire = <<>>, UNCHANGED wire, sends' = sends + 1, at # "over", at' # "over"
    PROVE  Promise!PromiseNext
<1>1. Promise!Ask("it")
  BY DEF Promise!Ask, Stage, One
<1> QED BY <1>1 DEF Promise!PromiseNext

LEMMA IsAnswer ==
    ASSUME NEW code, Success(code), wire = <<>>, wire' = <<code>>,
           at # "over", at' # "over",
           (sends > 0 /\ UNCHANGED sends) \/ sends' = sends + 1
    PROVE  Promise!PromiseNext
<1>1. Stage = "open" /\ Stage' = "answered"
  BY DEF Stage
<1>2. Promise!Pass("it", "answered") /\ Promise!Write("it", code)
  BY <1>1 DEF Promise!Pass, Promise!Write, One
<1>3. \/ One(sends)["it"] > 0 /\ UNCHANGED One(sends)
      \/ One(sends)' = [One(sends) EXCEPT !["it"] = @ + 1]
  BY DEF One
<1>4. One(Stage)["it"] = "open" /\ code \in 200..299
  BY <1>1 DEF One, Success
<1>5. Promise!Answer("it")
  BY <1>2, <1>3, <1>4 DEF Promise!Answer
<1> QED BY <1>5 DEF Promise!PromiseNext

LEMMA IsEnd ==
    ASSUME wire # <<>>, UNCHANGED <<wire, sends>>, at # "over", at' = "over"
    PROVE  Promise!PromiseNext
<1>1. Stage = "answered" /\ Stage' = "over"
  BY DEF Stage
<1>2. Promise!End("it")
  BY <1>1 DEF Promise!End, Promise!Pass, One
<1> QED BY <1>2 DEF Promise!PromiseNext

LEMMA IsFailure ==
    ASSUME NEW code \in 400..599, wire = <<>>, wire' = <<code>>, UNCHANGED sends,
           at # "over", at' = "over"
    PROVE  Promise!PromiseNext
<1>1. Stage = "open" /\ Stage' = "over"
  BY DEF Stage
<1>2. Promise!Pass("it", "over") /\ Promise!Write("it", code)
  BY <1>1 DEF Promise!Pass, Promise!Write, One
<1>3. One(Stage)["it"] = "open" /\ UNCHANGED One(sends)
  BY <1>1 DEF One
<1>4. Promise!Fail("it")
  BY Zenon, <1>2, <1>3 DEF Promise!Fail
<1> QED BY <1>4 DEF Promise!PromiseNext

\* What the end of the request is to the client.
LEMMA FinallyKeepsAnswer == ASSUME Written, Paid, Finally PROVE Promise!PromiseNext
<1>1. at = "returned" /\ at' = "over" /\ UNCHANGED sends
  BY DEF Finally
<1>2. wire = IF Success(status) THEN <<status>> ELSE <<>>
  BY <1>1 DEF Written, WrittenIffReturned
<1>3. CASE Success(status)
  <2>1. wire # <<>>
    BY <1>2, <1>3
  <2>2. UNCHANGED wire
    BY <1>3, <2>1 DEF Finally
  <2> QED BY <1>1, <2>1, <2>2, IsEnd
<1>4. CASE ~Success(status)
  <2>1. wire = <<>> /\ status \in 400..599
    BY <1>1, <1>2, <1>4 DEF Paid
  <2>2. wire' = <<504>> \/ wire' = <<status>>
    BY <1>4, <2>1 DEF Finally, WriteHeader
  <2>3. 504 \in 400..599
    OBVIOUS
  <2>4. CASE wire' = <<504>>
    BY ZenonT(40), <1>1, <2>1, <2>3, <2>4, IsFailure
  <2>5. CASE wire' = <<status>>
    BY ZenonT(40), <1>1, <2>1, <2>5, IsFailure
  <2> QED BY <2>2, <2>4, <2>5
<1> QED BY <1>3, <1>4

\* What each step of an attempt is to the client.
LEMMA AttemptKeepsAnswer ==
    Written /\ Paid /\ [Next]_vars => [Promise!PromiseNext]_(Promise!promiseVars)
<1> SUFFICES ASSUME Written, Paid, [Next]_vars
             PROVE  Promise!PromiseNext \/ UNCHANGED Promise!promiseVars
  OBVIOUS
<1>1. ASSUME \/ \E c \in Credentials : Attempt(c)
             \/ Translate \/ RelayStep \/ EndRelay \/ Recover \/ ClientLeaves
      PROVE  UNCHANGED Promise!promiseVars
  <2>1. UNCHANGED <<wire, sends>>
    BY <1>1
    DEF Attempt, Translate, RelayStep, EndRelay, Recover, ClientLeaves, Unwritten, attempt
  <2>2. at # "over" /\ at' # "over"
    BY <1>1
    DEF Attempt, Translate, Return, RelayStep, EndRelay, Recover, ClientLeaves, attempt
  <2> QED BY <2>1, <2>2, IsNothing
<1>2. ASSUME NEW r \in Replies, Send(r) \/ Mirror(r) \/ Agree(r)
      PROVE  Promise!PromiseNext
  <2>1. wire = <<>> /\ UNCHANGED wire /\ at # "over"
    BY <1>2 DEF Send, Mirror, Agree, Unwritten, Written, Before200, Agreeing
  <2>2. at' # "over"
    BY <1>2 DEF Send, Mirror, Agree, Judge, Onward, Return
  <2>3. sends' = sends + 1
    BY <1>2, PaidSend
  <2> QED BY <2>1, <2>2, <2>3, IsAsking
<1>3. CASE StartRelay
  <2>1. /\ at = "success" /\ at' = "relay" /\ wire = <<>> /\ wire' = <<200>>
        /\ sends > 0 /\ UNCHANGED sends
    BY <1>3 DEF StartRelay, WriteHeader, Written, Before200, Paid
  <2>2. Success(200)
    BY DEF Success
  <2> QED BY <2>1, <2>2, IsAnswer
<1>4. ASSUME NEW body \in BodyKinds, Respond(body)
      PROVE  Promise!PromiseNext \/ UNCHANGED Promise!promiseVars
  <2>1. /\ at = "success" /\ UNCHANGED sends /\ at' = "returned"
        /\ wire' = <<Code(reply)>> \/ UNCHANGED wire
    BY <1>4, Responds
  <2>2. Success(Code(reply)) /\ wire = <<>> /\ sends > 0
    BY <2>1 DEF Written, Before200, Paid
  <2>3. CASE wire' = <<Code(reply)>>
    BY <2>1, <2>2, <2>3, IsAnswer
  <2>4. CASE UNCHANGED wire
    BY <2>1, <2>4, IsNothing
  <2> QED BY <2>1, <2>3, <2>4
<1>5. CASE GeminiAnswer
  <2>1. /\ at = "built" /\ sends' = sends + 1 /\ at' = "returned"
        /\ wire' = <<200>> \/ UNCHANGED wire
    BY <1>5, GeminiResponds
  <2>2. wire = <<>> /\ Success(200)
    BY <2>1 DEF Written, Before200, Success
  <2>3. CASE wire' = <<200>>
    BY <2>1, <2>2, <2>3, IsAnswer
  <2>4. CASE UNCHANGED wire
    BY <2>1, <2>2, <2>4, IsAsking
  <2> QED BY <2>1, <2>3, <2>4
<1>6. CASE Finally
  BY <1>6, FinallyKeepsAnswer
<1>7. CASE AcceptTerms
  <2>1. /\ wire = <<>> /\ UNCHANGED wire /\ at # "over" /\ at' # "over"
        /\ sends' = sends + 1 \/ UNCHANGED sends
    BY <1>7, PaidTerms DEF Written, Before200, Agreeing
  <2> QED BY <2>1, IsAsking, IsNothing
<1>8. CASE UNCHANGED vars
  BY <1>8 DEF vars, attempt, Promise!promiseVars, Stage, One
<1> QED BY <1>1, <1>2, <1>3, <1>4, <1>5, <1>6, <1>7, <1>8 DEF Next

(* An attempt in full keeps the promise the loop keeps with attempts of    *)
(* one step: however it translates, repeats, relays or panics, the client  *)
(* has a success of a provider that was asked, and then no other is asked, *)
(* or in the end an error.                                                 *)
THEOREM AttemptsKeepAnswer == Spec => KeepsAnswer
<1>1. Init => Promise!PromiseInit
  BY DEF Init, Promise!PromiseInit, Stage, One
<1>2. Spec => [](Written /\ Paid)
  BY WrittenInit, WrittenStep, PaidInit, PaidStep, PTL DEF Spec
<1>3. Spec => Promise!PromiseSpec
  BY <1>1, <1>2, AttemptKeepsAnswer, PTL DEF Spec, Promise!PromiseSpec
<1> QED BY <1>3 DEF KeepsAnswer
=============================================================================
