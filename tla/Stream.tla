-------------------------------- MODULE Stream --------------------------------
(***************************************************************************)
(* A streamed answer on its way to the client: ProxyStream of              *)
(* internal/proxy/stream.go reads the lines of the provider, the           *)
(* transmuxer of the provider (internal/transmux) turns each into chunks   *)
(* of OpenAI's format, and the client hears them.                          *)
(*                                                                         *)
(* A text is a sequence of words, line breaks and tags; one word is as     *)
(* good as another.  What the provider means is kept beside what the       *)
(* client hears.                                                           *)
(***************************************************************************)
EXTENDS Naturals, Sequences

CONSTANTS
    Providers,    \* the providers whose streams are relayed
    Texts,        \* provider -> the texts its chunks may carry
    Words,        \* provider -> what it says a piece at a time
    Batches,      \* the parts a chunk of Vertex may have
    MaxLines      \* bound: lines of a stream

Word == "word"
Break == "line break"     \* any character JSON escapes
Literal == "escape"        \* its escape, shown as it is written
Open == "<think>"
Shut == "</think>"

Thinking == {"openai", "nvidia"}          \* OpenAI's format, tags in the text
Messages == {"anthropic", "agentrouter"}  \* Anthropic's format
SelfHosted == "ollama_own"        \* Ollama, but in OpenAI's format
Known == Thinking \cup Messages \cup {"vertex", "ollama", SelfHosted, "1minai"}

ASSUME StreamAssumption ==
    /\ Providers \subseteq Known
    /\ \A p \in Providers : /\ Texts[p] \subseteq Seq({Word, Break, Open, Shut}) \ {<<>>}
                           /\ Words[p] \subseteq {Word, Break}
    /\ Batches \subseteq Seq({"thought", "text", "call"})
    /\ MaxLines \in Nat

VARIABLES
    provider,   \* whose stream it is
    phase,      \* "off"; "open"; how ProxyStream returned: "over", at the
                \* provider's own [DONE] "done", after a panic "lost"
    tmx,        \* the transmuxer: inside a think tag, kind of block, tool index
    saw,        \* what has gone by: a tool call, a finish reason
    gone,       \* the client has left
    heard,      \* what the client was sent
    src,        \* where the provider is in its answer
    told        \* history: what the provider has said

relay == <<provider, phase, tmx, saw, gone, heard>>
streamVars == <<relay, src, told>>

(* The client hears items: text, reasoning, the start of a tool call, its  *)
(* arguments, a finish reason, the end.                                    *)
Item(as, what) == [as |-> as, what |-> what]

Text(words) == [k \in DOMAIN words |-> Item("text", words[k])]

Reasoning(words) == [k \in DOMAIN words |-> Item("reasoning", words[k])]

Finish(reason) == <<Item("finish", reason)>>

Done == <<Item("done", "")>>

Kinds(items) == { items[k].as : k \in DOMAIN items }

\* buildDelta escapes what jsonparser.Get returns escaped already.
Raw(words) == [k \in DOMAIN words |-> IF words[k] = Break THEN Literal ELSE words[k]]

\* What the transmuxer returns: the items, and its next state.
Result(items, t) == [items |-> items, tmx |-> t]
-----------------------------------------------------------------------------
(* OpenAITransmuxer and NvidiaTransmuxer.                                  *)

Has(tag, text) == \E k \in DOMAIN text : text[k] = tag

Before(tag, text) ==
    SubSeq(text, 1, (CHOOSE k \in DOMAIN text :
        text[k] = tag /\ \A j \in 1..(k - 1) : text[j] # tag) - 1)

After(tag, text) == SubSeq(text, Len(Before(tag, text)) + 2, Len(text))

\* One delta carries reasoning or text, never both.
OneOf(reasoning, text) == IF reasoning # <<>> THEN Reasoning(Raw(reasoning)) ELSE Text(Raw(text))

Within(t) == [t EXCEPT !.inside = TRUE]
Without(t) == [t EXCEPT !.inside = FALSE]

\* A tag that closes what this chunk opened: only NVIDIA's looks for it.
Opened(p, rest, t) ==
    IF p = "nvidia" /\ Has(Shut, rest)
      THEN Result(OneOf(Before(Shut, rest), After(Shut, rest)), Without(t))
      ELSE Result(Reasoning(Raw(rest)), Within(t))

\* Mutant of Translated: the state outlives the closing tag.
TranslatedInside(p, text, t) ==
    IF ~t.inside
      THEN IF Has(Open, text) THEN Opened(p, After(Open, text), t) ELSE Result(Text(text), t)
      ELSE IF Has(Shut, text) THEN Result(OneOf(Before(Shut, text), After(Shut, text)), t)
           ELSE Result(Reasoning(Raw(text)), t)

Translated(p, text, t) ==
    IF ~t.inside
      THEN IF Has(Open, text) THEN Opened(p, After(Open, text), t) ELSE Result(Text(text), t)
      ELSE IF Has(Shut, text) THEN Result(OneOf(Before(Shut, text), After(Shut, text)), Without(t))
           ELSE Result(Reasoning(Raw(text)), t)
-----------------------------------------------------------------------------
(* AnthropicTransmuxer: by the type of the event.                          *)

MessageStart(t) == Result(<<>>, [t EXCEPT !.tool = 0, !.block = ""])

\* The start of a block may carry some of its text.
BlockStart(kind, text, t) ==
    Result(CASE kind = "thinking" -> Reasoning(Raw(text))
             [] kind = "text"     -> Text(Raw(text))
             [] kind = "tool_use" -> <<Item("call", t.tool)>>,
           [t EXCEPT !.block = kind])

BlockDelta(kind, word, t) ==
    Result(CASE kind = "thinking" -> Reasoning(Raw(<<word>>))
             [] kind = "text"     -> Text(Raw(<<word>>))
             [] kind = "tool_use" -> <<Item("args", t.tool)>>, t)

BlockStop(t) ==
    Result(<<>>, [t EXCEPT !.block = "", !.tool = IF t.block = "tool_use" THEN @ + 1 ELSE @])

StopReason(reason) ==
    CASE reason \in {"end_turn", "stop_sequence", ""} -> "stop"
      [] reason = "max_tokens" -> "length"
      [] reason = "tool_use" -> "tool_calls"

MessageDelta(reason, t) == Result(Finish(StopReason(reason)), t)

ErrorEvent(t) == Result(Text(<<Word>>), t)
-----------------------------------------------------------------------------
(* GeminiTransmuxer, for Vertex (Gemini goes through the SDK): every part  *)
(* of a chunk, then how it finished.                                       *)

Part(part, word, t) ==
    CASE part = "thought" -> Result(Reasoning(Raw(<<word>>)), t)
      [] part = "text"    -> Result(Text(Raw(<<word>>)), t)
      [] part = "call"    -> Result(<<Item("call", t.tool), Item("args", t.tool)>>,
                                    [t EXCEPT !.tool = @ + 1])

Parts(parts, word, t) ==
    LET upTo[k \in 0..Len(parts)] ==
            IF k = 0 THEN Result(<<>>, t)
            ELSE LET n == Part(parts[k], word, upTo[k - 1].tmx)
                 IN  Result(upTo[k - 1].items \o n.items, n.tmx)
    IN  upTo[Len(parts)]

\* Usage comes in a chunk of its own, with the reason again.
GeminiFinish(reason, usage) ==
    IF reason = "" THEN <<>> ELSE IF usage THEN Finish(reason) \o Finish(reason) ELSE Finish(reason)

GeminiChunk(parts, word, reason, usage, t) ==
    LET r == Parts(parts, word, t) IN Result(r.items \o GeminiFinish(reason, usage), r.tmx)

\* An error in the stream is text for the client, and the end.
GeminiError(t) == Result(Text(<<Word>>) \o Finish("stop"), t)
-----------------------------------------------------------------------------
(* OllamaTransmuxer and OneMinAITransmuxer.                                *)

OllamaChunk(text, done, t) ==
    Result(Text(text) \o IF done THEN Finish("stop") ELSE <<>>, t)

\* A line of none of Ollama's own shapes is nothing, without an error.
OllamaOther(t) == Result(<<>>, t)

OneMinContent(word, t) == Result(Text(<<word>>), t)

OneMinDone(t) == Result(Finish("stop"), t)

\* TranslateChunk returns an error, and the line goes to the client as it is.
OneMinError(t) == Result(<<Item("raw", "")>>, t)
-----------------------------------------------------------------------------
(* ProxyStream.                                                            *)

Nowhere == [inside |-> FALSE, block |-> "", tool |-> 0]

Start ==
    [inside |-> FALSE, mixed |-> FALSE, block |-> "", calls |-> 0, lines |-> 0, ended |-> "no"]

StreamInit ==
    /\ provider = "none"
    /\ phase = "off"
    /\ tmx = Nowhere
    /\ saw = [calls |-> FALSE, finish |-> FALSE]
    /\ gone = FALSE
    /\ heard = <<>>
    /\ src = Start
    /\ told = <<>>

\* The headers are written and NewTransmuxer makes the provider's.
StreamStart(p) ==
    /\ provider' = p
    /\ phase' = "open"
    /\ tmx' = Nowhere
    /\ saw' = [calls |-> FALSE, finish |-> FALSE]
    /\ src' = Start
    /\ UNCHANGED <<gone, heard, told>>

\* Writes to a client that left are lost.
Write(items) == heard' = IF gone THEN heard ELSE heard \o items

\* The relay of one line: what it became is sent, and a write that fails
\* ends the relay (of events; nobody looks at the writes of Ollama's objects).
Relay(r) ==
    /\ phase = "open"
    /\ tmx' = r.tmx
    /\ saw' = [calls  |-> saw.calls \/ "call" \in Kinds(r.items) \/ "args" \in Kinds(r.items),
               finish |-> saw.finish \/ "finish" \in Kinds(r.items)]
    /\ Write(r.items)
    /\ phase' = IF gone /\ r.items # <<>> /\ provider # "ollama" THEN "over" ELSE phase
    /\ UNCHANGED <<provider, gone>>

\* The provider says something; src and told keep what it means.
Says(next, items) ==
    /\ src.lines < MaxLines
    /\ src.ended = "no"
    /\ src' = [next EXCEPT !.lines = src.lines + 1]
    /\ told' = told \o items

\* A text as it is meant: tags switch between reasoning and text.
Meaning(m, token) ==
    IF token \in {Open, Shut}
      THEN [m EXCEPT !.inside = (token = Open)]
      ELSE [m EXCEPT !.items = @ \o IF m.inside THEN Reasoning(<<token>>) ELSE Text(<<token>>)]

Meant(text) ==
    LET upTo[k \in 0..Len(text)] ==
            IF k = 0 THEN [items |-> <<>>, inside |-> src.inside]
            ELSE Meaning(upTo[k - 1], text[k])
    IN  upTo[Len(text)]

\* Tags open and close in turn.
Balanced(text) ==
    \A k \in DOMAIN text :
        text[k] \in {Open, Shut} => (text[k] = Shut) = Meant(SubSeq(text, 1, k - 1)).inside

(* The texts OpenAI's and NVIDIA's transmuxers follow: words on one side   *)
(* of a tag, or for NVIDIA a thought that is whole or empty.  Of others    *)
(* they lose words or show a tag, and may take a side for the other.       *)
Follow(p, words) ==
    {words, <<Open>> \o words, <<Shut>> \o words, words \o <<Shut>>}
      \cup IF p = "nvidia"
             THEN {<<Open>> \o (<<Shut>> \o words), <<Open>> \o (words \o <<Shut>>)}
             ELSE {}

Followed(p, text) ==
    \E from \in 1..3 : \E to \in 0..Len(text) :
        LET words == SubSeq(text, from, to)
        IN  /\ ~Has(Open, words) /\ ~Has(Shut, words)
            /\ text \in Follow(p, words)

TextChunk(text) ==
    /\ provider \in Thinking
    /\ Balanced(text)
    /\ Says([src EXCEPT !.inside = Meant(text).inside, !.mixed = @ \/ ~Followed(provider, text)],
            Meant(text).items)
    /\ Relay(Translated(provider, text, tmx))

\* Reasoning in its own field, a finish reason: passed on as they are.
NativeChunk(item) ==
    /\ provider \in Thinking
    /\ ~src.inside
    /\ Says([src EXCEPT !.ended = IF item.as = "finish" THEN item.what ELSE @], IF item.as = "finish" THEN <<>> ELSE <<item>>)
    /\ Relay(Result(<<item>>, tmx))

StartMessage ==
    /\ provider \in Messages
    /\ src.lines = 0
    /\ Says([src EXCEPT !.block = "", !.calls = 0], <<>>)
    /\ Relay(MessageStart(tmx))

StartBlock(kind, text) ==
    /\ provider \in Messages
    /\ src.block = ""
    /\ Says([src EXCEPT !.block = kind, !.calls = IF kind = "tool_use" THEN @ + 1 ELSE @],
            CASE kind = "thinking" -> Reasoning(text)
              [] kind = "text" -> Text(text)
              [] kind = "tool_use" -> <<Item("call", src.calls)>>)
    /\ Relay(BlockStart(kind, text, tmx))

ContinueBlock(word) ==
    /\ provider \in Messages
    /\ src.block # ""
    /\ Says(src, CASE src.block = "thinking" -> Reasoning(<<word>>)
                   [] src.block = "text" -> Text(<<word>>)
                   [] src.block = "tool_use" -> <<Item("args", src.calls - 1)>>)
    /\ Relay(BlockDelta(src.block, word, tmx))

StopBlock ==
    /\ provider \in Messages
    /\ src.block # ""
    /\ Says([src EXCEPT !.block = ""], <<>>)
    /\ Relay(BlockStop(tmx))

EndMessage(reason) ==
    /\ provider \in Messages
    /\ src.block = ""
    /\ Says([src EXCEPT !.ended = reason], <<>>)
    /\ Relay(MessageDelta(reason, tmx))

FailMessage ==
    /\ provider \in Messages
    /\ Says([src EXCEPT !.ended = "error"], Text(<<Word>>))
    /\ Relay(ErrorEvent(tmx))

\* What the parts of a chunk mean: each call has a number of its own.
MeantPart(m, part, word) ==
    CASE part = "thought" -> [m EXCEPT !.items = @ \o Reasoning(<<word>>)]
      [] part = "text"    -> [m EXCEPT !.items = @ \o Text(<<word>>)]
      [] part = "call"    -> [items |-> m.items \o <<Item("call", m.calls), Item("args", m.calls)>>,
                              calls |-> m.calls + 1]

MeantParts(parts, word) ==
    LET upTo[k \in 0..Len(parts)] ==
            IF k = 0 THEN [items |-> <<>>, calls |-> src.calls]
            ELSE MeantPart(upTo[k - 1], parts[k], word)
    IN  upTo[Len(parts)]

SendParts(parts, word, reason, usage) ==
    /\ provider = "vertex"
    /\ Says([src EXCEPT !.ended = IF reason = "" THEN @ ELSE reason,
                        !.calls = MeantParts(parts, word).calls],
            MeantParts(parts, word).items)
    /\ Relay(GeminiChunk(parts, word, reason, usage, tmx))

FailVertex ==
    /\ provider = "vertex"
    /\ Says([src EXCEPT !.ended = "error"], Text(<<Word>>))
    /\ Relay(GeminiError(tmx))

SendOllama(text, done) ==
    /\ provider = "ollama"
    /\ Says([src EXCEPT !.ended = IF done THEN "stop" ELSE @], Text(text))
    /\ Relay(OllamaChunk(text, done, tmx))

\* An Ollama of one's own is asked at /v1 and answers as OpenAI does, in
\* lines the transmuxer of Ollama makes nothing of.
SendSelfHosted(text, done) ==
    /\ provider = SelfHosted
    /\ Says([src EXCEPT !.ended = IF done THEN "stop" ELSE @], Text(text))
    /\ Relay(OllamaOther(tmx))

SendOneMin(event, word) ==
    /\ provider = "1minai"
    /\ Says([src EXCEPT !.ended = IF event = "content" THEN @ ELSE event],
            CASE event = "content" -> Text(<<word>>)
              [] event = "done" -> <<>>
              [] event = "error" -> <<Item("raw", "")>>)
    /\ Relay(CASE event = "content" -> OneMinContent(word, tmx)
               [] event = "done" -> OneMinDone(tmx)
               [] event = "error" -> OneMinError(tmx))

\* Mutant of RelayDone: the relay goes on to its own end.
RelayDoneOpen ==
    /\ phase = "open"
    /\ Write(Done)
    /\ UNCHANGED <<provider, phase, tmx, saw, gone, src, told>>

\* "data: [DONE]", of whichever provider, ends the relay at once: no finish is
\* made up for it.
RelayDone ==
    /\ phase = "open"
    /\ Write(Done)
    /\ phase' = "done"
    /\ UNCHANGED <<provider, tmx, saw, gone, src, told>>

\* Mutant of Closing: a finish is made up whether or not one was sent.
ClosingAnyway ==
    (IF provider \in Messages \cup {"1minai"} THEN Finish("stop") ELSE <<>>) \o Done

\* What is added when the provider closes, breaks or sends too long a line.
Closing ==
    (IF provider = "1minai" THEN Finish("stop")
     ELSE IF provider \in Messages /\ ~saw.finish
       THEN Finish(IF saw.calls THEN "tool_calls" ELSE "stop")
     ELSE <<>>) \o Done

Close ==
    /\ phase = "open"
    /\ Write(Closing)
    /\ phase' = "over"
    /\ UNCHANGED <<provider, tmx, saw, gone, src, told>>

\* A panic while a line is converted is recovered, and the end announced.
Panic ==
    /\ phase = "open"
    /\ Write(Done)
    /\ phase' = "lost"
    /\ UNCHANGED <<provider, tmx, saw, gone, src, told>>


Reasons == {"end_turn", "tool_use", "max_tokens", ""}

StreamNext ==
    \/ \E text \in Texts[provider] : TextChunk(text)
    \/ NativeChunk(Item("reasoning", Word)) \/ NativeChunk(Item("finish", "stop"))
    \/ StartMessage \/ StartBlock("tool_use", <<>>)
    \/ \E word \in Words[provider] :
           \/ \E kind \in {"text", "thinking"} : \E text \in {<<>>, <<word>>} : StartBlock(kind, text)
           \/ ContinueBlock(word)
           \/ \E parts \in Batches : \E reason \in {"", "stop"} : \E usage \in BOOLEAN :
                  SendParts(parts, word, reason, usage)
           \/ \E text \in {<<>>, <<word>>} : \E done \in BOOLEAN :
                  SendOllama(text, done) \/ SendSelfHosted(text, done)
           \/ \E event \in {"content", "done", "error"} : SendOneMin(event, word)
    \/ StopBlock \/ FailMessage \/ FailVertex
    \/ \E reason \in Reasons : EndMessage(reason)
    \/ RelayDone \/ Close \/ Panic
-----------------------------------------------------------------------------
Positions(as) == { k \in DOMAIN heard : heard[k].as = as }

Once(as) == \E k \in DOMAIN heard : Positions(as) = {k}

\* What the provider said of items that were heard: what ends them is made up.
Said(items, item) == IF item.as \in {"finish", "done"} THEN items ELSE Append(items, item)

Content(items) ==
    LET upTo[k \in 0..Len(items)] == IF k = 0 THEN <<>> ELSE Said(upTo[k - 1], items[k])
    IN  upTo[Len(items)]

\* Items in the formats whose texts are escaped twice: a line break is heard
\* as its escape.  Ollama's and 1min.ai's are heard as they are said.
Shown(items) ==
    IF provider \in {"ollama", "1minai"} THEN items
    ELSE [k \in DOMAIN items |-> IF items[k].as \in {"text", "reasoning"} /\ items[k].what = Break
                                 THEN Item(items[k].as, Literal) ELSE items[k]]

\* A client that stays hears all the provider says, in its order and but for
\* escapes: reasoning as reasoning and text as text across tags and chunks,
\* every tool call once and the arguments under the call they belong to
\* (transmux package), until a chunk has words on both sides of a tag; of an
\* Ollama of one's own it hears nothing (ollama.go:84).
Faithful ==
    ~gone /\ ~src.mixed =>
        IF provider = SelfHosted THEN Content(heard) = <<>>
        ELSE Shown(Content(heard)) = Shown(told)

\* "causing the client to see literal `\n` instead of actual newlines"
\* (ollama.go:38): no line break is heard as its escape.
BreaksKept ==
    \A k \in DOMAIN heard : heard[k].as \in {"text", "reasoning"} => heard[k].what # Literal

\* "Ensure [DONE] is sent even if upstream didn't send it" (stream.go:274):
\* whichever way a stream ends, the client hears [DONE] once and nothing after.
DoneOnce ==
    /\ Positions("done") \subseteq {Len(heard)}
    /\ phase \in {"over", "done", "lost"} /\ ~gone => Once("done")

\* A stream in Anthropic's format has one finish reason though the provider
\* closes without one, and it is "tool_calls" if tools were called, or the
\* client would not execute them (stream.go:254); a stream of 1min.ai has one
\* at least.  After [DONE] of the provider's own nothing is made up
\* (stream.go:111-116): there is a finish if and only if the provider gave one.
FinishTold ==
    /\ phase = "over" /\ ~gone =>
        /\ provider \in Messages => Once("finish")
        /\ provider = "1minai" => "finish" \in Kinds(heard)
        /\ provider \in Messages /\ src.calls > 0 /\ src.ended \in {"no", "error"} =>
               Item("finish", "tool_calls") \in { heard[k] : k \in DOMAIN heard }
    /\ phase = "done" /\ ~gone /\ provider \in Messages =>
        IF src.ended \in {"no", "error"} THEN Positions("finish") = {} ELSE Once("finish")
=============================================================================
