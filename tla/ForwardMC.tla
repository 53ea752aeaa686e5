------------------------------ MODULE ForwardMC ------------------------------
(***************************************************************************)
(* Credentials that take every path of forwardRequest, and the texts of    *)
(* streams: tags alone, at an end of a chunk, a whole thought in one       *)
(* chunk, or words on both sides of a tag.                                 *)
(***************************************************************************)
EXTENDS Forward, TLC

Cred(p) == [provider |-> p, native |-> FALSE, vision |-> FALSE]
Cloudflare(native, vision) == [provider |-> "cloudflare", native |-> native, vision |-> vision]

Relayed == Known \ {"anthropic"}
All == {Cred(p) : p \in (Relayed \ {SelfHosted}) \cup {"gemini"}}
         \cup {[provider |-> "ollama", native |-> TRUE, vision |-> FALSE]}
         \cup {Cloudflare(TRUE, FALSE), Cloudflare(FALSE, FALSE), Cloudflare(TRUE, TRUE)}
AtAnEnd == {<<Break>>, <<Open>>, <<Shut>>, <<Open, Word>>, <<Break, Shut>>, <<Shut, Word>>}
Whole == {<<Open, Word, Shut>>, <<Open, Shut, Word>>}
Mixed == {<<Word, Open, Word>>, <<Open, Word, Shut, Word>>}
ChunkTexts ==
    [p \in Relayed |-> CASE p = "openai" -> AtAnEnd \cup Mixed
                       [] p = "nvidia" -> AtAnEnd \cup Whole \cup Mixed
                       [] OTHER -> {}]
SomeBatches ==
    {<<>>, <<"text">>, <<"thought", "text">>, <<"call">>, <<"text", "call", "call">>}
SomeWords == [p \in Relayed |-> {Break}]

Anthropic == {"anthropic"}
OneAnthropic == {Cred("anthropic")}
NoTexts == [p \in Anthropic |-> {}]
Breaks == [p \in Anthropic |-> {Word, Break}]
=============================================================================
