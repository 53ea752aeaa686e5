---------------------------- MODULE ModelRoutingMC ----------------------------
(***************************************************************************)
(* Small catalogues for ModelRouting: one account per provider, listing    *)
(* the names that differ in namespace, publisher, tag and usability.       *)
(***************************************************************************)
EXTENDS ModelRouting, TLC

Entry(path, tag, kind) == [name |-> Name(path, tag), kind |-> kind, aliases |-> {}]

Listed(path, tag) == Entry(path, tag, "chat")

Account(provider, prefix, listing) ==
    [provider |-> provider, prefix |-> prefix, listing |-> listing]

Llama == Listed(<<"meta", "llama">>, "")
CfLlama == Listed(<<"@cf", "meta", "llama">>, "")
Gpt == Listed(<<"openai", "gpt">>, "")
BareGpt == Listed(<<"gpt">>, "")
Free == Listed(<<"deepseek", "r1">>, ":free")
Gratis == Entry(<<"openai", "oss">>, "", "free")
Nemotron == Listed(<<"nvidia", "nemotron">>, "")
Paid == Listed(<<"openai", "o1">>, "")
Tagged == Listed(<<"llama">>, ":latest")
Large == Listed(<<"llama">>, ":70b")
Flash == Entry(<<"gemini-flash">>, "", "generates")
Embed == Entry(<<"gemini-embed">>, "", "embeds")
Aqa == Entry(<<"gemini-aqa">>, "", "answers")
Mini == [name |-> Name(<<"gpt-mini">>, ""), kind |-> "chat",
         aliases |-> {Name(<<"openai", "gpt">>, "")}]
Saaras == Listed(<<"sarvam-m">>, "")

New == Entry(<<"meta", "new">>, "", "generates")
Later == {New.name}

All ==
    {Account("nvidia", "", {Llama, Nemotron, New}), Account("ollama", "", {Tagged, Large, New}),
     Account("1minai", "", {}), Account("cloudflare", "", {CfLlama, New}),
     Account("sarvam", "", {Saaras}), Account("puter", "", {Mini, New}),
     Account("agentrouter", "", {BareGpt, New}), Account("zenmux", "", {Gpt, New}),
     Account("gemini", "", {Flash, Embed, Aqa, New}), Account("corp", "corp", {Gpt, New}),
     Account("jiekou", "jiekou", {BareGpt, New}),
     Account("openrouter", "", {Free, Gratis, Paid})}
Public == {Name(<<"openai", "gpt">>, "")}
CodeName == Name(<<"1min", "gpt">>, ":code")
Manifest ==
    (Name(<<"1min", "gpt">>, "") :> BareGpt.name) @@ (CodeName :> BareGpt.name)
    @@ (Name(<<"1min", "flux">>, "") :> Name(<<"bfl", "flux">>, ""))
Catalogue == {Name(<<"gpt">>, ""), Name(<<"claude">>, "")}

KnownNamespaces ==
    {"nvidia", "openrouter", "ollama", "gemini", "1min", "cloudflare", "sarvam", "puter",
     "agentrouter", "zenmux", "jiekou"}
Publishers == {"meta", "openai", "deepseek"}

Asked == {Name(<<"gemini", "gemini-x">>, ""), Name(<<"gemini-x">>, ""),
          Name(<<"gpt", "new">>, ""), Name(<<"gpt-turbo">>, "")}
Unknown == Name(<<"gemini-x">>, "") :> Name(<<"gemini-flash">>, "")
Dashes == Name(<<"gpt-turbo">>, "") :> <<Name(<<"gpt">>, "")>>
Small == Name(<<"gpt-mini">>, "")

\* NVIDIA lists its own models under its own namespace.
OwnModel == {Account("nvidia", "", {Llama, Nemotron})}
=============================================================================
