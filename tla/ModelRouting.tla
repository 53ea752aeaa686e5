----------------------------- MODULE ModelRouting -----------------------------
(***************************************************************************)
(* The way of a model's name through the gateway: discovery turns what a   *)
(* provider lists into routing patterns (internal/credentials, one         *)
(* function per provider, and provider_fetch.go for the re-discovery), the *)
(* handler finds the pool of a requested name and strips the provider's    *)
(* namespace, a switch to another pool rewrites the name, and              *)
(* forwardRequest derives from it what the provider is asked for.          *)
(*                                                                         *)
(* Nothing in the code keeps the two ends together: what discovery adds to *)
(* a name, another package has to take off again.                          *)
(***************************************************************************)
EXTENDS Naturals, Sequences, FiniteSets, SequencesExt

CONSTANTS
    ProviderAccounts,  \* accounts: [provider, prefix, listing]
    News,         \* names providers list only after some time
    Rescanned,    \* those of them the re-discovery may reach
    Docs,         \* names in the public catalogue of Cloudflare
    Defaults,     \* names of AgentRouter's catalogue in the code
    OneMinAI,     \* pattern -> model, the manifest of 1min.ai in the code
    Known,        \* provider namespaces of model_matcher.go
    Vendors,      \* publisher namespaces of model_matcher.go
    Unlisted,     \* names a client may ask for that no provider lists
    Mapped,       \* name -> the Gemini model an unknown Gemini name stands for
    Families,     \* segment -> its shorter dash prefixes, longest first
    Downgrade,    \* gpt-4o-mini, the small model of Puter
    MaxBound,     \* bound: accounts bound at one time
    MaxSwitches   \* bound: switches of one request to another pool

(* A name is its path between slashes and its tag, if any: ":free" of      *)
(* OpenRouter, ":latest" or ":70b" of Ollama, ":code" of 1min.ai.          *)
Name(path, tag) == [path |-> path, tag |-> tag]

Under(ns, n) == [n EXCEPT !.path = <<ns>> \o @]

IsUnder(ns, n) == Len(n.path) > 1 /\ n.path[1] = ns

\* strings.TrimPrefix(n, ns + "/")
Trim(ns, n) == IF IsUnder(ns, n) THEN [n EXCEPT !.path = Tail(@)] ELSE n

Untagged(n) == [n EXCEPT !.tag = ""]

\* The tags that do not tell models apart; ":70b" and ":code" do.
Releases == {":free", ":latest", ":beta", ":preview"}

\* ExtractCoreModelAndVersion: whoever publishes or serves it.
Core(n) == [model |-> Last(n.path), variant |-> IF n.tag \in Releases THEN "" ELSE n.tag]

IsName(n) == n \in [path : Seq(STRING) \ {<<>>}, tag : STRING]

ASSUME NameAssumption ==
    /\ \A a \in ProviderAccounts : \A e \in a.listing :
           IsName(e.name) /\ \A n \in e.aliases : IsName(n)
    /\ \A n \in Docs \cup Defaults \cup Unlisted \cup {Downgrade} : IsName(n)
    /\ \A p \in DOMAIN OneMinAI : IsName(p) /\ IsName(OneMinAI[p])
    /\ Rescanned \subseteq ProviderAccounts
    /\ MaxBound \in Nat
    /\ MaxSwitches \in Nat

VARIABLES
    bindings,   \* rows of credentials: an account bound to a pool's pattern
    published,  \* the news are out
    refreshed,  \* history: accounts whose listing has been re-discovered as it is
    req         \* the request under way

routingVars == <<bindings, published, refreshed, req>>

Pooled == { b.pattern : b \in bindings }

Bind(a, names) == { [pattern |-> n, account |-> a] : n \in names }

Both(ns, names) == names \cup { Under(ns, n) : n \in names }

\* A listing may be namespaced where a name begins with the namespace.
Split(ns, names) ==
    UNION { IF IsUnder(ns, n) THEN {n, Trim(ns, n)} ELSE {n, Under(ns, n)} : n \in names }
-----------------------------------------------------------------------------
(* What a provider lists when it is asked: it answers, Cloudflare's        *)
(* public page does not, it has an outage, or it refuses the key.  The     *)
(* empty set is an error.                                                  *)
Answers == {"ok", "undocumented", "down", "refused"}

Answered(answer) == answer \in {"ok", "undocumented"}

Entries(a) == { e \in a.listing : published \/ e.name \notin News }

Names(a) == { e.name : e \in Entries(a) }

Listing(a, answer) == IF Answered(answer) THEN Names(a) ELSE {}

OfKind(a, kinds) == { e.name : e \in { x \in Entries(a) : x.kind \in kinds } }

\* By the name's own tag, or by its price.
IsFree(e) == e.name.tag = ":free" \/ e.kind = "free"

ListOpenRouter(a, answer) == { e.name : e \in { x \in Entries(a) : Answered(answer) /\ IsFree(x) } }

\* gemini_discovery.go: models that generate or embed.
ListGemini(a, answer) == IF Answered(answer) THEN OfKind(a, {"generates", "embeds"}) ELSE {}

ListOllama(a, answer) == Listing(a, answer)

\* The account's Workers AI models, and the public page.
ListCloudflare(a, answer) == Listing(a, answer)

ListDocs(answer) == IF answer # "undocumented" THEN Docs ELSE {}

ListPuter(a, answer) == Listing(a, answer)

Aliases(a) == UNION { e.aliases : e \in Entries(a) }

\* AgentRouter's own catalogue stands in for any failure.
ListAgentRouter(a, answer) ==
    IF Answered(answer) THEN { Trim("agentrouter", n) : n \in Names(a) } ELSE Defaults

\* 1min.ai lists nothing: a model is registered as its pattern and as itself.
OneMinAIModels == { OneMinAI[p] : p \in DOMAIN OneMinAI }

OneMinAIPatterns == DOMAIN OneMinAI \cup OneMinAIModels

VerifyOneMinAI(answer) == Answered(answer)

VerifySarvam(answer) == answer # "refused"

VerifyAgentRouter(answer) == answer # "refused"
-----------------------------------------------------------------------------
(* DiscoverAndRegister* of each provider: the patterns it registers.       *)

RegisterNvidia(a, answer) == Split("nvidia", Listing(a, answer))

RegisterOllama(a, answer) == Both("ollama", ListOllama(a, answer))

RegisterOpenRouter(a, answer) ==
    ListOpenRouter(a, answer) \cup { Untagged(n) : n \in ListOpenRouter(a, answer) }

\* Of a manifest in the code, once the key is known to work.
RegisterOneMinAI(a, answer) == IF VerifyOneMinAI(answer) THEN OneMinAIPatterns ELSE {}

RegisterSarvam(a, answer) == IF VerifySarvam(answer) THEN Both("sarvam", Names(a)) ELSE {}

RegisterPuter(a, answer) == { Under("puter", n) : n \in ListPuter(a, answer) }

\* One of the two listings may fail.
RegisterCloudflare(a, answer) ==
    Both("cloudflare", ListCloudflare(a, answer) \cup ListDocs(answer))

RegisterZenMux(a, answer) == Both("zenmux", Listing(a, answer))

RegisterGemini(a, answer) == Both("gemini", ListGemini(a, answer))

\* An alias that is a pool already is not shadowed.
RegisterAgentRouter(a, answer) ==
    IF VerifyAgentRouter(answer)
      THEN { Under("agentrouter", n) : n \in ListAgentRouter(a, answer) }
             \cup (ListAgentRouter(a, answer) \ Pooled)
      ELSE {}

RegisterCustom(a, answer) ==
    IF a.prefix = "" THEN Listing(a, answer) ELSE Split(a.prefix, Listing(a, answer))

Registered(a, answer) ==
    CASE a.provider = "nvidia"      -> RegisterNvidia(a, answer)
      [] a.provider = "ollama"      -> RegisterOllama(a, answer)
      [] a.provider = "openrouter"  -> RegisterOpenRouter(a, answer)
      [] a.provider = "1minai"      -> RegisterOneMinAI(a, answer)
      [] a.provider = "sarvam"      -> RegisterSarvam(a, answer)
      [] a.provider = "puter"       -> RegisterPuter(a, answer)
      [] a.provider = "cloudflare"  -> RegisterCloudflare(a, answer)
      [] a.provider = "zenmux"      -> RegisterZenMux(a, answer)
      [] a.provider = "gemini"      -> RegisterGemini(a, answer)
      [] a.provider = "agentrouter" -> RegisterAgentRouter(a, answer)
      [] OTHER                      -> RegisterCustom(a, answer)
-----------------------------------------------------------------------------
(* The same providers again in fetchProviderDiscoveredModels.              *)

FetchNvidia(a, answer) == RegisterNvidia(a, answer)

\* "X:latest" is registered as X as well.
FetchOllama(a, answer) ==
    Both("ollama", Listing(a, answer) \cup { Untagged(n) : n \in Listing(a, answer) })

FetchOpenRouter(a, answer) == Both("openrouter", RegisterOpenRouter(a, answer))

\* The manifests are read without asking anybody.
FetchOneMinAI(a) == OneMinAIPatterns

FetchSarvam(a) == Both("sarvam", Names(a))

FetchCloudflare(a, answer) == Both("cloudflare", Listing(a, answer))

FetchPuter(a, answer) ==
    { Under("puter", n) : n \in ListPuter(a, answer)
                                  \cup (IF Answered(answer) THEN Aliases(a) ELSE {}) }

\* Here the key is not verified.
FetchAgentRouter(a, answer) == Both("agentrouter", ListAgentRouter(a, answer))

\* Mutant of FetchZenMux: the re-discovery forgets the clean alias.
FetchZenMuxPrefixed(a, answer) == { Under("zenmux", n) : n \in Listing(a, answer) }

FetchZenMux(a, answer) == RegisterZenMux(a, answer)

FetchGemini(a, answer) == RegisterGemini(a, answer)

\* A provider without a prefix gets its label for one, unless it is "custom".
FetchCustom(a, answer) ==
    LET ns == IF a.prefix = "" /\ a.provider # "custom" THEN a.provider ELSE a.prefix
    IN IF ns = "" THEN Listing(a, answer) ELSE Split(ns, Listing(a, answer))

Fetched(a, answer) ==
    CASE a.provider = "nvidia"      -> FetchNvidia(a, answer)
      [] a.provider = "ollama"      -> FetchOllama(a, answer)
      [] a.provider = "openrouter"  -> FetchOpenRouter(a, answer)
      [] a.provider = "1minai"      -> FetchOneMinAI(a)
      [] a.provider = "sarvam"      -> FetchSarvam(a)
      [] a.provider = "cloudflare"  -> FetchCloudflare(a, answer)
      [] a.provider = "puter"       -> FetchPuter(a, answer)
      [] a.provider = "agentrouter" -> FetchAgentRouter(a, answer)
      [] a.provider = "zenmux"      -> FetchZenMux(a, answer)
      [] a.provider = "gemini"      -> FetchGemini(a, answer)
      [] OTHER                      -> FetchCustom(a, answer)
-----------------------------------------------------------------------------
NoRequest == [stage |-> "none"]

RoutingInit ==
    /\ bindings = {}
    /\ published = FALSE
    /\ refreshed = {}
    /\ req = NoRequest

Bound == { b.account : b \in bindings }

(* An administrator adds an account, or adds it again: the discovery of    *)
(* its provider runs.                                                      *)
Register(a, answer) ==
    /\ req = NoRequest
    /\ a \in Bound \/ Cardinality(Bound) < MaxBound
    /\ Registered(a, answer) # {}
    /\ bindings' = bindings \cup Bind(a, Registered(a, answer))
    /\ UNCHANGED <<published, refreshed, req>>

\* Providers list new models.
Publish ==
    /\ req = NoRequest
    /\ ~published
    /\ published' = TRUE
    /\ refreshed' = {}
    /\ UNCHANGED <<bindings, req>>

\* The scan of all accounts reaches this one.
ReDiscover(a, answer) ==
    /\ req = NoRequest
    /\ a \in Bound
    /\ bindings' = bindings \cup Bind(a, Fetched(a, answer))
    /\ refreshed' = IF Answered(answer) THEN refreshed \cup {a} ELSE refreshed
    /\ UNCHANGED <<published, req>>

\* The administrator deletes the rows of an account.
DeleteAccount(a) ==
    /\ req = NoRequest
    /\ a \in Bound
    /\ bindings' = { b \in bindings : b.account # a }
    /\ refreshed' = refreshed \ {a}
    /\ UNCHANGED <<published, req>>
-----------------------------------------------------------------------------
\* The shorter slash prefixes of a name, longest first.
Shorter(n) == [ i \in 1..(Len(n.path) - 1) |-> Name(SubSeq(n.path, 1, Len(n.path) - i), "") ]

\* normalizeGeminiModel: a model Google has, for one it has not.
Normalized(n) == IF n \in DOMAIN Mapped THEN Mapped[n] ELSE n

\* findPoolByPrefix: the patterns it looks up, in order.
Lookups(n) ==
    (IF IsUnder("gemini", n) THEN <<Under("gemini", Normalized(Trim("gemini", n)))>> ELSE <<>>)
    \o Shorter(n)
    \o (IF n \in DOMAIN Families THEN Families[n] ELSE <<>>)
    \o (IF n \in DOMAIN Mapped THEN <<Normalized(n), Name(<<"gemini">>, "")>> ELSE <<>>)

\* The namespaces Handle takes off the model in the body,
BodyNamespaces ==
    {"nvidia", "ollama", "cloudflare", "sarvam", "puter", "zenmux", "jiekou", "gemini",
     "agentrouter"}

\* and those it takes off the name the rest of the request goes by.
ModelNamespaces == {"cloudflare", "zenmux", "jiekou", "gemini"}

TrimAny(namespaces, n) == IF n.path[1] \in namespaces THEN Trim(n.path[1], n) ELSE n

\* OptimizePayloadForKiloCode: an inline completion goes to the small model.
Optimized(n, small) == IF small /\ IsUnder("puter", n) THEN Under("puter", Downgrade) ELSE n

Routed(n, pool, small) ==
    [stage    |-> "routed",
     asked    |-> n,
     pool     |-> pool,
     body     |-> TrimAny(BodyNamespaces, Optimized(n, small)),
     model    |-> TrimAny(ModelNamespaces, Optimized(n, small)),
     small    |-> Optimized(n, small) # n,
     exact    |-> pool = n,
     tried    |-> {pool},
     switches |-> 0,
     by       |-> {},
     sent     |-> n]

(* Handle: the pool of the name's own pattern, or else of the first of the *)
(* shorter ones that exists.                                               *)
Receive(n, small) ==
    LET tries == <<n>> \o Lookups(n)
        found == SelectInSeq(tries, LAMBDA p : p \in Pooled)
    IN /\ req = NoRequest
       /\ found # 0
       /\ req' = Routed(n, tries[found], small)
       /\ UNCHANGED <<bindings, published, refreshed>>

\* The model of the body, or that of the URL /ai/run/{model}.
UpstreamCloudflare(model, body, run) == Trim("cloudflare", IF run THEN model ELSE body)

\* LookupOneMinAIModel: the manifest is indexed by pattern and by model.
UpstreamOneMinAI(r) == IF r.model \in DOMAIN OneMinAI THEN OneMinAI[r.model] ELSE r.model

\* 1min.ai translates only models of its manifest.
Translates(a, r) == a.provider = "1minai" => r.model \in OneMinAIPatterns

\* Mutant of Upstream: the prefix of the credential is left on.
UpstreamPrefixed(a, r, run) ==
    CASE a.provider = "1minai" -> UpstreamOneMinAI(r)
      [] a.provider = "gemini" -> r.model
      [] OTHER -> r.body

(* forwardRequest takes the credential's own prefix off; the providers'    *)
(* translators and URLs then name the model from the body, from the        *)
(* stripped name, or, for Gemini and 1min.ai, from the name as it was.     *)
Upstream(a, r, run) ==
    LET model == IF a.prefix = "" THEN r.model ELSE Trim(a.prefix, r.model)
        body  == IF r.body = r.model THEN model ELSE r.body
    IN CASE a.provider = "gemini" -> r.model
         [] a.provider = "1minai" -> UpstreamOneMinAI(r)
         [] a.provider = "cloudflare" -> UpstreamCloudflare(model, body, run)
         [] a.provider = "agentrouter" -> Trim("agentrouter", body)
         [] a.provider = "jiekou" -> Trim("jiekou", body)
         [] OTHER -> body

\* A credential of the pool is asked; "run" is Cloudflare's /ai/run endpoint.
Forward(a, run) ==
    /\ req.stage = "routed"
    /\ [pattern |-> req.pool, account |-> a] \in bindings
    /\ Translates(a, req)
    /\ run => a.provider = "cloudflare"
    /\ req' = [req EXCEPT !.stage = "sent", !.by = {a}, !.sent = Upstream(a, req, run)]
    /\ UNCHANGED <<bindings, published, refreshed>>

\* FormatUpstreamModelForPattern
Format(n) == IF Len(n.path) > 1 /\ (n.path[1] \in Known \/ n.path[1] \notin Vendors)
             THEN [n EXCEPT !.path = Tail(@)] ELSE n

\* Mutant of SameModel: the fallback need only share the publisher.
SameVendor(r, p) == Head(p.path) = Head(r.pool.path)

\* FindExactModelFallbacks, by the name asked for or by that of the pool.
SameModel(r, p) == Core(p) = Core(r.asked) \/ Core(p) = Core(r.pool)

(* Every key of the pool has failed: the request goes on with a pool of    *)
(* the same model.                                                         *)
SwitchPool(p) ==
    /\ req.stage \in {"routed", "sent"}
    /\ req.switches < MaxSwitches
    /\ p \in Pooled \ req.tried
    /\ SameModel(req, p)
    /\ req' = [req EXCEPT !.stage = "routed", !.by = {}, !.pool = p, !.tried = @ \cup {p},
                          !.body = Format(p), !.model = Trim("cloudflare", p),
                          !.switches = @ + 1]
    /\ UNCHANGED <<bindings, published, refreshed>>

\* Another key of the pool,
Rotate ==
    /\ req.stage = "sent"
    /\ req' = [req EXCEPT !.stage = "routed", !.by = {}]
    /\ UNCHANGED <<bindings, published, refreshed>>

\* or the request is over.
Close ==
    /\ req # NoRequest
    /\ req' = NoRequest
    /\ UNCHANGED <<bindings, published, refreshed>>

RoutingNext ==
    \/ \E a \in ProviderAccounts, answer \in Answers : Register(a, answer)
    \/ \E a \in Rescanned, answer \in Answers : ReDiscover(a, answer)
    \/ \E a \in ProviderAccounts : DeleteAccount(a)
    \/ Publish
    \/ \E n \in Pooled \cup Unlisted, small \in BOOLEAN : Receive(n, small)
    \/ \E a \in ProviderAccounts, run \in BOOLEAN : Forward(a, run)
    \/ \E p \in Pooled : SwitchPool(p)
    \/ Rotate
    \/ Close

RoutingSpec == RoutingInit /\ [][RoutingNext]_routingVars
-----------------------------------------------------------------------------

\* The names an account answers to.
Accepted(a) ==
    CASE a.provider = "gemini"      -> OfKind(a, {"generates", "embeds"})
      [] a.provider = "openrouter"  -> { n \in Names(a) \cup { Untagged(x) : x \in Names(a) } :
                                            \E e \in a.listing : IsFree(e) /\ e.name.path = n.path }
      [] a.provider = "1minai"      -> OneMinAIModels
      [] a.provider = "ollama"      -> Names(a) \cup { Untagged(n) : n \in Names(a) }
      [] a.provider = "cloudflare"  -> Names(a) \cup Docs
      [] a.provider = "agentrouter" -> Names(a) \cup Defaults
      [] OTHER                      -> Names(a) \cup Aliases(a)

OwnSpace ==
    {"nvidia", "ollama", "openrouter", "sarvam", "puter", "cloudflare", "zenmux", "gemini",
     "agentrouter"}

\* What discovery puts in front of the names of an account.
Space(a) ==
    IF a.provider = "1minai" THEN "1min"
    ELSE IF a.provider \in OwnSpace THEN a.provider
    ELSE IF a.prefix = "" /\ a.provider # "custom" THEN a.provider
    ELSE a.prefix

\* What the proxy will take off again.
Removed(a) ==
    \/ a.provider = "1minai"
    \/ Space(a) \in BodyNamespaces
    \/ a.prefix # "" /\ Space(a) = a.prefix

\* A name that begins with none of the namespaces a request of the account loses.
Clear(a, n) == \A ns \in BodyNamespaces \cup {Space(a), a.prefix} : ~ IsUnder(ns, n)

Sent == req.stage = "sent"

(* A request for a name of the catalogue asks the provider for a model the *)
(* provider listed, whichever of the patterns of that model the client     *)
(* used: what discovery put in front of a name, the proxy takes off        *)
(* (nvidia_discovery.go and its like against handler.go:438 and 1193).     *)
SentIsListed == Sent /\ req.exact => \A a \in req.by : req.sent \in Accepted(a)

(* So it is as long as the request stays with the pool it was routed to,   *)
(* but for two kinds of names: a name that the provider itself lists under *)
(* a namespace may have lost it, and one that re-discovery has put under a *)
(* namespace the proxy leaves alone keeps it.  Even then it is one of the  *)
(* provider's models that the name means, or the small one of Puter.       *)
DirectSendsListed ==
    Sent /\ req.exact /\ req.switches = 0 => \A a \in req.by :
        \/ req.sent \in Accepted(a)
        \/ req.small /\ Core(req.sent) = Core(Downgrade)
        \/ \E n \in Accepted(a) :
               /\ Core(req.sent) = Core(n)
               /\ Clear(a, n) => ~ Removed(a) /\ req.sent = Under(Space(a), n)

(* However often a request moves on, each provider is asked for the model  *)
(* the client asked for: handler.go:1014 "strictly prohibit falling back   *)
(* to different, cheaper, or arbitrary models".  1min.ai is asked for what *)
(* its manifest has for a pattern of that model.                           *)
SwitchKeepsModel ==
    Sent /\ req.exact =>
        \/ Core(req.sent) = Core(req.asked)
        \/ \E p \in DOMAIN OneMinAI :
               /\ Core(p) = Core(req.asked) /\ req.sent = OneMinAI[p]
               /\ \A a \in req.by : a.provider = "1minai"
        \/ req.small /\ req.switches = 0 /\ req.sent = Downgrade

(* After the scan an account serves every pattern its registration would   *)
(* give it, although the two are written apart (provider_fetch.go against  *)
(* the DiscoverAndRegister functions).  Cloudflare's public catalogue is   *)
(* only read by the latter.                                                *)
ScanCoversRegistration ==
    \A a \in refreshed : \A n \in Registered(a, "ok") :
        \/ [pattern |-> n, account |-> a] \in bindings
        \/ a.provider = "cloudflare" /\ n \in Both("cloudflare", Docs)
=============================================================================
