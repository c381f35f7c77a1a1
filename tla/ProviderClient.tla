--------------------------- MODULE ProviderClient ---------------------------
(***************************************************************************)
(* The provider adapters (crates/core/src/provider) and the factory that    *)
(* builds one per run (crates/daemon/src/provider_factory.rs), under the    *)
(* runner of ProbeRunner: its calls become requests to a service, and what  *)
(* the service replies becomes what ProbeRunner takes a call to return.     *)
(*                                                                          *)
(* The services are external.  What one generates is whole, or truncated at *)
(* the token cap, or blocked, or nothing, and each says so in its own way;  *)
(* a reply may be lost or late, an error, or undecodable; a batch may come  *)
(* back short, and a vector may have any width.  Between the daemon and the *)
(* services of the cloud there may be a cache that answers a request it has *)
(* seen before with what it answered then.                                  *)
(***************************************************************************)
EXTENDS ProbeRunner

CONSTANTS
  Specs,         \* ProviderSpecs: [api, model, embedder]
  Configs,       \* [providers.*] of the configuration
  Deployment,    \* the names of embedding models and deployments
  NoDeployment,  \* none is named
  Generation,    \* what a service may generate
  Width,         \* the widths of the vectors it may return
  NoRequest,
  Refused,       \* build_provider returns an error
  MaxRuns        \* bound on the runs

Api   == {"openai", "anthropic", "ollama", "azure"}
Cloud == Api \ {"ollama"}
ModelField == Version \cup {Unnamed, ""}    \* a `model` field may also be empty

ProviderSpec == [api : Api, model : STRING, embedder : Deployment \cup {NoDeployment}]

\* What the factory takes of [providers.*].
OpenAiConfig    == [embedder : Deployment, dim : Nat]
AzureConfig     == [endpoint : STRING, version : STRING, dim : Nat,
                    embedder : Deployment \cup {NoDeployment}]
ProvidersConfig == [openai : OpenAiConfig, azure : AzureConfig]

ASSUME ClientAssumption ==
  /\ Completion = [text : BOOLEAN, version : Version \cup {Unnamed}]
  /\ "" \notin Version /\ "" # Unnamed
  /\ Generation \subseteq [end  : {"whole", "truncated", "blocked", "nothing"},
                           text : BOOLEAN, model : ModelField]
  /\ Width \subseteq Nat
  /\ Specs \subseteq ProviderSpec /\ Configs \subseteq ProvidersConfig

VARIABLES
  config,    \* config.providers, fixed when the daemon starts
  provider,  \* the provider of the run
  wire,      \* each prompt's request in flight
  held,      \* the vectors each prompt has, with their widths
  origin,    \* history: what the service had generated for each call of the run
  drawn,     \* history: the generations whose answers were kept, over all runs
  cache,     \* the requests the cache has seen, and what it answered
  asked,     \* the completions requested so far
  runs

clientVars == <<config, provider, wire, held, origin, drawn, cache, asked, runs>>

-----------------------------------------------------------------------------
(* Building a provider *)

OpenAi(s) ==
  IF s.model = "" THEN Refused
  ELSE [api |-> s.api, model |-> s.model, embedder |-> config.openai.embedder,
        dim |-> config.openai.dim]

Anthropic(s) ==
  IF s.model = "" THEN Refused
  ELSE [api |-> s.api, model |-> s.model, embedder |-> NoDeployment, dim |-> 0]

\* OllamaProvider::new; the dimension is nominal.
Ollama(s) ==
  IF s.model = "" THEN Refused
  ELSE [api |-> s.api, model |-> s.model, embedder |-> s.model, dim |-> 1024]

\* The probe's own embedding deployment comes before the configured one.
Azure(s) ==
  IF config.azure.endpoint = "" \/ s.model = "" \/ config.azure.version = "" THEN Refused
  ELSE [api |-> s.api, model |-> s.model, dim |-> config.azure.dim,
        embedder |-> IF s.embedder # NoDeployment THEN s.embedder ELSE config.azure.embedder]

\* require_key: the vault has a key under the name of the service, if it takes one.
BuildProvider(s, stored) ==
  IF s.api \in Cloud /\ ~stored THEN Refused
  ELSE CASE s.api = "openai"    -> OpenAi(s)
         [] s.api = "anthropic" -> Anthropic(s)
         [] s.api = "ollama"    -> Ollama(s)
         [] s.api = "azure"     -> Azure(s)

MutantEmbeddingDim(p) == p.dim
EmbeddingDim(p) == IF p.api = "azure" /\ p.embedder = NoDeployment THEN 0 ELSE p.dim

\* has_embeddings decides between run and run_completions_only.
ModeOf(p) == IF EmbeddingDim(p) > 0 THEN "embeddings" ELSE "completions"

\* Whether embed sends a request at all.
CanEmbed(p) == p.api # "anthropic" /\ ~(p.api = "azure" /\ p.embedder = NoDeployment)

-----------------------------------------------------------------------------
(* Requests *)

MutantNonce(serial) == 0
\* cache_bust_nonce: a fresh uuid.
Nonce(serial) == serial

\* Each API has a field that is no part of the question: `user`, or `metadata.user_id`.
OpenAiChat(i) ==
  [to |-> "openai", model |-> provider.model, prompt |-> i, nonce |-> Nonce(asked + 1)]
AzureChat(i) ==
  [to |-> "azure", model |-> provider.model, prompt |-> i, nonce |-> Nonce(asked + 1)]
AnthropicMessage(i) ==
  [to |-> "anthropic", model |-> provider.model, prompt |-> i, nonce |-> Nonce(asked + 1)]
OllamaGenerate(i) == [to |-> "ollama", model |-> provider.model, prompt |-> i]

ChatRequest(i) ==
  CASE provider.api = "openai"    -> OpenAiChat(i)
    [] provider.api = "azure"     -> AzureChat(i)
    [] provider.api = "anthropic" -> AnthropicMessage(i)
    [] provider.api = "ollama"    -> OllamaGenerate(i)

\* OpenAI and Azure embed all texts in one request, Ollama the next text in each.
Input(i) ==
  IF provider.api = "ollama" THEN {First(answers[i] \ DOMAIN held[i])} ELSE answers[i]

-----------------------------------------------------------------------------
(* What the services reply *)

Ok(body) == [status |-> "ok", body |-> body]
\* No response in time, a status that is not 200, and a body that is not what it should be.
Trouble == {[status |-> "none"], [status |-> "error"], [status |-> "garbled"]}

FinishReason == [whole |-> "stop", truncated |-> "length", blocked |-> "content_filter"]
StopReason   == [whole |-> "end_turn", truncated |-> "max_tokens", blocked |-> "refusal",
                 nothing |-> "end_turn"]

ChatResponse(g) ==
  [model   |-> g.model,
   choices |-> IF g.end = "nothing" THEN << >>
               ELSE <<[content |-> g.text, finish_reason |-> FinishReason[g.end]]>>]

MessagesResponse(g) ==
  [model |-> g.model, stop_reason |-> StopReason[g.end],
   content |-> IF g.end = "nothing" THEN <<[type |-> "thinking"]>>
               ELSE <<[type |-> "thinking"], [type |-> "text", text |-> g.text]>>]

\* A local model blocks nothing.
GenerateResponse(g) ==
  [model |-> g.model, response |-> IF g.end = "nothing" THEN FALSE ELSE g.text,
   done_reason |-> IF g.end = "truncated" THEN "length" ELSE "stop"]

Served(g) ==
  CASE provider.api \in {"openai", "azure"} -> ChatResponse(g)
    [] provider.api = "anthropic"           -> MessagesResponse(g)
    [] provider.api = "ollama"              -> GenerateResponse(g)

Generated == {g \in Generation : provider.api = "ollama" => g.end # "blocked"}

-----------------------------------------------------------------------------
(* What the adapters make of a reply *)

Reported(model) == IF model = "" THEN Unnamed ELSE model

MutantUsableFinish(reason) == reason # "length"
\* reject_unusable_finish_reason
UsableFinish(reason) == reason \notin {"length", "content_filter"}

OpenAiCompletion(reply) ==
  IF reply.status # "ok" THEN Failed
  ELSE LET choices == reply.body.choices
       IN IF choices = << >> \/ ~UsableFinish(Head(choices).finish_reason) THEN Failed
          ELSE [text |-> Head(choices).content, version |-> Reported(reply.body.model)]

\* The same of the same wire format.
AzureCompletion(reply) == OpenAiCompletion(reply)

AnthropicCompletion(reply) ==
  IF reply.status # "ok" \/ reply.body.stop_reason \in {"refusal", "max_tokens"} THEN Failed
  ELSE LET content == reply.body.content
           texts   == {k \in DOMAIN content : content[k].type = "text"}
       IN IF texts = {} THEN Failed
          ELSE [text |-> content[First(texts)].text, version |-> Reported(reply.body.model)]

MutantOllamaCompletion(reply) ==
  IF reply.status # "ok" \/ reply.body.done_reason = "length" THEN Failed
  ELSE [text |-> reply.body.response, version |-> reply.body.model]
OllamaCompletion(reply) ==
  IF reply.status # "ok" \/ reply.body.done_reason = "length" THEN Failed
  ELSE [text |-> reply.body.response, version |-> Reported(reply.body.model)]

CompletionOf(reply) ==
  CASE provider.api = "openai"    -> OpenAiCompletion(reply)
    [] provider.api = "azure"     -> AzureCompletion(reply)
    [] provider.api = "anthropic" -> AnthropicCompletion(reply)
    [] provider.api = "ollama"    -> OllamaCompletion(reply)

Vector    == [width : Width, finite : BOOLEAN]
NoVectors == [k \in {} |-> 0]

\* Embedding::new
IsEmbedding(v) == v.width # 0 /\ v.finite

\* The vectors of a batch, with their widths; one that is not usable fails the batch.
OpenAiEmbedded(reply) ==
  IF reply.status # "ok" THEN NoVectors
  ELSE IF \E k \in DOMAIN reply.body :
            reply.body[k].width # provider.dim \/ ~IsEmbedding(reply.body[k])
       THEN NoVectors
  ELSE [k \in DOMAIN reply.body |-> reply.body[k].width]

AzureEmbedded(reply) == OpenAiEmbedded(reply)

\* Ollama's reply to the text k is added to what the call has; a bad one fails the call.
OllamaEmbedded(i, k, reply) ==
  IF reply.status # "ok" THEN NoVectors
  ELSE IF ~IsEmbedding(reply.body[k]) THEN NoVectors
  ELSE [t \in DOMAIN held[i] \cup {k} |-> IF t = k THEN reply.body[k].width ELSE held[i][t]]

-----------------------------------------------------------------------------
(* Actions *)

NoneOf(x) == [i \in Prompt |-> x]

ClientInit ==
  /\ Init
  /\ config \in Configs
  /\ \E s \in Specs, stored \in BOOLEAN : provider = BuildProvider(s, stored)
  /\ provider # Refused
  /\ mode = ModeOf(provider)
  /\ wire = NoneOf(NoRequest) /\ held = NoneOf(NoVectors) /\ origin = NoneOf(<< >>)
  /\ drawn = << >> /\ cache = {} /\ asked = 0 /\ runs = 1

\* complete sends its request.
AskCompletion(i) ==
  /\ pc[i] = "completing" /\ wire[i] = NoRequest
  /\ asked' = asked + 1
  /\ wire' = [wire EXCEPT ![i] = [request |-> ChatRequest(i), serial |-> asked + 1]]
  /\ UNCHANGED <<vars, config, provider, held, origin, drawn, cache, runs>>

\* complete returns what the adapter makes of a reply, which has its origin in a generation.
ReturnCompletion(i, reply, from) ==
  LET r == CompletionOf(reply)
  IN /\ CompleteWith(i, r) \/ CompleteOnlyWith(i, r)
     /\ origin' = [origin EXCEPT ![i] = Append(@, from)]
     /\ drawn' = IF Answered(r) THEN Append(drawn, from.id) ELSE drawn
     /\ wire' = [wire EXCEPT ![i] = NoRequest]
     /\ UNCHANGED <<config, provider, held, asked, runs>>

Remembered(request) == {c.id : c \in {d \in cache : d.request = request}}

\* The service generates, or the cache answers with what it has for the same request.
HearService(i) ==
  /\ pc[i] = "completing" /\ wire[i] # NoRequest
  /\ \E g \in Generated,
        id \in {wire[i].serial} \cup Remembered(wire[i].request) :
       ReturnCompletion(i, Ok(Served(g)), [id |-> id, end |-> g.end])
  /\ cache' = IF provider.api \in Cloud
                THEN cache \cup {[request |-> wire[i].request, id |-> wire[i].serial]}
                ELSE cache

\* Or there is no usable answer, for want of one before the request times out.
HearNothing(i) ==
  /\ pc[i] = "completing" /\ wire[i] # NoRequest
  /\ \E reply \in Trouble : ReturnCompletion(i, reply, [id |-> 0, end |-> "nothing"])
  /\ UNCHANGED cache

\* embed sends a request, or refuses.
AskEmbeddings(i) ==
  /\ pc[i] = "embedding" /\ wire[i] = NoRequest
  /\ IF CanEmbed(provider)
       THEN /\ wire' = [wire EXCEPT ![i] = [input |-> Input(i)]]
            /\ UNCHANGED vars
       ELSE /\ EmbedWith(i, {})
            /\ UNCHANGED wire
  /\ UNCHANGED <<config, provider, held, origin, drawn, cache, asked, runs>>

EmbeddingReply(texts) ==
  Trouble \cup {Ok(body) : body \in UNION {[got -> Vector] : got \in SUBSET texts}}

\* The one reply to a batch, which may lack some of the texts.
HearBatch(i) ==
  /\ pc[i] = "embedding" /\ wire[i] # NoRequest /\ provider.api \in {"openai", "azure"}
  /\ \E reply \in EmbeddingReply(wire[i].input) :
       LET fitting == IF provider.api = "openai" THEN OpenAiEmbedded(reply) ELSE AzureEmbedded(reply)
       IN /\ held' = [held EXCEPT ![i] = fitting]
          /\ EmbedWith(i, DOMAIN fitting)
  /\ wire' = [wire EXCEPT ![i] = NoRequest]
  /\ UNCHANGED <<config, provider, origin, drawn, cache, asked, runs>>

\* A reply to one text of Ollama's: the next text follows, or the call returns.
HearOne(i) ==
  /\ pc[i] = "embedding" /\ wire[i] # NoRequest /\ provider.api = "ollama"
  /\ \E k \in wire[i].input :
       \E reply \in Trouble \cup {Ok(body) : body \in [{k} -> Vector]} :
         LET results == OllamaEmbedded(i, k, reply)
         IN /\ held' = [held EXCEPT ![i] = results]
            /\ IF DOMAIN results \in {{}, answers[i]} THEN EmbedWith(i, DOMAIN results)
                                                      ELSE UNCHANGED vars
  /\ wire' = [wire EXCEPT ![i] = NoRequest]
  /\ UNCHANGED <<config, provider, origin, drawn, cache, asked, runs>>

JoinRun == Join /\ UNCHANGED clientVars

\* The next run builds its own provider; if that fails, the run is skipped.
NextRun ==
  /\ runs < MaxRuns
  /\ \E s \in Specs, stored \in BOOLEAN : provider' = BuildProvider(s, stored)
  /\ provider' # Refused
  /\ AgainWith(ModeOf(provider'))
  /\ held' = NoneOf(NoVectors) /\ origin' = NoneOf(<< >>)
  /\ runs' = runs + 1
  /\ UNCHANGED <<config, wire, drawn, cache, asked>>

Receive(i) ==
  HearService(i) \/ HearNothing(i) \/ HearBatch(i) \/ HearOne(i)

ClientNext ==
  \/ \E i \in Prompt : AskCompletion(i) \/ AskEmbeddings(i) \/ Receive(i)
  \/ JoinRun \/ NextRun

ClientSpec == ClientInit /\ [][ClientNext]_<<vars, clientVars>>

\* A request is answered or times out (request_timeout), and tokio polls a woken future.
ClientFairness ==
  /\ \A i \in Prompt : WF_<<vars, clientVars>>(AskCompletion(i) \/ AskEmbeddings(i) \/ Receive(i))
  /\ WF_<<vars, clientVars>>(JoinRun)
ClientFairSpec == ClientSpec /\ ClientFairness

-----------------------------------------------------------------------------
(* Properties *)

(* The adapters are the provider ProbeRunner is written for, whatever the service they
   are called on replies: a call returns an error or a text with a version that is never
   the empty name, embeddings are of texts that were given, and every call returns. *)
ImplementsRunner == FairSpec

(* Only whole answers are kept: what a service had cut off at the token cap, refused or
   filtered is never an answer of a run, in the terms of whichever service it was. *)
OnlyWholeAnswers ==
  \A i \in Prompt : \A k \in answers[i] : origin[i][k].end = "whole"

(* Every answer kept, over all runs, is a draw of its own: a cache on the way never
   answers one completion with another, so that a baseline is no repetition. *)
DrawsAreIndependent ==
  \A a, b \in DOMAIN drawn : a # b => drawn[a] # drawn[b]

\* has_embeddings sends no run to an adapter that cannot embed.
EmbeddingIsPossible == \A i \in Prompt : pc[i] = "embedding" => CanEmbed(provider)
\* OpenAI and Azure return vectors of the configured width.
WidthIsConfigured ==
  provider.api \in {"openai", "azure"} =>
    \A i \in Prompt : \A k \in DOMAIN held[i] : held[i][k] = provider.dim
\* Ollama's embed returns a vector of every text or none, though it asks for one at a time.
AllOrNone ==
  provider.api = "ollama" => \A i \in Prompt : vectors[i] \in {{}, answers[i]}

(* The vectors a run keeps can be compared: a run with embeddings has a provider of
   them, what is kept has a width, and the same width for a service whose width is
   configured, and a call that fails half way keeps nothing. *)
EmbeddingsFit ==
  /\ EmbeddingIsPossible /\ WidthIsConfigured /\ AllOrNone
  /\ \A i \in Prompt : /\ vectors[i] = {} \/ vectors[i] = DOMAIN held[i]
                       /\ \A k \in DOMAIN held[i] : held[i][k] # 0
=============================================================================
