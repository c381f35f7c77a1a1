-------------------------- MODULE MCProviderClient --------------------------
(* Small instances of ProviderClient for TLC. *)
EXTENDS ProviderClient

CONSTANTS v1, embed, other

MCCompletion == [text : BOOLEAN, version : Version \cup {Unnamed}]

\* A whole answer that names a version, none, and an empty one; one without text; and
\* one of each kind that must not be kept.
MCGeneration ==
  [end : {"whole"}, text : {TRUE}, model : {v1, Unnamed, ""}]
    \cup [end : {"whole", "nothing"}, text : {FALSE}, model : {Unnamed}]
    \cup [end : {"truncated", "blocked"}, text : {TRUE}, model : {v1}]

\* Every service; an Azure probe with and without an embedding deployment of its own, and
\* one without a model, which cannot be built.
MCSpecs ==
  [api : {"openai", "anthropic", "ollama"}, model : {"m"}, embedder : {NoDeployment}]
    \cup [api : {"azure"}, model : {"m"}, embedder : {embed, NoDeployment}]
    \cup [api : {"ollama"}, model : {""}, embedder : {NoDeployment}]

\* Azure with and without a default embedding deployment, and not set up.
MCConfigs ==
  {[openai |-> [embedder |-> other, dim |-> 1],
    azure  |-> [endpoint |-> endpoint, version |-> "v1", embedder |-> embedder, dim |-> 2]] :
     endpoint \in {"", "e"}, embedder \in {other, NoDeployment}}
=============================================================================
