----------------------------- MODULE ProbeRunner -----------------------------
(***************************************************************************)
(* One run of a probe (crates/core/src/probe_runner.rs): every prompt is a  *)
(* future with a permit of a semaphore; it asks the provider a number of    *)
(* times, one call after the other, and has the answers embedded in one     *)
(* more call.  join_all polls the futures and, when all have ended, the run *)
(* is put together from what each has kept.                                 *)
(*                                                                          *)
(* An answer is the number of the call it came from, and an embedding is    *)
(* the number of the answer it is of.  The provider is external: a call may *)
(* fail, an answer may be empty or name any version of the model, and an    *)
(* embedding call may fail or return fewer vectors than it was given texts. *)
(***************************************************************************)
EXTENDS Naturals, Sequences, FiniteSets

CONSTANTS
  N,            \* the prompts of the probe are 1..N
  Concurrency,  \* PROBE_CONCURRENCY
  Samples,      \* alerts.samples_per_prompt
  Version,      \* what the provider may name as its model
  Unnamed,      \* it names none
  Completion,   \* the answers it may give
  Failed,       \* a call that fails
  NoRun

ASSUME RunnerAssumption ==
  /\ N \in Nat \ {0}   \* create_probe refuses a probe without prompts
  /\ Concurrency \in Nat /\ Samples \in Nat
  /\ Unnamed \notin Version
  /\ Completion \subseteq [text : BOOLEAN, version : Version \cup {Unnamed}]
  /\ Failed \notin Completion

VARIABLES
  mode,     \* whether the provider has embeddings: "embeddings" or "completions"
  pc,       \* where each prompt's future is
  replies,  \* what the provider has answered it, in order
  answers,  \* its answers
  version,  \* its model_version
  vectors,  \* its sample_embeddings
  result    \* the ProbeRun returned

kept == <<answers, version, vectors>>
vars == <<mode, pc, replies, kept, result>>

Prompt == 1..N
Reply  == Completion \cup {Failed}
Empty  == 0    \* the empty string

AtLeastOne(n) == IF n = 0 THEN 1 ELSE n
Cap == AtLeastOne(Concurrency)

\* n_samples
Draws == IF mode = "completions" THEN 1 ELSE AtLeastOne(Samples)

First(S) == CHOOSE i \in S : \A j \in S : i <= j

ProbeRun == [embeddings  : [Prompt -> SUBSET (1..AtLeastOne(Samples))],
             completions : [Prompt -> 0..AtLeastOne(Samples)],
             version     : Version \cup {Unnamed},
             status      : {"Success", "PartialFailure", "Failed"}]

Waiting  == {i \in Prompt : pc[i] = "waiting"}
InFlight == {i \in Prompt : pc[i] \in {"completing", "embedding"}}
Unended  == {i \in Prompt : pc[i] # "done"}

-----------------------------------------------------------------------------
(* The futures *)

\* The first poll of join_all starts a call for as many prompts as there are permits;
\* the others wait for one in the order of the prompts.
Polled  == [i \in Prompt |-> IF i <= Cap THEN "completing" ELSE "waiting"]
Nothing == [i \in Prompt |-> {}]

Init ==
  /\ mode \in {"embeddings", "completions"}
  /\ pc = Polled
  /\ replies = [i \in Prompt |-> << >>]
  /\ answers = Nothing /\ vectors = Nothing
  /\ version = [i \in Prompt |-> Unnamed]
  /\ result = NoRun

\* A future that ends drops its permit, which goes to the prompt that has waited longest.
MutantHandOver(i) == IF Waiting = {} \/ answers[i] = {} THEN {} ELSE {First(Waiting)}
HandOver(i) == IF Waiting = {} THEN {} ELSE {First(Waiting)}
Leave(i) ==
  pc' = [j \in Prompt |-> IF j = i THEN "done"
                          ELSE IF j \in HandOver(i) THEN "completing" ELSE pc[j]]

Answered(r) == r # Failed /\ r.text

\* The first version that is named stays.
MutantFirstNamed(v, r) == IF r # Failed /\ r.version # Unnamed THEN r.version ELSE v
FirstNamed(v, r) == IF v = Unnamed /\ r # Failed THEN r.version ELSE v

\* prov.complete has returned r.
Heard(i, r) ==
  /\ replies' = [replies EXCEPT ![i] = Append(@, r)]
  /\ version' = [version EXCEPT ![i] = FirstNamed(@, r)]
  /\ answers' = [answers EXCEPT ![i] = IF Answered(r) THEN @ \cup {Len(replies[i]) + 1} ELSE @]

AsksAgain(i) == Len(replies[i]) + 1 < Draws

\* In run: another call follows, or the answers are embedded, if there are any.
CompleteWith(i, r) ==
  /\ mode = "embeddings" /\ pc[i] = "completing"
  /\ Heard(i, r)
  /\ \/ /\ AsksAgain(i)
        /\ UNCHANGED pc
     \/ /\ ~AsksAgain(i) /\ answers'[i] # {}
        /\ pc' = [pc EXCEPT ![i] = "embedding"]
     \/ /\ ~AsksAgain(i) /\ answers'[i] = {}
        /\ Leave(i)
  /\ UNCHANGED <<mode, vectors, result>>

\* In run_completions_only: that was all.
CompleteOnlyWith(i, r) ==
  /\ mode = "completions" /\ pc[i] = "completing"
  /\ Heard(i, r)
  /\ Leave(i)
  /\ UNCHANGED <<mode, vectors, result>>

\* prov.embed returns; an error is no vectors.
EmbedWith(i, embedded) ==
  /\ pc[i] = "embedding"
  /\ vectors' = [vectors EXCEPT ![i] = embedded]
  /\ Leave(i)
  /\ UNCHANGED <<mode, replies, answers, version, result>>

\* The provider is external: see ProviderClient for what the adapters make of a service.
Complete(i)     == \E r \in Reply : CompleteWith(i, r)
CompleteOnly(i) == \E r \in Reply : CompleteOnlyWith(i, r)
Embed(i)        == \E embedded \in SUBSET answers[i] : EmbedWith(i, embedded)

-----------------------------------------------------------------------------
(* The run *)

\* answers.first(); in run_completions_only the text as it came.
Representative(i) == IF answers[i] = {} THEN Empty ELSE First(answers[i])

FailedPrompts ==
  IF mode = "embeddings" THEN {i \in Prompt : vectors[i] = {} \/ answers[i] = {}}
                         ELSE {i \in Prompt : replies[i][1] = Failed}

RunVersion ==
  LET named == {i \in Prompt : version[i] # Unnamed}
  IN IF named = {} THEN Unnamed ELSE version[First(named)]

MutantClassifyStatus(failures, total) ==
  IF failures = 0 THEN "Success" ELSE IF failures > total THEN "Failed" ELSE "PartialFailure"
ClassifyStatus(failures, total) ==
  IF failures = 0 THEN "Success" ELSE IF failures >= total THEN "Failed" ELSE "PartialFailure"

\* Every future has ended: the outcomes are taken in the order of the prompts.
Join ==
  /\ result = NoRun /\ Unended = {}
  /\ result' = [embeddings  |-> vectors,
                completions |-> [i \in Prompt |-> Representative(i)],
                version     |-> RunVersion,
                status      |-> ClassifyStatus(Cardinality(FailedPrompts), N)]
  /\ UNCHANGED <<mode, pc, replies, kept>>

\* The next run is asked for; the provider may be another one.
AgainWith(m) ==
  /\ result # NoRun
  /\ mode' = m
  /\ pc' = Polled
  /\ replies' = [i \in Prompt |-> << >>]
  /\ answers' = Nothing /\ vectors' = Nothing
  /\ version' = [i \in Prompt |-> Unnamed]
  /\ result' = NoRun

Again == \E m \in {"embeddings", "completions"} : AgainWith(m)

FutureStep(i) == Complete(i) \/ CompleteOnly(i) \/ Embed(i)

Next == (\E i \in Prompt : FutureStep(i)) \/ Join \/ Again

Spec == Init /\ [][Next]_vars

\* Every call of a provider ends (request_timeout), and tokio polls a woken future.
Fairness == (\A i \in Prompt : WF_vars(FutureStep(i))) /\ WF_vars(Join)
FairSpec == Spec /\ Fairness

-----------------------------------------------------------------------------
(* Properties *)

\* Of the calls made for a prompt, those answered with a text and those naming a version.
Usable(calls) == {k \in DOMAIN calls : Answered(calls[k])}
Named(calls)  == {k \in DOMAIN calls : calls[k] # Failed /\ calls[k].version # Unnamed}

(* Every variable stays in its range: no prompt is asked more often than it should be,
   and an embedding is of an answer. *)
TypeOK ==
  /\ mode \in {"embeddings", "completions"}
  /\ pc \in [Prompt -> {"waiting", "completing", "embedding", "done"}]
  /\ replies \in [Prompt -> Seq(Reply)]
  /\ \A i \in Prompt : Len(replies[i]) <= Draws
  /\ answers \in [Prompt -> SUBSET (1..Draws)]
  /\ version \in [Prompt -> Version \cup {Unnamed}]
  /\ vectors \in [Prompt -> SUBSET (1..Draws)]
  /\ result \in ProbeRun \cup {NoRun}

(* The permits are in use, all of them as long as there is work: the prompts with a call
   in flight are as many as the cap allows, or all that have not ended.  A permit kept
   by a prompt that failed early, or given out twice, would show here. *)
PermitsAreUsed ==
  Cardinality(InFlight) = IF Cardinality(Unended) < Cap THEN Cardinality(Unended) ELSE Cap

(* The run is what its prompts would have given one after the other: however the calls
   of different prompts overlap, each prompt's completion is its own first usable
   answer, its embeddings are of its own usable answers, and the version is the first
   one named, by prompt and then by call. *)
OverlapDoesNotShow ==
  LET named == {i \in Prompt : Named(replies[i]) # {}}
      calls == replies[First(named)]
  IN result # NoRun =>
       /\ \A i \in Prompt :
            /\ result.completions[i] =
                 IF Usable(replies[i]) = {} THEN Empty ELSE First(Usable(replies[i]))
            /\ result.embeddings[i] \subseteq Usable(replies[i])
       /\ result.version = IF named = {} THEN Unnamed ELSE calls[First(Named(calls))].version

(* The status says how much of the run can be compared: with embeddings, a run is a
   success when every prompt can be and has failed when none can; without, the same
   of the calls that were answered. *)
StatusIsHonest ==
  result # NoRun =>
    LET failed == IF mode = "embeddings" THEN {i \in Prompt : result.embeddings[i] = {}}
                                         ELSE {i \in Prompt : replies[i] = <<Failed>>}
    IN /\ result.status = "Success" <=> failed = {}
       /\ result.status = "Failed" <=> failed = Prompt

(* A run ends, whatever calls fail. *)
RunEnds == result = NoRun ~> result # NoRun
=============================================================================
