# Verification of ModelSentry

TLA+ modules, TLC model checks and TLAPS proofs about the ModelSentry daemon: the
process that runs a fixed corpus of prompts (a *probe*) against an LLM endpoint on a
schedule, tests the answers against a stored baseline and raises alerts.

Paths below are relative to the repository (`src/` here), so `scheduler.rs` is
`crates/daemon/src/scheduler.rs`.

## 1. Inventory

| Component | State it keeps | Operations | Hard behaviour | What makes it correct |
|---|---|---|---|---|
| Probe scheduler (`daemon/scheduler.rs`) | map probe -> task handle; one tokio task per probe; a semaphore capping runs; next-run times (persisted) | `reconcile` every 30 s, probe loop (read schedule, sleep, resolve provider, run, advance), shutdown | abort takes effect only at an await; snapshots; restarts; failed writes | no loop escapes reconcile, no permit or wakeup lost, no hot loop, resumes its cadence, every probe keeps running, deleted probes end |
| Store (`store/*.rs`, redb) | tables of probes, runs, embeddings, run index, baselines, rules, events, last-fired, schedule, alpha spends | single-transaction CRUD; the deletion cascade is four transactions | crash or failure between transactions; writers that do not check the probe exists | what a table promises about another (index, last-fired, cascade) |
| Alert engine and stores (`core/alert.rs`, `store/alert_store.rs`, `store/spend_store.rs`) | rules, events, last-fired index, alpha ledger | evaluate a report against a snapshot of the rules, notify, insert events, record spends, rule CRUD, acknowledge | awaits between reading, notifying and recording; rule deletion meanwhile; abort/crash in the middle; `?` drops the rest | cooldown and alpha budget hold over runs; every channel is tried; nothing recorded unsent |
| Vault (`daemon/vault.rs`, `daemon/routes/vault.rs`) | an encrypted file; passphrase | get, set, delete, list; read-modify-write with temp file and rename | several writers, unlocked readers, crash between write and rename | a key map: atomic updates, none lost, readers see a whole file |
| Probe runner (`core/probe_runner.rs`) | none (one run at a time per loop) | concurrent prompts, samples, embeddings; status classification | partial failure, order of results | status and shape of the run say what happened |
| Drift calculation (`core/drift/*`) | none | conformal / two-sample / per-prompt tests, severity | numeric edges: resolution of a permutation test, empty samples | alarms at the promised level, never below the test's resolution |
| Provider clients and resolution (`core/provider/*`, `daemon/provider_factory.rs`) | an HTTP client shared by all | one provider built per run from spec, configuration and key; completions, embeddings | truncated, filtered and empty answers under status 200, each service in its own terms; caches on the way; short batches; a failure half-way through a text-by-text batch | what the runner sees is what it assumes of a provider; only whole, independent answers are kept; vectors can be compared |
| Baselines and runs API (`routes/baselines.rs`, `routes/runs.rs`, `store/baseline_store.rs`, `store/run_store.rs`) | baselines per probe, runs per probe with an index | capture a baseline from recent runs, latest, list, delete | capture racing runs and deletion; index and rows agree | the latest baseline is of this probe, of vectors that can be compared |
| HTTP server (`daemon/server.rs`, `routes/mod.rs`) | none | layers (rate and body limit, timeout, API key), routing, errors to statuses, graceful shutdown | a timeout or a lost connection drops a handler at an await | the status tells what was changed; a shutdown waits for what it accepted and ends |
| Start-up, shutdown (`daemon/main.rs`) | the order of the components | configuration, store, vault, scheduler, listener; drain, then stop the loops | each step may fail; loops run before the listener is bound; aborts while a run is recorded | nothing is half recorded but by a crash; every phase ends |
| Configuration, models (`common/*`) | data | parsing with defaults, validation | values validation lets through | what the process runs on is in range |
| CLI (`cli/*`), dashboard (`web/*`) | none | HTTP clients | none | out of scope |

The daemon is one process. The scheduler task, the probe loops and the request
handlers share an `AppStore` (redb: serialized write transactions, snapshot reads) and
the vault; there are no messages between them except `abort` on task handles and the
semaphore.


## 2. The modules

| Module | Models | Role |
|---|---|---|
| `Scheduler` | probe scheduler, persisted schedule, probe API, deletion cascade, restarts | state machine, properties |
| `MCScheduler` | | schedules and symmetry for TLC |
| `RunCap` | what the run semaphore promises: a waiting line of so many places | abstract specification; `Scheduler` refines it |
| `SchedulerProofs` | | theorems about `Scheduler`, the refinement among them |
| `AlertPipeline` | alert evaluation, rules and events API, last-fired index, alpha ledger | state machine, properties |
| `MCAlertPipeline` | | rules and channels for TLC |
| `AlertProofs` | | theorems about `AlertPipeline` |
| `ProbeData` | runs, baselines, capture, comparison, deletion of a probe's data | state machine, properties |
| `MCProbeData` | | symmetry for TLC |
| `DataProofs` | | theorems about `ProbeData` |
| `ProbeRunner` | one run: concurrent prompts, samples, embeddings, status | state machine, properties |
| `MCProbeRunner` | | answers for TLC |
| `DriftAssessment` | the verdict: two-sample and conformal scores, the gate, levels | computation, properties |
| `MCDriftAssessment` | | points, clouds and samples for TLC |
| `DriftProofs` | | theorems about `DriftAssessment` |
| `ProviderClient` | the adapters and the factory, under the runner; services and a cache as environment | state machine, properties; refines `ProbeRunner` |
| `MCProviderClient` | | specs, configurations and generations for TLC |
| `ProviderProofs` | | theorems about `ProbeRunner` and `ProviderClient`, the refinement among them |
| `Daemon` | the process: configuration, start, loops, requests, drain, crash | state machine, properties |
| `MCDaemon` | | configuration files for TLC |
| `DaemonProofs` | | theorems about `Daemon` |
| `KeyMap` | what the vault promises: an atomic map | abstract specification |
| `Vault` | vault file, write lock, opening and creation, handlers | detailed specification, refines `KeyMap` |
| `VaultProofs` | | theorems about `Vault`, the refinement among them |
| `SumTheorems` | | facts about sums over finite sets, used by `AlertProofs` and `DriftProofs` |

### 2.1 Scheduler

*State.* `table`, `issued`, `nextRun` and `runs` are the redb tables as far as the
scheduler depends on them; `cascade` and `adhoc` are the API requests in flight;
`mode`, `listed` and `active` the scheduler task (`active` is `reconcile`'s
`HashMap<String, ActiveProbe>`); `loop` has a record per tokio task with its place in
`run_probe_loop`; `aborted` the tasks `JoinHandle::abort` was called on; `permits` and
`queue` are `run_semaphore`; `phase` is the clock. `attempted` is history.

*Actions and code.*

| Action | Code |
|---|---|
| `CreateProbe`, `DeleteProbe`, `TriggerRun`/`FinishTrigger` | `create_probe`, `delete_probe`, `trigger_probe_run` in `routes/probes.rs` |
| `EditProbe` | `ProbeStore::update` |
| `DeleteRuns`, `DeleteSchedule`, `CascadeFails` | the later transactions of `delete_probe_cascade`, and its `?` |
| `Reconcile` | `list_all`, the comparison and `active.retain` of `reconcile` |
| `SpawnNew`, `Respawn` | the spawning loop of `reconcile`, one probe per step |
| `Shutdown` | the shutdown arm of `Scheduler::start` |
| `ScheduledNextRun`, `PersistNextRun` | `scheduled_next_run`: the read, then the write |
| `Attempt` | the sleep ends, `build_provider`, `run_semaphore.acquire` |
| `FinishRun`, `StoreRun` | `run_probe_job` up to its insert, and the insert |
| `AdvanceSchedule` | `advance_schedule` |
| `Drop` | tokio drops an aborted task where it is suspended |
| `Tick`, `Restart` | the clock; the process ends and starts again |

An abort does not stop a task between two awaits: `read`, `persist`, `store` and
`advance` are places an aborted loop still leaves by its own steps, and `Drop` applies
at the awaits only. This is what makes the old and the new loop of an edited probe
race over the persisted schedule.

`RunCap` is the semaphore without permits: whose run is under way, and who waits for one in
which order. `Scheduler!RunsAreCapped` is the refinement: the loops that hold a permit
(`run` and `store`) are the runs under way, `queue` is the line. A run asked for by hand
takes no permit (section 6) and is not among them.

`EditProbe` has no caller in the daemon today (`ProbeStore::update` is used by tests);
it is modelled because `reconcile` compares `updated_at` and handles it. Runs that need
no edits set `MaxVersion = 1`.

A store transaction of the loop of a probe fails only if the probe is in `Faulty`;
`reconcile`'s read failing is the same as it not running. The provider may fail in every run.

### 2.2 AlertPipeline

*State.* `rules`, `events`, `lastFired` and `ledger` are the tables; `job` is the
evaluation under way, whose fields are the local variables of `run_probe_job` and
`evaluate_and_fire`; `looks`, `sent` and `cut` are history: every test made with its level,
every notification tried, and the times of the evaluations that were cut short.

*Actions and code.* `Begin` reads the rules, `ReadHistory` the last-fired times and
spends, `Evaluate` is the decision of `evaluate_and_fire` and its single `Utc::now()`,
`Notify` is `fire_channel`, `InsertEvent` and `RecordSpend` are the two loops of
`run_probe_job` after it (one transaction each), `StartRecording` is the second
`Utc::now()`. `CutShort` stands for the abort of the loop, a crash and a `?` on a failing
transaction. `CreateRule`, `DeleteRule`, `AcknowledgeEvent` are the handlers.

There is one evaluation at a time because a probe has one loop
(`Scheduler!LoopsAreAccountedFor` and the reconcile period; the loop aborted by an edit is
dropped at its next await) and because runs by hand raise no alerts. Between an abort
and the drop two loops of one probe may overlap; the old one is then cut short at its
next notification, which is `CutShort`.

Time advances between two evaluations (`now > done` in `Begin`): the stores key events
and debits by nanosecond and millisecond timestamps.

### 2.3 ProbeData

*State.* `probes`, `runs` and `baselines` are the tables; the three rows of a run are
one element because one transaction writes them and one removes them. `run` and
`capture` have a record per run and capture with how far it is: the local variables of
`run_probe_job` and `capture_baseline` while it is under way, the stored row afterwards.
`loops` and `scheduled` are the probe loops as far as the data depends on them;
`cascade` is the deletion of each probe. `disturbed` and `capture[b].after` are history.
What a run's answers are is abstracted to the length of the first embedding that is not
empty (or none), which is all that `embedding_dim` and `compute` look at before the
tests. It stands neither for the embedding model, which the code does not compare, nor
for the lengths of the run's other embeddings, on which a test may fail
(`DriftAssessment!CheckDims`).

*Actions and code.*

| Action | Code |
|---|---|
| `ScheduledRun`, `RunNow` | a run begins: in `run_probe_loop`, in `trigger_probe_run` |
| `FinishProvider`, `Compare`, `InsertRun` | `run_probe_job`: the provider has answered, `get_latest_for_probe` and `compute`, the insert |
| `LoseRun` | an abort at an await, a request timeout, a `?` |
| `BeginCapture`, `ReadEmbeddings`, `BuildBaseline`, `InsertBaseline`, `CaptureFails` | `capture_baseline`: `list_for_probe`, `embeddings` of each run, the clouds, the insert, the errors |
| `DeleteBaseline` | `delete_baseline` |
| `DeleteProbe`, `ListRuns`, `RemoveRuns`, `ListBaselines`, `RemoveBaselines`, `CascadeFails` | `delete_probe_cascade`, one transaction each |
| `SpawnLoop`, `StopLoop`, `Restart` | what `reconcile` and a restart do to runs |

The permit, the schedule and the stale snapshot that `reconcile` works on are
`Scheduler`'s concern: here a loop may run its probe at any time. What the comparison
leads to (rules, notifications, events) is `AlertPipeline`'s.

### 2.4 ProbeRunner

*State.* `pc` is where each prompt's future is; `answers`, `version` and `vectors` are
the local variables it keeps; `result` is the `ProbeRun`. `replies` is history: what the
provider has answered each prompt. An answer is the number of the call it came from and
an embedding the number of the answer it is of, so that a mix-up would be visible.

*Actions and code.*

| Action | Code |
|---|---|
| `Complete` | one `prov.complete` in the sampling loop of `run`, and what follows it: the next call, `embed`, or the end |
| `CompleteOnly` | the call of `run_completions_only` |
| `Embed` | `prov.embed` returns |
| `HandOver` | a future ends and drops its permit: the longest waiting one goes on |
| `Join` | `join_all` has all outcomes: the loop over them, `classify_status` |
| `Again` | the next run, perhaps with another provider |

`join_all` polls the futures in the order of the prompts, and the semaphore is fair, so
permits are handed out in that order. The provider is external: a call may fail, an
answer may be empty and may name any version of the model; `embed` may fail or return
vectors of some of the texts only (`provider/mod.rs` promises one each, the OpenAI
client does not check it).

### 2.5 DriftAssessment

*State.* `cloud` and `samples` are the inputs of `assess`; `strata` is what
`assess_per_prompt` has of each prompt so far, `drawn` and `reached` the loop of
`stratified_permutation_p`; `report` the verdict.

*Actions and code.* `Assess` is the choice in `assess`, and before it the comparison in
`compute` of the first vectors of run and baseline (`Comparable`); `ScoreTwoSample` and
`ScoreConformal` the two cases of `prompt_score`, in the order of the prompts, for which
`check_dims` holds (`CheckDims`), and `ScoreFails` its error, which leaves
`assess_per_prompt` with the prompts before it scored and no verdict;
`GateDraw` an iteration of `stratified_permutation_p` and `Verdict` the end of
`assess_per_prompt`; `Pooled` is `assess_pooled` with `two_sample_test` and the errors of
`validate` (`Valid`). `Statistic` is
`statistic_from_gram`, `AugmentedScores` and `MinPerms` are the functions of those names.

An embedding is a vector that is not empty (`Embedding::new` refuses the others). Those
of one dimension are integers on a line; `Dim` says how long each is, and a run and a
cloud may have several, as Ollama's answers and captures of mixed runs do. Every statistic is multiplied with its
denominators, which are the same for all it is compared with; a standardized score is
known up to a positive factor (`Precision`), which is all that its sign and its order
within its pool need. The generator is replaced by any choice: what holds, holds for
every seed. A p-value is the number of draws that reach what was observed.

### 2.6 Vault and KeyMap

*State.* `file` and `tmp` are the vault and its staging file, each absent, torn, or
whole with a passphrase and a map; `lock` is `write_lock`; `pc`, `request`, `seen` and
`reply` describe the call of each thread; `daemon` and `pass` the process.

*Actions and code.* `Call` is a handler or `require_key`; `TakeLock`, `ReadForReader`,
`ReadForWriter` are the beginnings of `get_key`/`list_providers` and
`set_key`/`delete_key`; `Stage`, `Fill` and `Commit` are the truncation, the write and
the rename in `encrypt_and_write`; `IoFails` is every `?`; `Return` drops the guard.
`Open`, `Create`, `Created` and `NotCreated` are the vault part of `main`. `Crash` may
come at any step.

The file system keeps what was written: the process dies, not the machine
(`encrypt_and_write` does not `fsync`).

### 2.7 ProviderClient

*State.* That of `ProbeRunner`, which it extends, and: `provider`, what `build_provider`
returned for this run; `wire`, each prompt's request in flight; `held`, the vectors its
`embed` has so far, with their widths. `origin` and `drawn` are history: what the
service had generated for each call, and the generations whose answers were kept over
all runs. `cache` is outside the daemon: a proxy that answers a cloud request it has
seen with what it answered then.

*Actions and code.*

| Action | Code |
|---|---|
| `ClientInit`, `NextRun` | `build_provider` (`OpenAi`, `Anthropic`, `Ollama`, `Azure` are its branches with the constructors they call), and the choice between `run` and `run_completions_only` |
| `AskCompletion` | `complete` up to its `send().await`, with the nonce |
| `HearService`, `HearNothing` | the rest of `complete`: a reply, or a transport error, a status other than 200, an undecodable body |
| `AskEmbeddings` | `embed` up to its request, or its refusal |
| `HearBatch`, `HearOne` | the reply to a batch (OpenAI, Azure), or to one text of Ollama's loop |
| `JoinRun` | `ProbeRunner!Join` |

`ReturnCompletion` and the embedding replies hand their result to `ProbeRunner`'s
`CompleteWith`, `CompleteOnlyWith` and `EmbedWith`, which is how the two modules compose:
`ProbeRunner` chooses any result a provider may return, `ProviderClient` computes it.

### 2.8 Daemon

*State.* `phase` is how far `main` has come; `config` the `AppConfig` in use; `loop` the
probe loops, each with the key it resolved and the run it is at; `aborted` the tasks
whose handle was aborted; `request` the requests in flight; `vault` the key of the
provider the probes use, by the number of its last change; `runs` and `events` the
tables. `since`, `done` and `cut` are history.

*Actions and code.*

| Action | Code |
|---|---|
| `Start`, `Bind`, `BindFails` | `AppConfig::load` (`Parse`, `Validate`) and `main` up to `scheduler.start`; the listener of `server::run` |
| `Wake`, `Resolve`, `Call` | `run_probe_loop` between its awaits: sleep, provider, permit |
| `RunFails`, `NoReport`, `Report`, `Notified`, `RecordEvents`, `RecordSpends`, `StoreRun`, `JobFails` | `run_probe_job`, by what it stores and where it awaits |
| `Spawn`, `Abort`, `Dropped` | `reconcile`, `JoinHandle::abort`, and tokio's drop at an await |
| `Accept`, `ReadBody` | the layers of `build_router`, `auth_middleware`, the JSON extractor |
| `TriggerRun`, `FinishRun`, `UpsertKey`, `DeleteKey` | the handlers, cut at their awaits |
| `TimesOut`, `Disconnect`, `Reply` | the timeout layer, a connection that breaks, the answer |
| `Signal`, `Drained`, `StopLoops`, `Exit` | graceful shutdown, `SchedulerHandle::shutdown`, and the runtime as `main` returns |
| `Crash` | the process dies |

A panic ends the task it happens in, and tokio gives its permit back: a loop is "dead", a
request's connection is gone. Three things a valid file asks for make one: room for more
answers than a vector can have (`Beginnings`: `Vec::with_capacity(n_samples)`), for more
permutations (`Report`: those of the file, or as many as a tiny `target_fpr` takes), and a
window that reaches back beyond the calendar. `MaxAnswers`, `MaxNulls`, `Calendar` are where
that begins; `MaxPermits` is tokio's, beyond which `Semaphore::new` panics in `main` and the
daemon does not start.

Which probes there are, when one is due and who waits for a permit are `Scheduler`'s;
here any loop may wake at any time and a free permit is enough. Requests are modelled
from the point where their headers are parsed.

## 3. The runs

| Run | Instance | Question |
|---|---|---|
| `scheduler_core` | 2 probes (a cron of period 1; every 2 ticks), 1 permit, 1 restart, the store of the second may fail | Is no run tried twice at a time or early, is what a loop sleeps until on disk? Does every stored probe keep being run? |
| `scheduler_edits` | 1 probe edited twice, 3 task slots, 1 permit, runs by hand | Is every loop tracked, no permit or wakeup lost, a place handed on as `RunCap` has it? Do the loops of deleted probes, and all loops after shutdown, end? |
| `alert_core` | 2 rules at levels 2 and 3, 2 channels, budget 3, window 1, cooldown 2, 3 time units, evaluations cut short anywhere | Cooldown of events and notifications, completeness of both, budget over any window |
| `data_core` | 1 probe, 3 runs, 2 captures of at most 2 runs, 2 lengths of a first embedding | Is a run judged by other runs that begin with a vector as long as its own, does a capture ever go back, is an undisturbed deletion complete? |
| `runner_core` | 3 prompts, 2 permits, 2 samples, 2 model versions | Are permits always in use and never shared, is the run what its prompts give one after the other, is its status honest, does it end? |
| `drift_core` | 2 prompts, clouds of 0 to 3 and samples of 0 to 2 points out of 3 of one dimension and 1 of another, 2 permutations | When is there a verdict, can it always alert, does it leave ordinary runs alone? Are the energy distance and the conformal p-value what they are called? |
| `vault_core` | 2 callers, 2 providers, 2 keys, 2 passphrases, failures and crashes | Atomic map, never torn, passphrase kept, lock released |
| `provider_core` | 2 runs of 1 prompt with 2 samples on any of 4 services; every kind of generation, trouble and vector of width 0 to 2 | Are the adapters the provider the runner assumes; are only whole answers and independent draws kept; can vectors be compared? |
| `daemon_core` | 11 configuration files, 5 of them of a daemon that starts, 1 loop, 2 requests, 1 change of the key, 1 run, crashes | Has every event its run, every status its effect, every run a fresh key? What kills a loop? Is a shutdown graceful, and does it end? |
| `doc_*` | | disagreements, section 6 |

The properties:

- `HotLoopsAreFaulty`, `NeverEarly`, `SleepIsPersisted` tie the loops' sleeps to the
  persisted schedule, of the probes whose writes the store takes, beside one whose writes
  fail. `SleepIsPersisted` and `NeverEarly` are checked for probes that are not edited:
  after an edit the old loop may still write (section 6), and both are false for the
  same reason as `EditTakesEffect`.
- `LoopsAreAccountedFor` relates reconcile's map to the tasks that exist: a probe has
  exactly one loop that goes on and the handle is its own, or it has neither.
- `PermitsAreServed` is about the semaphore under aborts: none is lost and none is free
  while somebody waits. `RunsAreCapped` adds who gets it: the loop that has waited longest, in
  the step in which it is released. Two edits
  make three loops compete for one permit, so that the line is two long, and both serving the last of it
  and handing a place to nobody are found. Restarts and failing writes are left to `scheduler_core`.
- `EveryProbeKeepsRunning`, `DeletedProbeIsLeftAlone` and `ShutdownEndsEveryLoop` are
  liveness properties.
- `CooldownKept`, `EventsMatchNotifications` and `BudgetKept` hold while evaluations are
  cut short anywhere. What such an evaluation had done and not yet written (`cut`) is
  the only thing they leave out, and only where it is lost: recorded events keep
  the cooldown, recorded events were sent, and the ledger keeps the budget, without it.
- `NeverAgainstItself` and `CloudsAreComparable` relate a run's report to the runs in the
  baseline it names: they are others, of its probe, and begin with a vector as long as its
  own, which does not mean the same embedding model (section 6); `LaterCaptureIsNewer` relates two captures and the order in which
  runs were begun, not stored; `QuietDeletionIsComplete` says what the cascade's lists
  miss (nothing) when nobody writes, as `doc_deletion_complete` shows what it misses when
  somebody does.
- `PermitsAreUsed` relates the prompts in flight to those that have not ended;
  `OverlapDoesNotShow` compares a run with what its prompts would give one after the
  other; `StatusIsHonest` compares the status with what the run holds.
- `JudgedIfComparable` says exactly when there is a verdict: not only data may lack, a
  single vector of another length in one prompt takes it from all of them, in one mode, and
  in the other also two prompts that are each of one dimension but not of the same.
  `GateResolves` and
  `OrdinaryRunsAreQuiet` are the two sides of an alert; `EnergyIsADistance` and
  `ConformalIsExact` check the formulas against the definition of what they compute.
- `VaultIsKept` is an action property: once there is a vault, there is always one, whole
  and under the same passphrase. `IsAtomicKeyMap` is the refinement; `LockIsReleased` is
  liveness.
- `OnlyWholeAnswers` relates what is kept to what the service had generated, over four
  wire formats that say it differently; `DrawsAreIndependent` spans runs;
  `EmbeddingsFit` relates `embedding_dim` (which decides how a run is made) to `embed`
  (which may refuse) and to what comes back; `ImplementsRunner` is the refinement of
  `ProbeRunner` with its liveness: every call returns.
- `EventsHaveTheirRun` is about events being written before the run: it holds because
  nothing is awaited between the two. `AnswersAreTrue` holds because handlers change the
  store after their last await only; a 408 therefore means that nothing was stored.
  `KeyIsFresh` says how fresh: no key replaced before the loop woke (but one replaced
  while it waits for a permit is used, section 6). `LoopsDieClean` names
  every value of a valid configuration that makes a loop panic, and says that none does so after
  something of the run is recorded: the event and the run stay together, and what is lost is
  the probe's loop, silently. `GracefulStop` says that accepted requests
  are answered before the loops are stopped, and that a daemon told to stop does.

*Bounds.* One permit makes every pair of runs compete; a second probe is what it takes
for one to wait, and a queue of two is reached with three slots and two edits: an aborted loop,
its aborted successor and the current one. Schedules of one and two ticks are enough to tell "now",
"next" and "later" apart. In the alert instance the clock
passes the window and the cooldown, so a debit is pruned and a rule fires
again after its cooldown, and the budget of 3 is used up by one look of one rule and by
two of the other; `PValue = {0, 9}` is a report that fires at every level and one that
fires at none. `Scheduler!MaxVersion`, `MaxRestarts`, `AlertPipeline!MaxTime`,
`ProviderClient!MaxRuns` and `Daemon!MaxRuns`, `MaxChanges`, `MaxStarts` are the
only bounds written into the models; the vault needs none, its state space is finite,
and the clocks of `ProbeData` advance once per run or capture of its finite sets. Three
runs with two to a capture make one run fall out of the list, and let one stored late
turn up behind a newer one; the second capture is begun before, while or after the
first one is answered. A run of three prompts with two permits has one that waits, and two
samples are what it takes for a prompt to have a first usable answer that is not its first
answer, or a version its first answer did not name. Clouds of up to three and samples of
up to two points, equal, in part equal or apart, reach both modes, both kinds of scores, a
mixture of them in one gate, ties, and groups of different sizes; a point of a second
dimension may be all of a cloud or a sample, its first or its last, in either prompt, so a test fails
before, between and after scores; two permutations (what a
target rate of one half asks for) give all three p-values. In `provider_core` one prompt is
enough, as the overlap of prompts is `runner_core`'s and is proved for any number
(`ClientRunsAreDeterminate`); two samples make Ollama's `embed` fail half-way and a cached
answer be a repetition, within a run and, with two runs, across runs and services. In
`daemon_core` one loop, a request and a second one are what it takes for a key to be
changed between a loop's or a request's resolution and its run, and for a drain to wait for
more than one; one change replaces or removes the key. The files are one with an API key and one
permit whose window of 4 is no duration, one with the default window, and one each with a window
of 3, which is beyond the calendar, with a target rate of 1/201, which takes more than the
200 permutations there is room for, and with 4 samples where there is room for 3; and six that a daemon
does not start with.

*Deadlock* is checked in every run but `drift_core`, whose computation ends, and
`provider_core` and `daemon_core`, where the bounds on runs, changes and starts end what the
program would go on with.

*Fairness.* `Scheduler!Fairness` is weak fairness of: the clock; reconcile, which the
30-second ticker polls; the spawning steps and the handlers' steps, which are code
between awaits; and each task's next step. tokio polls a task that is ready, a provider
call and a notification end by their client timeouts, and the semaphore is fair in
the order of the queue, so weak fairness is enough where a waiter needs somebody
else's permit. Nothing is assumed of store writes: they may fail for ever.
`ProbeRunner!Fairness` is weak fairness of each prompt's future and of the join: a
provider call ends by the client's request timeout, and tokio polls what is woken.
`ProviderClient!ClientFairness` is the same of the adapters: a request is answered or times
out (30 s, 120 s for Ollama). `Daemon!Fairness` is weak fairness of the loops' steps and
drops, of the handlers and the timeout layer (30 s), of main's own steps, and of answers
being read or their connection breaking; none of bodies being sent, keys being
changed, signals, starts or crashes. A client that neither reads its answer nor goes
away would keep the drain waiting for as long as TCP lets it; that is assumed away.
`Vault!FairSpec` assumes weak fairness of a thread in the middle of a call, none of
calls being made, and none of starts or crashes. `LockIsReleased` does not depend on a
successful write: a failing one returns as well.

## 4. What is proved

All theorems hold for every value of the constants that satisfies the module's
`ASSUME`, and are checked by TLAPS to the last leaf.

| Theorem | Says | Assumes |
|---|---|---|
| `SchedulerProofs!TypeCorrect` | `TypeOK` | |
| `SemaphoreKept` | `PermitsAreServed` | |
| `RunsKeepTheCap` | `RunsAreCapped`: `Scheduler` implements `RunCap` | |
| `RunsBeginInTurn` | `RunCap!NobodyIsOvertaken` of the loops and the semaphore's waiters | |
| `NoStrayLoop` | `LoopsAreAccountedFor` | |
| `NoLoopRunsHot` | `HotLoopsAreFaulty` | |
| `SleepsAreOnDisk`, `NoRunBeforeItsTime` | `SleepIsPersisted`, `NeverEarly` | `MaxVersion = 1`: probes are not edited |
| `AlertProofs!CooldownHolds` | `CooldownKept` | |
| `EventsAndNotificationsMatch` | `EventsMatchNotifications` | |
| `BudgetHolds` | `BudgetKept` | |
| `DataProofs!DataTypes`, `RunsAreJudgedByOthers`, `ComparedCloudsAgree`, `BaselinesMoveForward`, `QuietDeletionErases` | `TypeOK`, `NeverAgainstItself`, `CloudsAreComparable`, `LaterCaptureIsNewer`, `QuietDeletionIsComplete` | |
| `ProviderProofs!RunnerTyped`, `PermitsNeverIdle`, `RunsAreDeterminate`, `StatusTold` | `TypeOK`, `PermitsAreUsed`, `OverlapDoesNotShow`, `StatusIsHonest` | |
| `DriftProofs!AlwaysAbleToAlert`, `LevelsFollowTheTest` | `GateResolves`; a verdict has the level of its p-value | |
| `OrdinaryIsQuiet`, `JudgedJustIfComparable` | `OrdinaryRunsAreQuiet`, `JudgedIfComparable` | |
| `ConformalHolds`, `EnergyHolds` | `ConformalIsExact`, `EnergyIsADistance`: of every cloud and sample | |
| `VaultProofs!VaultTyped`, `VaultSurvives` | `TypeOK`, `VaultIsKept` | |
| `Atomic` | `IsAtomicKeyMap`: the vault implements `KeyMap` | |
| `ProviderProofs!AdaptersImplementProvider`, `ClientRunsAreDeterminate` | every step of the adapters is a step of `ProbeRunner` or none, and so `OverlapDoesNotShow` of the composition | |
| `AnswersAreWhole`, `NoCachedDraws`, `VectorsFit` | `OnlyWholeAnswers`, `DrawsAreIndependent`, `EmbeddingsFit` | |
| `DaemonProofs!DaemonIsTyped`, `NoEventWithoutRun`, `StatusTellsTheTruth`, `NoStaleKey`, `DeadLoopsAreClean` | `TypeOK`, `EventsHaveTheirRun`, `AnswersAreTrue`, `KeyIsFresh`, `LoopsDieClean` | |
| `NothingIsCutOff` | the loops are stopped only when every accepted request is answered (the safety half of `GracefulStop`) | |
| `SumTheorems!SumRemove`, `SumCompare`, `SumInjection`, `SumBijection`, ... | what a sum over a finite set is, and when two are equal or ordered | |

*Scheduler.* `Inv` is the conjunction of `TypeOK`, `PermitsAreServed` and
`LoopsAreAccountedFor`, in their parts. They need each other: that a
permit handed over is not lost needs the head of the queue to be a queued task, that
`Respawn` keeps the probe's loops tracked needs the handle it replaces to be that of the
probe's loop, and the slot `Spawn` takes is no other probe's because live handles point
at live slots. The proof has a lemma per action, and lemmas for the release of a permit,
which is where the cardinality of the holders changes. `HotLoopsAreFaulty` is not inductive: a
loop that has tried a run comes back to its sleep through the persisted schedule.
`Cool` adds that such a loop, when it is about to read, finds a later time, and rests on
two lemmas: `NextRunIsLater` (a schedule never names the present) and
`OnlyTimeMakesDue` (nothing but the clock makes a persisted time come due).
`SleepIsPersisted` needs the loop of a stored probe to be alone in writing its schedule.
`Filed` says why it is where nothing is edited: reconcile then replaces no loop, so an
aborted loop has lost its probe (or the scheduler has stopped), and its late writes go to
the schedule of a probe that is gone and whose id does not come back (`Ids`).

`RunCap` is implemented step by step: the same lemma that counts the holders when a permit
is released says which loop takes the place, a loop that wakes finds nobody waiting when a
permit is free (`WaitersAreQueued`), and every other step leaves holders and line as they
are. `RunsBeginInTurn` follows from the refinement and from the waiters being different
loops: what is left of the line after one leaves it (`Without`) is in the old order.

*AlertPipeline.* `AInv` adds to the two properties that the last-fired index is as new
as any event of a stored rule (`IndexIsNewest`); that what an evaluation has read of a
stored rule is not stale (`ReadIsFresh`, where it matters that only the evaluation
itself moves the index forward and that a deleted rule's id does not come back); that an
event about to be inserted keeps its distance (`NextIsApart`); and that its channels
were tried (`NextIsSent`). `RInv` adds that a notification has its event, or is about to,
unless its evaluation is in `cut`. `BudgetKept` bounds two sums over any window: of the
tests made, and of the debits written. `BInv` follows a test from the decision to its debit. What
an evaluation has read as spent is no less than what counts at its decision (`SpentIsFresh`:
time only makes debits leave the window), so that a debit not yet written fits in with those
already in its window (`RoomIsLeft`). A test of an evaluation that was not cut short
is about to be debited, or is out of the window, or has a debit
of its own (`LooksAreDebited`), later than the test and before the next one of its rule: so the debits
of different tests are different, and the sum over tests is at most that over debits
(`SumInjection`).

*ProbeData.* `DInv` adds to `TypeOK` that a stored run stays stored as long as its probe
is (`Kept`, which rests on a deletion's list naming runs of its own probe only:
`Belongs`), that what a capture lists and folds are stored runs of its probe, with
first embeddings of one length once built (`FoldsAlike`), and that a report names a finished capture that has
not seen the run (`ReportsAreFair`: a run is stored only after its report, and only
stored runs are listed). `LaterCaptureIsNewer` needs `Ordered`: while a capture of a
stored probe is reading, the newest run of every earlier capture is still before it, or
all it has listed are newer. It holds at the beginning because the most recent runs are
closed upwards (`MostRecentIsUpwardClosed`, a cardinality argument), and each reading
keeps it because that run cannot have been deleted. `Erased` follows a deletion through
its transactions: nobody is left to write, and what has been removed stays removed.

*ProbeRunner.* `RInv` says that where a future is agrees with how often it was answered
(`Places`), that what it has kept is a function of the replies so far (`Remembers`: its answers are the usable ones,
its version the first named), that the permits are in use, and that the result is built
from futures that have ended (`Joined`). `PermitsAreUsed` is an equation between two
cardinalities that every end of a future changes; `PollingUsesPermits` and
`LeavingUsesPermits` count. That the first named version is the same by prompt and then by
call rests on `FirstVersionStays`: a reply appended to a history that names a version does
not change which is first.

*DriftAssessment.* `AlwaysAbleToAlert` is an arithmetic fact (`EnoughPermutations`: the
ceiling of 1 / `target_fpr`, times `target_fpr`, is at least 1, so that 1 / (B + 1) is
below it) carried to every verdict by the invariant `ReportAgrees`. `OrdinaryRunsAreQuiet` is
about counting: of a run that is ordinary every draw reaches the observed total
(`DrawReaches`: what is drawn is never negative), so that `GInv` has as many reached as drawn, and
the p-value at the end is 1. `JudgedIfComparable`
rests on `JudgeInv`: prompt after prompt, what has been scored is of one dimension, and what
has ended without a verdict has a reason. A check of every vector against one is a comparison of
all with all (`AllAsLongIsOneDimension`); for the pooled test that takes which embeddings the pools
have (`PooledEmbeddings`) and how many (`PooledLength`: the sum of the prompts' lengths). For
`ConformalIsExact` a point's score in the augmented cloud is the sum of its distances to
all others, the same sum in a different order: `Skip`, which numbers the others, is a
bijection (`SkipIsABijection`). So the exchanged runs' p-values rank one and the same set of
scores, and of any finitely many numbers at most j have at most j, themselves included, that
are no smaller (`RanksAreExact`).

`EnergyIsADistance` says that the statistic is never negative and zero just when the
two samples take each value equally often. The distance of two integers is the number of
thresholds between them (`DistanceOfTwo`), so that every one of the statistic's sums of
distances is a sum over thresholds of products of two counts: of the points below and
of those above (`AlongValue`, `AcrossValue`). Together they are, at each threshold, twice the square
of the gap between the two samples' shares below it, times their sizes (`EnergyTerm`,
`EnergyIsASumOfSquares`): a sum of squares. It is zero if and only if every gap is
(`SquaresAddUp`, `EnergyAndGaps`); and the shares below every threshold agree if and only if those of every
value do (`UptoStep`, `GapsAndShares`).

*Sums.* The modules sum with `SumFunctionOnSet` of the community modules, whose
recursion over a set picks an element by `CHOOSE`. `SumTheorems` proves that the recursive
function exists (`FoldExists`) and that the order of picking does not matter (`SumRemove`). As no library
induction theorem can be instantiated here, the induction is stated with sets: a set of
naturals that holds 0 and successors holds all (`NaturalsBySuccessor`, from `LeastNatural`), and a set of subsets of a
finite set that holds the empty one and is closed under adding an element holds the set
(`SubsetsByElement`).

*Vault.* `VInv` says that writers are alone (`LockInv`), that what the writer has
decrypted is still what the file holds (`CallInv`), and that `main` writes only where
there is no vault (`MainInv`). From it every step of `Vault` is a step of `KeyMap` or a
stutter: a read takes effect when the file is read, a change when it is renamed.

*ProviderClient.* `CInv` ties each prompt's request in flight to where its future is, the
histories to the calls made, `drawn` to the serial numbers handed out, and the cache to
requests whose nonce is older than any to come: a nonce is what makes a request never
seen before, so the cache is never asked twice (`NoCachedDraws`). Ollama sends none, and
`cache` holds requests to the cloud only. The refinement rests on what each adapter returns being in
`ProbeRunner!Completion`: a version is never the empty name.

*Daemon.* `DInv` relates where a loop is to whether its run is stored, has events, or was
cut; where a request is to whether it has changed anything; and the key of each to the
last change. A run number is used by one loop or request only, which is what
keeps one's storing from speaking for another's (`RunsAreApart`, among loops as well as between
loops and requests); and a loop that is dead or has not come to its alerts has a run of which
nothing is recorded (`Unrecorded`), which is what `LoopsDieClean` needs.

*Model-checked only.* Liveness under fairness: `EveryProbeKeepsRunning`,
`DeletedProbeIsLeftAlone`, `ShutdownEndsEveryLoop`, `LockIsReleased`, `RunEnds`, and with it
the fairness half of `ImplementsRunner` and the response half of `GracefulStop`, whose safety halves are
theorems. Fairness is about `ENABLED`, which the provers do not handle. `SleepIsPersisted` and `NeverEarly` are theorems and
runs for probes that are not edited; with edits they are false. Every invariant that a passing run checks is a
theorem. So is the `TypeOK` of every module that has one; the runs check it for the
scheduler, the vault and the daemon. The modules without one have their types in the
invariants they are proved from (`BudgetShape`, `GateShape`, `CInv`).

## 5. Abstractions

- Next-run times and sleeps are the time left until them: the code uses
  `max(next_at - now, 0)` only.
- A cron expression is a period: it fires when the clock is a multiple of it.
  `validate_schedule` rejects expressions that never fire.
- Levels and p-values are integers; the ledger's floating-point sums are exact.
- A run is its storing in `Scheduler` and the length of its first embedding in `ProbeData`.
- In `ProbeData` no two runs begin, and no two baselines are captured, at one time, and
  the wall clock is not set back.
- Embeddings of one dimension are integers, those of two have no distance; sums and comparisons are exact; the tolerance of the
  comparisons (`PERMUTATION_TOLERANCE`) makes ties of what is within rounding, and ties
  are what the model has.
- Encryption is a file with a passphrase; a truncated or half-written file is torn.
- A fresh uuid is an id of a finite set that is given out once.
- Room that a vector may ask for and the machine does not have ends the process: that is `Crash`.

## 6. Where the code and its text disagree

Each has a run that must end in a violation.

| Run | The text | The code |
|---|---|---|
| `doc_edit_takes_effect` | `scheduler.rs:186`: the new schedule "takes effect now instead of after the pending run" | the aborted loop may still write the old schedule's next run after reconcile dropped it |
| `doc_no_hot_loop` | `scheduler.rs:250` and `:317`: the loop "does not hot-loop"; a failed write only loses precision | after a failed write the loop reads the time that is already due, and tries again at once |
| `doc_deletion_complete` | `store/src/lib.rs:108`: a probe and its runs are deleted "atomically" | four transactions, and a run in flight is stored after them |

Noticed while modelling, and not stated as a run:

- `alert.rs:30` calls the cooldown the "minimum gap between notifications for the same
  rule", and `alert.rs:62` says that the budget "survives restarts and spans runs". Both
  hold of evaluations that run to their end. The events that start the cooldown and the
  debits are written after the notifications, so an evaluation cut short notifies again,
  and spends again: `CooldownKept` and `BudgetKept` are false without their exception for
  `cut`, and TLC finds either within seconds.
- `probe_runner.rs:170` calls the status classification of the two kinds of runs
  identical; an answer without text fails its prompt in `run` and not in
  `run_completions_only`.
- `assessment.rs:24` says that the pooled test is "valid with a single baseline run"; a
  single prompt with one baseline point has too small a group, and no verdict
  (`JudgedIfComparable`).
- `assessment.rs:30` says the gate is "never silently unable to alert". `GateResolves` is
  what that means for its grid. The relabelings may still be too few: with two points in
  the cloud and two in the run, a third of them gives the observed split, so p is about
  1/3 for any number of permutations.
- With the default target rate of 0.01 and 200 permutations the smallest p-value is
  1/201, which `severity_from_p` calls `Low`: the levels above are out of reach until
  `permutations` is raised tenfold for each.
- `scheduler.rs:50` says a shutdown waits for the loops; only the scheduler task is
  awaited, the loops are aborted and may still be ending.
- `scheduler.rs:43` speaks of a cap on concurrent runs; a run asked for by hand takes
  no permit.
- `alert_store.rs:81` says the last-fired entry of a deleted rule does not linger; an
  evaluation under way writes it back. The rule is gone, and ids are not reused.
- `run_store.rs:119` returns "the `limit` most-recent runs"; with a limit of 0 it returns
  one (`MostRecent`).
- `capture_baseline` applies `baseline_capture_runs` before it looks which runs are
  usable: with as many recent runs without embeddings it answers "no runs with
  embeddings found for probe" although older ones have them. Its comment speaks of
  successful runs; the status of a run is not looked at.
- `routes/baselines.rs:45` says that "a mid-stream embedding-model change never mixes
  incompatible vectors into one cloud". What is compared is the length of the first vector
  of each run (`baselines.rs:91`, `calculator.rs:64`), and no run has the name of its model.
  A change between two models of one width (`text-embedding-ada-002` and
  `text-embedding-3-small`, `openai.rs:72`) is mixed into one cloud and judged by it; so is a
  run that mixes widths and begins with the right one, until `check_dims` refuses its test.
- `capture_baseline` does not ask whether the probe is stored; a capture racing a
  deletion leaves a baseline of a deleted probe.
- The deletion cascade leaves a probe's alert rules, events and ledger.
- `main.rs:126` says that an out-of-range window "falls back to 'no control' rather than
  panicking". `try_seconds` takes windows that reach back beyond chrono's calendar, for which
  `Utc::now() - window` (`scheduler.rs:367`) panics at the first report; the loop's
  task ends with its handle in `active`, so the probe is not run again until it is edited
  or the daemon restarts (`LoopsDieClean` says which other values of a file do the same).
- `config.rs:69` says of the target rate only that it "must be in `(0, 1)`", and
  `assessment.rs:30` that the permutations are raised so that the gate is "never silently
  unable to alert". A rate such as 1e-20 asks for 2^64 - 1 permutations
  (`min_perms_for_resolution` saturates), for which `Vec::with_capacity` (`twosample.rs:378`)
  panics in the loop's task; `permutations` and `samples_per_prompt` are not bounded
  either. The loop dies at its first test of two samples or more, and no alert ever comes; with one
  sample a prompt the gate would draw that often, which the model takes to end.
- `main.rs:167` and `routes/vault.rs:5` say that a key takes effect on the next run. The key
  is read when the loop wakes, before it waits for a permit (`scheduler.rs:243`): the next run to begin
  may still use the key that was replaced while it waited (`KeyIsFresh` says no older).
- `config.rs:54` says "Maximum probe runs executing at once across all probes"; see the run
  by hand above.
- `provider/mod.rs:35` promises one vector per input, of identical dimension. OpenAI's and
  Azure's adapters do not compare the number of vectors with that of the texts, Ollama's does
  not compare the widths.
- `models.rs` calls `BaselineSnapshot.embedding_model` the model the baseline was made
  with; `routes/baselines.rs:116` stores `[providers.openai] embedding_model` whatever the
  provider.
- A first start without a passphrase creates a vault with an empty one; the next start
  without one refuses to open it (`main.rs:82`).
- Enlarging `sequential.window_secs` at a restart: debits already pruned for the old window
  are missing from the new one.
- `anthropic.api_version` and `[providers.ollama]` are parsed and not used.
- `vault.rs:195` speaks of a crash in the middle of a write; without `fsync` that covers
  the process, not the machine.

## 7. Plan

In the order of importance; all but the last are done, with what is left named.

1. `Scheduler` refining `RunCap`, `SchedulerProofs`. *Done.*
2. `AlertPipeline`, `AlertProofs`. *Done.*
3. `Vault` refining `KeyMap`, `VaultProofs`. *Done.*
4. `ProbeData`, `DataProofs`. *Done.*
5. `ProbeRunner`, `ProviderProofs`. *Done.*
6. `DriftAssessment`, `DriftProofs`, `SumTheorems`. *Done* for the tests themselves. Left: what the
   interpretation names as the strongest signal, and the rules' levels against the
   permutations, which the calculator raises for the global target rate only.
7. `ProviderClient` refining `ProbeRunner`, `ProviderProofs`. *Done.*
8. `Daemon`, `DaemonProofs`. *Done.* Left: the SMTP password, which is read once at
   start-up, beside the provider's key, which is read per run.

## 8. Not modelled

Rounding in the drift tests and their 64-bit generator; SMTP, the choice of allowed webhook
addresses and the wording of notifications and interpretations: I/O, formats and
pure functions of one value. The routes that only read, `/health`, CORS, and an accept loop
that fails. `security_warnings` and the configuration fields that are handed on unread. The
command line and the dashboard, which are HTTP clients without state. Power loss
(section 2.6), and an operator who edits the configuration file while the daemon
runs: it is read once. The deletion of alert rules with their probe, which the code does not do
(section 6).
