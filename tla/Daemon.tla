------------------------------- MODULE Daemon -------------------------------
(***************************************************************************)
(* The process (crates/daemon/src/main.rs, server.rs): a configuration is   *)
(* loaded, the probe loops are started, a listener is bound, requests go    *)
(* through the layers of the router to their handlers, and a signal drains  *)
(* the server and then stops the loops.  Loops and handlers are futures: a  *)
(* timeout, a client that goes away or an abort drops one, but only where   *)
(* it awaits; in between, its steps interleave with those of the others.    *)
(*                                                                          *)
(* A loop is one pass after the other of run_probe_loop; when it is due,    *)
(* which probes there are and the queue for permits are Scheduler's, what a *)
(* call to a provider does is ProviderClient's, and the rules, the channels *)
(* and the amounts spent are AlertPipeline's.                               *)
(***************************************************************************)
EXTENDS Integers, FiniteSets

CONSTANTS
  Task,           \* slots for probe loops
  Request,        \* slots for requests in flight
  File,           \* what the configuration file may say at a start
  Absent,         \* what a file leaves out, and a file that cannot be read or parsed
  Token,          \* what a request may show as its API key
  DefaultWindow,  \* 30 days
  MaxSeconds,     \* the longest duration chrono's try_seconds takes
  Calendar,       \* how far back from now chrono's calendar goes
  MaxPermits,     \* the most permits a semaphore of tokio takes
  MaxAnswers,     \* the most answers, and
  MaxNulls,       \* the most numbers a vector can be given room for
  MaxRuns, MaxChanges, MaxStarts  \* bounds on runs, changes of the key and starts

May(S) == S \cup {Absent}

\* The fields of AppConfig that the process turns on: target_fpr is a fraction, the budget
\* in percent, samples is samples_per_prompt.
Config == [port         : Nat \ {0},
           permits      : Nat \ {0},
           target_fpr   : {f \in [num : Nat \ {0}, den : Nat] : f.num < f.den},
           permutations : Nat,
           samples      : Nat,
           auth         : [enabled : BOOLEAN, api_keys : SUBSET Token],
           sequential   : May([window : Nat, budget : Int])]

ASSUME DaemonAssumption ==
  /\ File \subseteq May([port         : Nat,
                         permits      : May(Nat),
                         target_fpr   : May([num : Int, den : Nat \ {0}]),
                         permutations : May(Nat),
                         samples      : May(Nat),
                         auth         : May([enabled : BOOLEAN, api_keys : SUBSET Token]),
                         sequential   : May([window : May(Nat), budget : May(Int)])])
  /\ Absent \notin Config
  /\ IsFiniteSet(Task)
  /\ Calendar \in Nat /\ MaxSeconds \in Nat /\ DefaultWindow \in Nat \ {0}
  /\ MaxPermits \in Nat /\ MaxAnswers \in Nat /\ MaxNulls \in Nat
  /\ MaxRuns \in Nat /\ MaxChanges \in Nat /\ MaxStarts \in Nat

VARIABLES
  phase,    \* how far main has come
  config,   \* the configuration in use, Absent when the process is down
  starts,
  loop,     \* the probe loops: [pc, key, since, run]
  aborted,  \* the loops whose task has been aborted
  request,  \* [pc, kind, key, since, run, status]
  vault,    \* the provider's key on disk: its last change, and whether there is one
  made,     \* the runs begun
  runs,     \* the runs stored
  events,   \* the runs with an alert event stored
  done,     \* history: the requests in flight that changed what is stored
  cut       \* history: the runs whose job a fault ended while it was recording them

vars == <<phase, config, starts, loop, aborted, request, vault, made, runs, events, done, cut>>

-----------------------------------------------------------------------------
(* The configuration *)

Given(value, default) == IF value = Absent THEN default ELSE value

NoAuth == [enabled |-> FALSE, api_keys |-> {}]
Sequential(s) ==
  IF s = Absent THEN Absent
  ELSE [window |-> Given(s.window, DefaultWindow), budget |-> Given(s.budget, 5)]

\* serde's defaults.
Parse(f) ==
  [port         |-> f.port,
   permits      |-> Given(f.permits, 8),
   target_fpr   |-> Given(f.target_fpr, [num |-> 1, den |-> 100]),
   permutations |-> Given(f.permutations, 200),
   samples      |-> Given(f.samples, 3),
   auth         |-> Given(f.auth, NoAuth),
   sequential   |-> Sequential(f.sequential)]

\* Strictly between 0 and 1.
IsRate(f) == 0 < f.num /\ f.num < f.den

MutantValidate(c) == c.port # 0 /\ IsRate(c.target_fpr)
Validate(c) ==
  /\ c.port # 0
  /\ IsRate(c.target_fpr)
  /\ c.permits # 0
  /\ c.auth.enabled => c.auth.api_keys # {}

MutantSequentialWindow(c) == IF c.sequential = Absent THEN Absent ELSE c.sequential.window
\* A window that is no duration, or empty, and a budget that is not positive: no control.
SequentialWindow(c) ==
  IF c.sequential = Absent THEN Absent
  ELSE IF c.sequential.window \in 1..MaxSeconds /\ c.sequential.budget > 0
       THEN c.sequential.window ELSE Absent

Controlled == SequentialWindow(config) # Absent

\* Those of the file, or as many as the target rate takes (min_perms_for_resolution).
Permutations(c) ==
  LET needed == (c.target_fpr.den + c.target_fpr.num - 1) \div c.target_fpr.num
  IN IF c.permutations < needed THEN needed ELSE c.permutations

-----------------------------------------------------------------------------
(* Probe loops *)

Loop == [pc    : {"none", "sleep", "woken", "queued", "calling", "notifying",
                  "recording", "debiting", "storing", "dead"},
         key   : 0..MaxChanges + 1,   \* the change that stored the key of the run
         since : 0..MaxChanges + 1,   \* history: the last change when the loop woke
         run   : 0..MaxRuns]
NoLoop == [pc |-> "none", key |-> 0, since |-> 0, run |-> 0]

\* After evaluate_and_fire, run_probe_job awaits nothing until its run is stored.
Recording == {"recording", "debiting", "storing"}
Running   == {t \in Task : loop[t].pc \in {"calling", "notifying"} \cup Recording}

MutantAwaits == {"sleep", "queued", "calling", "notifying", "recording", "debiting", "storing"}
\* Where a task that has been aborted is dropped.
Awaits == {"sleep", "queued", "calling", "notifying"}

SchedulerRuns == phase \in {"starting", "serving", "draining"}

Goes(t, l) ==
  /\ loop' = [loop EXCEPT ![t] = l]
  /\ UNCHANGED <<phase, config, starts, request, vault, done>>

\* reconcile has a new probe or an edited one.
Spawn(t) ==
  /\ SchedulerRuns /\ loop[t].pc = "none"
  /\ Goes(t, [NoLoop EXCEPT !.pc = "sleep"])
  /\ UNCHANGED <<aborted, made, runs, events, cut>>

\* reconcile misses the probe, or finds it edited.
Abort(t) ==
  /\ SchedulerRuns /\ loop[t].pc # "none" /\ t \notin aborted
  /\ aborted' = aborted \cup {t}
  /\ UNCHANGED <<phase, config, starts, loop, request, vault, made, runs, events, done, cut>>

Dropped(t) ==
  /\ t \in aborted /\ loop[t].pc \in Awaits \cup {"dead"}
  /\ Goes(t, NoLoop)
  /\ aborted' = aborted \ {t}
  /\ UNCHANGED <<made, runs, events, cut>>

\* A loop goes on from where it awaits, unless it has been aborted.
Resumes(t, pc) == loop[t].pc = pc /\ t \notin aborted

At(t, pc) == Goes(t, [loop[t] EXCEPT !.pc = pc]) /\ UNCHANGED <<aborted, made>>
\* advance_schedule, and the next pass sleeps.
Rests(t) ==
  Goes(t, [NoLoop EXCEPT !.pc = "sleep", !.key = loop[t].key]) /\ UNCHANGED <<aborted, made>>

Wake(t) ==
  /\ Resumes(t, "sleep")
  /\ Goes(t, [loop[t] EXCEPT !.pc = "woken", !.since = vault.change])
  /\ UNCHANGED <<aborted, made, runs, events, cut>>

MutantKeyFor(t) == IF loop[t].key # 0 THEN loop[t].key
                   ELSE IF vault.present THEN vault.change ELSE 0
\* require_key, 0 if there is none.
KeyFor(t) == IF vault.present THEN vault.change ELSE 0

\* Without a key the run is skipped.
Resolve(t) ==
  /\ loop[t].pc = "woken"
  /\ \/ KeyFor(t) = 0 /\ Rests(t)
     \/ /\ KeyFor(t) # 0
        /\ Goes(t, [loop[t] EXCEPT !.pc = "queued", !.key = KeyFor(t)])
        /\ UNCHANGED <<aborted, made>>
  /\ UNCHANGED <<runs, events, cut>>

\* What a run begins with: room for the answers to a prompt, and then the provider is
\* called.  More room than there can be is a panic, unless the provider does not embed:
\* then one answer is asked for.
Beginnings == {"calling"} \cup (IF config.samples > MaxAnswers THEN {"dead"} ELSE {})

\* A permit is free; a panic ends the loop's task, and gives it back.
Call(t) ==
  /\ Resumes(t, "queued")
  /\ Cardinality(Running) < config.permits
  /\ made < MaxRuns
  /\ made' = made + 1
  /\ \E pc \in Beginnings : Goes(t, [loop[t] EXCEPT !.pc = pc, !.run = made + 1])
  /\ UNCHANGED <<aborted, runs, events, cut>>

\* The run fails, or the store does before the alerts.
RunFails(t) ==
  /\ Resumes(t, "calling") /\ Rests(t)
  /\ UNCHANGED <<runs, events, cut>>

\* No embeddings, no baseline, or a baseline that cannot be compared.
NoReport(t) ==
  /\ Resumes(t, "calling") /\ At(t, "storing")
  /\ UNCHANGED <<runs, events, cut>>

\* The provider embeds.  A test that keeps the statistic of every permutation takes room
\* for them (the conformal one does not), and `Utc::now() - window` panics outside the
\* calendar.
Report(t) ==
  /\ Resumes(t, "calling") /\ config.samples <= MaxAnswers
  /\ \/ Permutations(config) > MaxNulls /\ At(t, "dead")
     \/ At(t, IF Controlled /\ SequentialWindow(config) > Calendar THEN "dead" ELSE "notifying")
  /\ UNCHANGED <<runs, events, cut>>

Budgeting == IF Controlled THEN "debiting" ELSE "storing"

\* evaluate_and_fire returns, with events or without.
Notified(t) ==
  /\ Resumes(t, "notifying")
  /\ At(t, "recording") \/ At(t, Budgeting)
  /\ UNCHANGED <<runs, events, cut>>

RecordEvents(t) ==
  /\ loop[t].pc = "recording" /\ At(t, Budgeting)
  /\ events' = events \cup {loop[t].run}
  /\ UNCHANGED <<runs, cut>>

RecordSpends(t) ==
  /\ loop[t].pc = "debiting" /\ At(t, "storing")
  /\ UNCHANGED <<runs, events, cut>>

StoreRun(t) ==
  /\ loop[t].pc = "storing" /\ Rests(t)
  /\ runs' = runs \cup {loop[t].run}
  /\ UNCHANGED <<events, cut>>

\* The store fails: the job ends, with what it has recorded of the run.
JobFails(t) ==
  /\ loop[t].pc \in Recording /\ Rests(t)
  /\ \/ events' = events
     \/ loop[t].pc = "recording" /\ events' = events \cup {loop[t].run}
  /\ cut' = cut \cup {loop[t].run}
  /\ UNCHANGED runs

LoopStep(t) ==
  \/ Wake(t) \/ Resolve(t) \/ Call(t)
  \/ RunFails(t) \/ NoReport(t) \/ Report(t)
  \/ Notified(t) \/ RecordEvents(t) \/ RecordSpends(t) \/ StoreRun(t) \/ JobFails(t)

-----------------------------------------------------------------------------
(* Requests: to run a probe, and to store or remove the key of its provider *)

Ok                  == 200
NoContent           == 204
Unauthorized        == 401
NotFound            == 404
RequestTimeout      == 408
PayloadTooLarge     == 413
UnprocessableEntity == 422
TooManyRequests     == 429
InternalServerError == 500
Pending             == 0

Status == {Ok, NoContent, Unauthorized, NotFound, RequestTimeout, PayloadTooLarge,
           UnprocessableEntity, TooManyRequests, InternalServerError, Pending}

\* AppError::into_response.
StatusOf(error) ==
  CASE error = "ProbeNotFound" -> NotFound
    [] error = "Config"        -> UnprocessableEntity
    [] OTHER                   -> InternalServerError

Kind == {"run", "put", "delete"}
Exchange == [pc     : {"idle", "reading", "handling", "calling", "replying"},
             kind   : Kind,
             key    : 0..MaxChanges + 1,
             since  : 0..MaxChanges + 1,  \* history: the last change when it was accepted
             run    : 0..MaxRuns,
             status : Status]
NoExchange == [pc |-> "idle", kind |-> "run", key |-> 0, since |-> 0, run |-> 0, status |-> Pending]

Open(q) == request[q].pc # "idle"

MutantRequestAwaits == {"calling"}
MutantAwaitsAnswer  == {"reading", "calling", "replying"}
\* Where the timeout and a client that goes away drop a handler: what is stored or
\* removed, and the answer, follow the last await.
RequestAwaits == {"reading", "calling"}

\* token_matches.
Authorized(token) == config.auth.enabled => token \in config.auth.api_keys

Becomes(q, r) ==
  /\ request' = [request EXCEPT ![q] = r]
  /\ UNCHANGED <<phase, config, starts, loop, aborted, events, cut>>
Answer(q, status) ==
  Becomes(q, [NoExchange EXCEPT !.pc = "replying", !.status = status, !.run = request[q].run])

\* The governor, the limit on the body and the API key come before the handler; a body
\* is read by its extractor, behind them.
Accept(q) ==
  /\ phase = "serving" /\ request[q].pc = "idle"
  /\ \E kind \in Kind, token \in Token :
       \/ \E s \in {TooManyRequests, PayloadTooLarge} : Answer(q, s)
       \/ ~Authorized(token) /\ Answer(q, Unauthorized)
       \/ /\ Authorized(token)
          /\ Becomes(q, [request[q] EXCEPT !.kind = kind, !.since = vault.change,
                             !.pc = IF kind = "put" THEN "reading" ELSE "handling"])
  /\ UNCHANGED <<vault, made, runs, done>>

\* The body is complete, or too long, or not what it should be.
ReadBody(q) ==
  /\ request[q].pc = "reading"
  /\ \/ Becomes(q, [request[q] EXCEPT !.pc = "handling"])
     \/ \E s \in {PayloadTooLarge, UnprocessableEntity} : Answer(q, s)
  /\ UNCHANGED <<vault, made, runs, done>>

\* trigger_probe_run up to its first await: the probe, its provider with the key, and the
\* beginning of the run, whose panic drops the connection.
TriggerRun(q) ==
  /\ request[q].pc = "handling" /\ request[q].kind = "run"
  /\ \/ \E error \in {"ProbeNotFound", "Vault", "Config"} : Answer(q, StatusOf(error))
        /\ UNCHANGED made
     \/ /\ vault.present /\ made < MaxRuns
        /\ made' = made + 1
        /\ \E pc \in Beginnings :
             Becomes(q, IF pc = "dead" THEN NoExchange
                        ELSE [request[q] EXCEPT !.pc = pc, !.key = vault.change, !.run = made + 1])
  /\ UNCHANGED <<vault, runs, done>>

\* From its last await: the run fails or the store does, or the run is stored.
FinishRun(q) ==
  /\ request[q].pc = "calling"
  /\ \/ Answer(q, StatusOf("Provider")) /\ UNCHANGED <<runs, done>>
     \/ Answer(q, Ok) /\ runs' = runs \cup {request[q].run} /\ done' = done \cup {q}
  /\ UNCHANGED <<vault, made>>

UpsertKey(q) ==
  /\ request[q].pc = "handling" /\ request[q].kind = "put"
  /\ \/ \E error \in {"Config", "Vault"} : Answer(q, StatusOf(error)) /\ UNCHANGED <<vault, done>>
     \/ /\ vault.change <= MaxChanges
        /\ vault' = [change |-> vault.change + 1, present |-> TRUE]
        /\ done' = done \cup {q}
        /\ Answer(q, Ok)
  /\ UNCHANGED <<made, runs>>

DeleteKey(q) ==
  /\ request[q].pc = "handling" /\ request[q].kind = "delete"
  /\ \/ Answer(q, StatusOf("Vault")) /\ UNCHANGED <<vault, done>>
     \/ ~vault.present /\ Answer(q, StatusOf("Config")) /\ UNCHANGED <<vault, done>>
     \/ /\ vault.present /\ vault.change <= MaxChanges
        /\ vault' = [change |-> vault.change + 1, present |-> FALSE]
        /\ done' = done \cup {q}
        /\ Answer(q, NoContent)
  /\ UNCHANGED <<made, runs>>

\* The timeout layer drops the handler.
TimesOut(q) ==
  /\ request[q].pc \in RequestAwaits
  /\ Answer(q, RequestTimeout)
  /\ UNCHANGED <<vault, made, runs, done>>

\* The client has its answer.
Reply(q) ==
  /\ request[q].pc = "replying"
  /\ Becomes(q, NoExchange) /\ done' = done \ {q}
  /\ UNCHANGED <<vault, made, runs>>

\* The client goes away: its connection is dropped, and with it the handler or the answer.
Disconnect(q) ==
  /\ request[q].pc \in RequestAwaits \cup {"replying"}
  /\ Becomes(q, NoExchange) /\ done' = done \ {q}
  /\ UNCHANGED <<vault, made, runs>>

Handle(q) == TriggerRun(q) \/ UpsertKey(q) \/ DeleteKey(q)

-----------------------------------------------------------------------------
(* The process *)

Init ==
  /\ phase = "down" /\ config = Absent /\ starts = 0
  /\ loop = [t \in Task |-> NoLoop] /\ aborted = {}
  /\ request = [q \in Request |-> NoExchange]
  /\ vault \in [change : {1}, present : BOOLEAN]
  /\ made = 0 /\ runs = {} /\ events = {} /\ done = {} /\ cut = {}

\* Up to scheduler.start: the file, the store, the vault and the semaphore may each end it.
Start(f) ==
  /\ phase = "down" /\ starts < MaxStarts
  /\ starts' = starts + 1
  /\ \/ UNCHANGED <<phase, config>>
     \/ /\ f # Absent /\ Validate(Parse(f)) /\ Parse(f).permits <= MaxPermits
        /\ phase' = "starting" /\ config' = Parse(f)
  /\ UNCHANGED <<loop, aborted, request, vault, made, runs, events, done, cut>>

Bind ==
  /\ phase = "starting" /\ phase' = "serving"
  /\ UNCHANGED <<config, starts, loop, aborted, request, vault, made, runs, events, done, cut>>

\* SchedulerHandle::shutdown, and the runtime as main returns, abort every task.
StopLoops ==
  /\ phase' = "stopping"
  /\ aborted' = {t \in Task : loop[t].pc # "none"}
  /\ UNCHANGED <<config, starts, loop, request, vault, made, runs, events, done, cut>>

BindFails == phase = "starting" /\ StopLoops

Signal ==
  /\ phase = "serving" /\ phase' = "draining"
  /\ UNCHANGED <<config, starts, loop, aborted, request, vault, made, runs, events, done, cut>>

\* server::run returns.
Drained == phase = "draining" /\ (\A q \in Request : ~Open(q)) /\ StopLoops

\* The runtime waits for each task to come to where it awaits.
Exit ==
  /\ phase = "stopping" /\ \A t \in Task : loop[t].pc \in {"none", "dead"}
  /\ phase' = "down" /\ config' = Absent
  /\ loop' = [t \in Task |-> NoLoop] /\ aborted' = {}
  /\ UNCHANGED <<starts, request, vault, made, runs, events, done, cut>>

Crash ==
  /\ phase # "down" /\ phase' = "down" /\ config' = Absent
  /\ loop' = [t \in Task |-> NoLoop] /\ aborted' = {}
  /\ cut' = cut \cup {loop[t].run : t \in {u \in Task : loop[u].pc \in Recording}}
  /\ request' = [q \in Request |-> NoExchange] /\ done' = {}
  /\ UNCHANGED <<starts, vault, made, runs, events>>

Next ==
  \/ \E f \in File : Start(f)
  \/ Bind \/ BindFails \/ Signal \/ Drained \/ Exit \/ Crash
  \/ \E t \in Task : Spawn(t) \/ Abort(t) \/ Dropped(t) \/ LoopStep(t)
  \/ \E q \in Request : \/ Accept(q) \/ ReadBody(q) \/ Handle(q) \/ FinishRun(q)
                        \/ TimesOut(q) \/ Reply(q) \/ Disconnect(q)

Spec == Init /\ [][Next]_vars

\* Tokio polls what is ready, a call to a provider times out, a timer fires, and an
\* answer is read or its connection breaks.  A body need never come.
Fairness ==
  /\ WF_vars(Bind \/ BindFails) /\ WF_vars(Drained) /\ WF_vars(Exit)
  /\ \A t \in Task : WF_vars(LoopStep(t)) /\ WF_vars(Dropped(t))
  /\ \A q \in Request : /\ WF_vars(TimesOut(q)) /\ WF_vars(Handle(q))
                        /\ WF_vars(Reply(q) \/ Disconnect(q))
FairSpec == Spec /\ Fairness

-----------------------------------------------------------------------------
(* Properties *)

(* Every variable stays in its range; above all the configuration in use is a valid one,
   whatever the file said or left out, and what is stored belongs to a run that was begun. *)
TypeOK ==
  /\ phase \in {"down", "starting", "serving", "draining", "stopping"}
  /\ config \in May(Config)
  /\ phase # "down" => config # Absent
  /\ starts \in 0..MaxStarts
  /\ loop \in [Task -> Loop] /\ aborted \subseteq Task
  /\ request \in [Request -> Exchange]
  /\ vault \in [change : 1..MaxChanges + 1, present : BOOLEAN]
  /\ made \in 0..MaxRuns
  /\ runs \subseteq 1..made /\ events \subseteq 1..made /\ cut \subseteq 1..made
  /\ done \subseteq Request

(* An alert event has its run: events are stored before the run they report, and yet no
   abort, edit, deletion or shutdown ever comes between the two; only a crash or a store
   that fails does. *)
EventsHaveTheirRun ==
  \A r \in events :
    \/ r \in runs \cup cut
    \/ \E t \in Task : loop[t].run = r /\ loop[t].pc \in Recording

(* The status a client reads tells whether its request changed anything: a success means
   the run is stored or the key changed, and every other status, the 408 of the timeout
   layer included, means that nothing was. *)
AnswersAreTrue ==
  \A q \in Request :
    /\ q \in done <=> request[q].status \in {Ok, NoContent}
    /\ request[q].run # 0 => (request[q].run \in runs <=> request[q].status = Ok)

(* A run never uses a key that was replaced or removed before its loop woke, or before
   its request was accepted. *)
KeyIsFresh ==
  /\ \A t \in Running \cup {u \in Task : loop[u].pc = "queued"} : loop[t].key >= loop[t].since
  /\ \A q \in Request : request[q].pc = "calling" => request[q].key >= request[q].since

(* A probe loop dies only of a valid file that asks for more than there can be: samples or
   permutations for which no vector has room, the permutations that a tiny target rate
   takes among them, or a window that is a duration and yet longer than the calendar goes
   back.  And it dies before anything of its run is recorded, so that no panic parts an
   alert event from its run. *)
LoopsDieClean ==
  \A t \in Task : loop[t].pc = "dead" =>
    /\ \/ config.samples > MaxAnswers
       \/ Permutations(config) > MaxNulls
       \/ config.sequential # Absent /\ config.sequential.window \in Calendar + 1..MaxSeconds
    /\ loop[t].run \notin runs \cup events \cup cut

(* Graceful shutdown: the daemon stops after a signal, whatever clients, providers and
   loops are doing, and not before every request it had accepted is answered. *)
GracefulStop ==
  /\ [](phase = "stopping" => \A q \in Request : ~Open(q))
  /\ phase \in {"draining", "stopping"} ~> phase = "down"
=============================================================================
