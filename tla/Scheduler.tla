------------------------------ MODULE Scheduler ------------------------------
(***************************************************************************)
(* The probe scheduler of the daemon (crates/daemon/src/scheduler.rs), the *)
(* persisted schedule it works from, and the handlers of the HTTP API that *)
(* share its store: one tokio task per probe loops over read schedule,     *)
(* sleep, resolve the provider, run under a semaphore permit, advance the  *)
(* schedule, while a reconcile task spawns, replaces and aborts the loops. *)
(*                                                                         *)
(* Tasks.  A tokio abort takes effect only where the task is suspended, so *)
(* "aborted" and "gone" are different: the code between two awaits runs on *)
(* after the abort.  Every sleep suspends, a zero one too: tokio's timer   *)
(* rounds deadlines up to the next millisecond.  One action is one store   *)
(* transaction, or the code between two of them that reads and writes      *)
(* nothing another task can see.                                           *)
(*                                                                         *)
(* Time.  Persisted next-run times and sleep deadlines are kept as the     *)
(* time left until them, 0 standing for "now or overdue": the code uses    *)
(* them through max(next_at - now, 0) only.  Cron schedules depend on the  *)
(* clock itself, kept modulo Cycle.                                        *)
(***************************************************************************)
EXTENDS Integers, Sequences, FiniteSets, SequencesExt

CONSTANTS
  Probe,              \* probe ids, each given to at most one probe ever
  Task,               \* slots for tokio tasks; a slot is reused when its task has ended
  NoProbe, NoTask,    \* "none" for the two sets above
  MaxConcurrentRuns,  \* scheduler.max_concurrent_runs, before it is clamped
  ScheduleOf,         \* the schedule of each probe in each of its versions
  Cycle,              \* length of the clock cycle the cron schedules repeat in
  MaxVersion,         \* bound: definitions a probe goes through (1: never edited)
  MaxRestarts,        \* bound: daemon restarts
  Faulty,             \* the probes whose store transactions may fail
  Triggerable         \* the probes POST /probes/{id}/run-now is used on

Version == 1..MaxVersion

Schedule == [kind : {"EveryMinutes", "Cron"}, n : Nat]

ASSUME ConstantsAssumption ==
  /\ NoProbe \notin Probe
  /\ NoTask \notin Task
  /\ MaxConcurrentRuns \in Nat
  /\ MaxVersion \in Nat \ {0}
  /\ ScheduleOf \in [Probe -> [Version -> Schedule]]
  \* validate_schedule lets through no cron expression without a period
  /\ \A p \in Probe, v \in Version :
       ScheduleOf[p][v].kind = "Cron" => ScheduleOf[p][v].n > 0
  /\ Cycle \in Nat \ {0}
  /\ MaxRestarts \in Nat
  /\ Faulty \subseteq Probe
  /\ Triggerable \subseteq Probe

\* Semaphore::new(max_concurrent_runs.max(1))
Permits == IF MaxConcurrentRuns > 1 THEN MaxConcurrentRuns ELSE 1

\* No persisted next-run time.
NoNext == -1

VARIABLES
  \* the redb store
  table,      \* probes: current version of each stored probe, 0 if not stored
  issued,     \* the ids create_probe has given out
  nextRun,    \* schedule state: time left to the persisted next run, or NoNext
  runs,       \* the probes with a run on disk
  \* API handlers in flight
  cascade,    \* what delete_probe_cascade has yet to do for each probe
  adhoc,      \* the probes a run-now request is running
  \* the scheduler task
  mode,       \* "up", or "stopped" once the scheduler task has ended
  listed,     \* reconcile: version of each probe still to be (re)spawned, or 0
  active,     \* reconcile's map from probe to its loop's task, or NoTask
  \* the probe loops
  loop,       \* task slot -> the loop running in it
  aborted,    \* the tasks abort() was called on
  permits,    \* run_semaphore: free permits
  queue,      \* run_semaphore: the tasks waiting for one, first come first served
  \* the environment
  phase,      \* the clock, modulo Cycle
  restarts,   \* restarts so far
  attempted   \* history: tasks that tried a run since the clock last moved

store     == <<table, issued, nextRun, runs>>
handlers  == <<cascade, adhoc>>
scheduler == <<mode, listed, active>>
tasks     == <<loop, aborted, permits, queue, attempted>>
clock     == <<phase, restarts>>
vars      == <<store, handlers, scheduler, tasks, clock>>

-----------------------------------------------------------------------------
(* Helpers *)

\* Where a loop can be.  "spawned", "sleep", "queued" and "run" are awaits.
Await == {"spawned", "sleep", "queued", "run"}
Place == {"none", "read", "persist", "store", "advance"} \cup Await

Loop == [pc : Place, probe : Probe \cup {NoProbe}, ver : 0..MaxVersion, wait : Nat]

NoLoop == [pc |-> "none", probe |-> NoProbe, ver |-> 0, wait |-> 0]

Live    == {t \in Task : loop[t].pc # "none"}
Holders == {t \in Task : loop[t].pc \in {"run", "store"}}
Stored(p) == table[p] # 0

\* next_run_after: time from now to the next run of schedule s at clock ph.  A
\* cron schedule of period n fires when the clock is a multiple of n, strictly
\* later than now; "every 0 minutes" is floored to 1.
MutantNextRunAfter(s, ph) ==
  IF s.kind = "EveryMinutes" THEN s.n ELSE (s.n - (ph % s.n)) % s.n
NextRunAfter(s, ph) ==
  IF s.kind = "EveryMinutes"
  THEN IF s.n > 1 THEN s.n ELSE 1
  ELSE s.n - (ph % s.n)

LoopSchedule(t) == ScheduleOf[loop[t].probe][loop[t].ver]

\* advance_schedule_to: a failed write is logged and otherwise ignored.
MutantAdvanceScheduleTo(p, next) == UNCHANGED nextRun
AdvanceScheduleTo(p, next) ==
  \/ nextRun' = [nextRun EXCEPT ![p] = next]
  \/ p \in Faulty /\ UNCHANGED nextRun

\* Task t goes on to pc; with a permit it returns (dropping the permit hands it to
\* the first waiter, which then owns it before it is polled).
MoveTo(t, pc) == loop' = [loop EXCEPT ![t].pc = pc]

MutantForgetPermit(t, new) ==
  loop' = [loop EXCEPT ![t] = new] /\ UNCHANGED <<permits, queue>>
MutantNoHandOver(t, new) ==
  loop' = [loop EXCEPT ![t] = new] /\ permits' = permits + 1 /\ UNCHANGED queue
MutantServeLast(t, new) ==
  IF queue = <<>>
  THEN loop' = [loop EXCEPT ![t] = new] /\ permits' = permits + 1 /\ UNCHANGED queue
  ELSE /\ loop' = [loop EXCEPT ![t] = new, ![Last(queue)].pc = "run"]
       /\ queue' = Front(queue)
       /\ UNCHANGED permits
ReleaseAndMoveTo(t, new) ==
  IF queue = <<>>
  THEN /\ loop' = [loop EXCEPT ![t] = new]
       /\ permits' = permits + 1
       /\ UNCHANGED queue
  ELSE /\ loop' = [loop EXCEPT ![t] = new, ![Head(queue)].pc = "run"]
       /\ queue' = Tail(queue)
       /\ UNCHANGED permits

-----------------------------------------------------------------------------
(* The HTTP API.  It is served while the scheduler is up. *)

\* POST /probes: a fresh uuid, so an id never comes back.
CreateProbe(p) ==
  /\ mode = "up"
  /\ p \notin issued
  /\ issued' = issued \cup {p}
  /\ table' = [table EXCEPT ![p] = 1]
  /\ UNCHANGED <<nextRun, runs, handlers, scheduler, tasks, clock>>

\* ProbeStore::update, the edit reconcile looks for: a new updated_at.
EditProbe(p) ==
  /\ mode = "up"
  /\ table[p] \in 1..(MaxVersion - 1)
  /\ table' = [table EXCEPT ![p] = @ + 1]
  /\ UNCHANGED <<issued, nextRun, runs, handlers, scheduler, tasks, clock>>

\* DELETE /probes/{id}: delete_probe_cascade is four transactions; the third one,
\* baselines().delete_for_probe, touches nothing this module keeps.  A probe that
\* is not found ends the call with no work done.
DeleteProbe(p) ==
  /\ mode = "up"
  /\ Stored(p)
  /\ table' = [table EXCEPT ![p] = 0]
  /\ cascade' = [cascade EXCEPT ![p] = "runs"]
  /\ UNCHANGED <<issued, nextRun, runs, adhoc, scheduler, tasks, clock>>

DeleteRuns(p) ==
  /\ cascade[p] = "runs"
  /\ runs' = runs \ {p}
  /\ cascade' = [cascade EXCEPT ![p] = "schedule"]
  /\ UNCHANGED <<table, issued, nextRun, adhoc, scheduler, tasks, clock>>

DeleteSchedule(p) ==
  /\ cascade[p] = "schedule"
  /\ nextRun' = [nextRun EXCEPT ![p] = NoNext]
  /\ cascade' = [cascade EXCEPT ![p] = "none"]
  /\ UNCHANGED <<table, issued, runs, adhoc, scheduler, tasks, clock>>

\* A transaction of the cascade fails: `?` returns, what is left stays undone.
CascadeFails(p) ==
  /\ p \in Faulty
  /\ cascade[p] # "none"
  /\ cascade' = [cascade EXCEPT ![p] = "none"]
  /\ UNCHANGED <<store, adhoc, scheduler, tasks, clock>>

\* POST /probes/{id}/run-now: read the probe, run it with no permit, store the run.
\* At most one such request per probe is modelled.
TriggerRun(p) ==
  /\ mode = "up"
  /\ p \in Triggerable \ adhoc
  /\ Stored(p)
  /\ adhoc' = adhoc \cup {p}
  /\ UNCHANGED <<store, cascade, scheduler, tasks, clock>>

\* The run is stored, or the provider, the store or the request timeout fails it.
FinishTrigger(p) ==
  /\ p \in adhoc
  /\ adhoc' = adhoc \ {p}
  /\ runs' \in {runs, runs \cup {p}}
  /\ UNCHANGED <<table, issued, nextRun, cascade, scheduler, tasks, clock>>

-----------------------------------------------------------------------------
(* The scheduler task *)

Idle == \A p \in Probe : listed[p] = 0

NeedsSpawn(p) ==
  Stored(p) /\ (active[p] = NoTask \/ loop[active[p]].ver # table[p])

\* active.retain keeps the loops of the probes that are stored.
MutantRemoved == {}
Removed == {p \in Probe : active[p] # NoTask /\ ~Stored(p)}

\* JoinHandle::abort; a handle that is only dropped detaches its task.
MutantAbort(ts) == UNCHANGED aborted
Abort(ts) == aborted' = aborted \cup ts

\* The handles of the probes in S leave the map.
MutantUntrack(S) == UNCHANGED active
Untrack(S) == active' = [p \in Probe |-> IF p \in S THEN NoTask ELSE active[p]]

\* A tick: one list_all, then abort the loops of the probes that are not in it.  A
\* failed list_all changes nothing.
Reconcile ==
  /\ mode = "up"
  /\ Idle
  /\ listed' = [p \in Probe |-> IF NeedsSpawn(p) THEN table[p] ELSE 0]
  /\ Abort({active[p] : p \in Removed})
  /\ Untrack(Removed)
  /\ UNCHANGED <<store, handlers, mode, loop, permits, queue, attempted, clock>>

\* tokio::spawn and active.insert for probe p of the snapshot.
Spawn(p) ==
  \E t \in Task \ Live :
    /\ loop' = [loop EXCEPT ![t] =
                  [pc |-> "spawned", probe |-> p, ver |-> listed[p], wait |-> 0]]
    /\ active' = [active EXCEPT ![p] = t]
    /\ listed' = [listed EXCEPT ![p] = 0]

SpawnNew(p) ==
  /\ listed[p] # 0
  /\ active[p] = NoTask
  /\ Spawn(p)
  /\ UNCHANGED <<store, handlers, mode, aborted, permits, queue, attempted, clock>>

\* The probe was edited: abort its loop, drop the persisted next run, spawn.
Respawn(p) ==
  /\ listed[p] # 0
  /\ active[p] # NoTask
  /\ Abort({active[p]})
  /\ AdvanceScheduleTo(p, NoNext)
  /\ Spawn(p)
  /\ UNCHANGED <<table, issued, runs, handlers, mode, permits, queue, attempted,
                 clock>>

\* SchedulerHandle::shutdown, after the server has drained its requests: abort the
\* loops; only the scheduler task itself is awaited.
Shutdown ==
  /\ mode = "up"
  /\ Idle
  /\ adhoc = {} /\ \A p \in Probe : cascade[p] = "none"
  /\ mode' = "stopped"
  /\ Abort({active[p] : p \in {q \in Probe : active[q] # NoTask}})
  /\ Untrack(Probe)
  /\ UNCHANGED <<store, handlers, listed, loop, permits, queue, attempted, clock>>

-----------------------------------------------------------------------------
(* A probe loop *)

\* scheduled_next_run: a stored time is slept on; with none, or on a read error,
\* one is computed and persisted.
ScheduledNextRun(t) ==
  /\ loop[t].pc = "read" \/ (loop[t].pc = "spawned" /\ t \notin aborted)
  /\ LET next == nextRun[loop[t].probe]
     IN \/ /\ next # NoNext
           /\ loop' = [loop EXCEPT ![t].pc = "sleep", ![t].wait = next]
        \/ /\ next = NoNext \/ loop[t].probe \in Faulty
           /\ MoveTo(t, "persist")
  /\ UNCHANGED <<store, handlers, scheduler, aborted, permits, queue, attempted,
                 clock>>

PersistNextRun(t) ==
  /\ loop[t].pc = "persist"
  /\ LET next == NextRunAfter(LoopSchedule(t), phase)
     IN /\ AdvanceScheduleTo(loop[t].probe, next)
        /\ loop' = [loop EXCEPT ![t].pc = "sleep", ![t].wait = next]
  /\ UNCHANGED <<table, issued, runs, handlers, scheduler, aborted, permits, queue,
                 attempted, clock>>

\* The loop's sleep is over.
MutantReady(t) == loop[t].pc = "sleep"
Ready(t) == loop[t].pc = "sleep" /\ loop[t].wait = 0

\* The loop wakes and resolves its provider: on an error it skips the run, else it
\* takes a free permit (ready at once) or joins the waiters.
Attempt(t) ==
  /\ Ready(t)
  /\ t \notin aborted
  /\ attempted' = attempted \cup {t}
  /\ \/ MoveTo(t, "advance") /\ UNCHANGED <<permits, queue>>
     \/ permits > 0 /\ MoveTo(t, "run") /\ permits' = permits - 1 /\ UNCHANGED queue
     \/ permits = 0 /\ MoveTo(t, "queued") /\ queue' = Append(queue, t)
                    /\ UNCHANGED permits
  /\ UNCHANGED <<store, handlers, scheduler, aborted, clock>>

\* The provider calls of run_probe_job, and the notifications it awaits, are over:
\* the job has a run to store, or it has failed.
FinishRun(t) ==
  /\ loop[t].pc = "run"
  /\ t \notin aborted
  /\ \/ MoveTo(t, "store") /\ UNCHANGED <<permits, queue>>
     \/ ReleaseAndMoveTo(t, [loop[t] EXCEPT !.pc = "advance"])
  /\ UNCHANGED <<store, handlers, scheduler, aborted, attempted, clock>>

StoreRun(t) ==
  /\ loop[t].pc = "store"
  /\ \/ runs' = runs \cup {loop[t].probe}
     \/ loop[t].probe \in Faulty /\ UNCHANGED runs
  /\ ReleaseAndMoveTo(t, [loop[t] EXCEPT !.pc = "advance"])
  /\ UNCHANGED <<table, issued, nextRun, handlers, scheduler, aborted, attempted,
                 clock>>

AdvanceSchedule(t) ==
  /\ loop[t].pc = "advance"
  /\ AdvanceScheduleTo(loop[t].probe, NextRunAfter(LoopSchedule(t), phase))
  /\ loop' = [loop EXCEPT ![t].pc = "read", ![t].wait = 0]
  /\ UNCHANGED <<table, issued, runs, handlers, scheduler, aborted, permits, queue,
                 attempted, clock>>

\* tokio drops an aborted task that is suspended: its permit is released, its place
\* among the waiters given up.
Drop(t) ==
  /\ t \in aborted
  /\ loop[t].pc \in Await
  /\ aborted' = aborted \ {t}
  /\ attempted' = attempted \ {t}
  /\ \/ /\ loop[t].pc = "run"
        /\ ReleaseAndMoveTo(t, NoLoop)
     \/ /\ loop[t].pc = "queued"
        /\ loop' = [loop EXCEPT ![t] = NoLoop]
        /\ \E i \in DOMAIN queue : queue[i] = t /\ queue' = RemoveAt(queue, i)
        /\ UNCHANGED permits
     \/ /\ loop[t].pc \in {"spawned", "sleep"}
        /\ loop' = [loop EXCEPT ![t] = NoLoop]
        /\ UNCHANGED <<permits, queue>>
  /\ UNCHANGED <<store, handlers, scheduler, clock>>

-----------------------------------------------------------------------------
(* The environment *)

\* The time left to an instant, (next_at - now) clamped at zero, after one tick.
MutantElapse(left) == left - 1
Elapse(left) == IF left > 0 THEN left - 1 ELSE left

Tick ==
  /\ phase' = (phase + 1) % Cycle
  /\ nextRun' = [p \in Probe |-> Elapse(nextRun[p])]
  /\ loop' = [t \in Task |-> [loop[t] EXCEPT !.wait = Elapse(@)]]
  /\ attempted' = {}
  /\ UNCHANGED <<table, issued, runs, handlers, scheduler, aborted, permits, queue,
                 restarts>>

\* The daemon crashes, or exits after Shutdown, and is started again: the store is
\* what is left.
Restart ==
  /\ restarts < MaxRestarts
  /\ restarts' = restarts + 1
  /\ cascade' = [p \in Probe |-> "none"]
  /\ adhoc' = {}
  /\ mode' = "up"
  /\ listed' = [p \in Probe |-> 0]
  /\ active' = [p \in Probe |-> NoTask]
  /\ loop' = [t \in Task |-> NoLoop]
  /\ aborted' = {}
  /\ permits' = Permits
  /\ queue' = <<>>
  /\ attempted' = {}
  /\ UNCHANGED <<store, phase>>

Init ==
  /\ table = [p \in Probe |-> 0]
  /\ issued = {}
  /\ nextRun = [p \in Probe |-> NoNext]
  /\ runs = {}
  /\ cascade = [p \in Probe |-> "none"]
  /\ adhoc = {}
  /\ mode = "up"
  /\ listed = [p \in Probe |-> 0]
  /\ active = [p \in Probe |-> NoTask]
  /\ loop = [t \in Task |-> NoLoop]
  /\ aborted = {}
  /\ permits = Permits
  /\ queue = <<>>
  /\ phase = 0
  /\ restarts = 0
  /\ attempted = {}

ApiStep(p) ==
  \/ CreateProbe(p) \/ EditProbe(p) \/ DeleteProbe(p)
  \/ TriggerRun(p)

HandlerStep(p) ==
  \/ DeleteRuns(p) \/ DeleteSchedule(p) \/ CascadeFails(p)
  \/ FinishTrigger(p)

SchedulerStep == Reconcile \/ \E p \in Probe : SpawnNew(p) \/ Respawn(p)

LoopStep(t) ==
  \/ ScheduledNextRun(t) \/ PersistNextRun(t) \/ Attempt(t)
  \/ FinishRun(t) \/ StoreRun(t) \/ AdvanceSchedule(t)
  \/ Drop(t)

Next ==
  \/ \E p \in Probe : ApiStep(p) \/ HandlerStep(p)
  \/ SchedulerStep
  \/ \E t \in Task : LoopStep(t)
  \/ Shutdown
  \/ Tick
  \/ Restart

Spec == Init /\ [][Next]_vars

(* Fairness: the clock moves, a handler under way completes, list_all does not fail
   for ever, and tokio keeps polling a task that can make a step.  For a loop in its
   provider calls that step is justified by the request timeouts of the providers and
   of the notification channels; the waiters for a permit are first come first
   served.  Nothing is assumed of the API's clients, of edits, of shutdown or of
   restarts. *)
Fairness ==
  /\ WF_vars(Tick)
  /\ WF_vars(Reconcile)
  /\ \A p \in Probe : WF_vars(SpawnNew(p) \/ Respawn(p))
  /\ \A p \in Probe : WF_vars(HandlerStep(p))
  /\ \A t \in Task : WF_vars(LoopStep(t))

FairSpec == Spec /\ Fairness

-----------------------------------------------------------------------------
(* Properties *)

(* Every variable stays in its range; an idle slot carries no leftovers. *)
TypeOK ==
  /\ table \in [Probe -> 0..MaxVersion]
  /\ issued \subseteq Probe
  /\ nextRun \in [Probe -> Nat \cup {NoNext}]
  /\ runs \subseteq Probe
  /\ cascade \in [Probe -> {"none", "runs", "schedule"}]
  /\ adhoc \subseteq Probe
  /\ mode \in {"up", "stopped"}
  /\ listed \in [Probe -> 0..MaxVersion]
  /\ active \in [Probe -> Task \cup {NoTask}]
  /\ loop \in [Task -> Loop]
  /\ \A t \in Live : loop[t].probe \in Probe /\ loop[t].ver \in Version
  /\ aborted \subseteq Live
  /\ permits \in Nat
  /\ queue \in Seq(Task)
  /\ phase \in 0..(Cycle - 1)
  /\ restarts \in 0..MaxRestarts
  /\ attempted \subseteq Live

(* No loop is ever lost track of: whatever reconcile, edits, deletions, shutdown and
   restarts do, a loop that has not been aborted is the one `active` holds for its
   probe, so no probe has two loops that go on.  A missing abort in reconcile, or an
   overwritten map entry, would leave a loop running that nothing can stop. *)
LoopsAreTracked ==
  \A t \in Live : t \in aborted \/ active[loop[t].probe] = t

(* The handles in `active` are those of live loops of the same probe that nobody has
   aborted: reconcile can neither keep a dead loop as "unchanged" nor abort the wrong
   one. *)
HandlesAreLive ==
  \A p \in Probe :
    active[p] # NoTask =>
      /\ active[p] \in Live \ aborted
      /\ loop[active[p]].probe = p

(* reconcile's map and the running tasks agree. *)
LoopsAreAccountedFor == LoopsAreTracked /\ HandlesAreLive

(* No permit of run_semaphore leaks or is conjured up, whichever way a run ends
   (stored, failed, aborted in its provider call), and the scheduled runs in flight
   never exceed the cap. *)
PermitsConserved ==
  /\ IsFiniteSet(Holders)
  /\ permits + Cardinality(Holders) = Permits

(* The waiters are exactly the queued loops, each once, and none waits while a permit
   is free: no wakeup is lost when permits are handed over or given up. *)
WaitersAreQueued ==
  /\ \A t \in Task : loop[t].pc = "queued" <=> \E i \in DOMAIN queue : queue[i] = t
  /\ \A i, j \in DOMAIN queue : queue[i] = queue[j] => i = j
  /\ permits > 0 => queue = <<>>

(* run_semaphore, whatever is aborted while it holds, waits for or is handed a permit. *)
PermitsAreServed == PermitsConserved /\ WaitersAreQueued

(* The semaphore, the loops and what aborts them amount to RunCap: at most Permits
   scheduled runs are under way, who cannot run waits in line, and a run that ends,
   fails, or is aborted in its provider call hands its place to the first in line in
   the same step.  Counting permits would not notice a place handed to the wrong
   waiter, or a waiter that loses its place when another one is aborted. *)
RunCapOf == INSTANCE RunCap WITH
  Cap     <- Permits,
  running <- Holders,
  waiting <- queue
RunsAreCapped == RunCapOf!Spec

(* A loop does not hot-loop: one that has tried a run since the clock last moved is
   not ready to try again, with or without a provider, unless its own writes to the
   store fail.  It needs every path back to the sleep to find a next run in the
   future, whatever edits, aborted predecessors, deletions and other probes do. *)
HotLoopsAreFaulty == \A t \in attempted : Ready(t) => loop[t].probe \in Faulty

(* Restart precision: the time a stored probe's loop sleeps until is the persisted
   one, so a daemon killed at this point resumes the same cadence (the promise in
   the header of schedule_store.rs), if the store takes the writes. *)
SleepIsPersisted ==
  \A p \in Probe :
    LET t == active[p]
    IN (Stored(p) /\ p \notin Faulty /\ t # NoTask /\ loop[t].pc = "sleep") =>
         nextRun[p] = loop[t].wait

(* A loop never runs its probe ahead of its schedule: when it starts a run, or skips
   one for want of a provider, the persisted next run has come.  *)
NeverEarly ==
  [][\A p \in Probe :
       LET t == active[p]
       IN (Stored(p) /\ p \notin Faulty /\ t # NoTask /\ t \notin attempted /\ t \in attempted') =>
            nextRun[p] = 0]_vars

(* A stored probe keeps being run: over and over its current loop wakes and tries a
   run, whatever edits, restarts, failing providers and other probes' runs do.  It
   fails if a permit or a wakeup is lost, if a loop dies with its handle kept, or if
   reconcile misses a probe. *)
EveryProbeKeepsRunning ==
  \A p \in Probe :
    []<>(~Stored(p) \/ mode # "up" \/ active[p] \in attempted)

(* A deleted probe's loop comes to an end and stays ended, even one that reconcile
   spawned from a snapshot taken before the deletion. *)
DeletedProbeIsLeftAlone ==
  \A p \in Probe :
    (p \in issued /\ ~Stored(p)) ~> [](\A t \in Live : loop[t].probe # p)

(* Shutdown reaches every loop, the waiters for a permit included. *)
ShutdownEndsEveryLoop == (mode = "stopped") ~> (Live = {})

-----------------------------------------------------------------------------
(* What the repository says of the scheduler and the code does not do *)

(* "still advance the schedule so we don't hot-loop" (scheduler.rs, run_probe_loop): the
   loop that skips a run does not come back to it at once. *)
NoHotLoop == \A t \in attempted : ~Ready(t)

(* "The schedule may have changed; drop the persisted next-run so the new schedule
   takes effect now instead of after the pending run" (scheduler.rs, reconcile): the
   loop that replaces an edited probe's sleeps no longer than one step of the new
   schedule. *)
EditTakesEffect ==
  \A p \in Probe :
    LET t == active[p]
    IN (t # NoTask /\ loop[t].pc = "sleep") => loop[t].wait <= LoopSchedule(t).n

(* "Delete a probe and all its associated runs and baselines atomically"
   (delete_probe_cascade): once no deletion is under way, a deleted probe has no runs. *)
DeletionIsComplete ==
  \A p \in Probe :
    (p \in issued /\ ~Stored(p) /\ cascade[p] = "none") => p \notin runs
=============================================================================
