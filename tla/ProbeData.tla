------------------------------ MODULE ProbeData ------------------------------
(***************************************************************************)
(* The data of a probe: its runs and baselines (run_store.rs and           *)
(* baseline_store.rs), the runs that are made and compared with the latest *)
(* baseline (run_probe_job, trigger_probe_run), the capture of a baseline  *)
(* from recent runs (routes/baselines.rs) and the deletion of all of it    *)
(* with the probe (delete_probe_cascade).                                  *)
(*                                                                         *)
(* Every read and write is a transaction of its own.  A handler that has   *)
(* no await still runs beside the others: tokio has several threads.  A    *)
(* run's three rows (metadata, embeddings, index) are written and removed  *)
(* in one transaction and are one element of `runs`.                       *)
(*                                                                         *)
(* The answers of a run are abstracted to the length of the first of its   *)
(* embeddings that is not empty, which is all that a capture and the       *)
(* calculator look at: not the embedding model, whose name no run has,     *)
(* and not the lengths of the other embeddings, on which the test may fail *)
(* later (DriftAssessment!CheckDims).  Timestamps are distinct; those of   *)
(* runs and those of captures are compared with their own kind only, so    *)
(* each is its rank, which grows: the wall clock is not set back.          *)
(***************************************************************************)
EXTENDS Naturals, FiniteSets

CONSTANTS
  Probe,       \* probe ids, each given to at most one probe ever
  Run,         \* runs ever begun
  Baseline,    \* captures ever begun
  NoProbe, NoRun, NoBaseline,
  Dim, NoDim,  \* lengths of embeddings, which two models may share; no embeddings
  CaptureRuns  \* alerts.baseline_capture_runs

ASSUME DataAssumption ==
  /\ NoProbe \notin Probe /\ NoRun \notin Run /\ NoBaseline \notin Baseline
  /\ NoDim \notin Dim
  /\ IsFiniteSet(Run)
  /\ CaptureRuns \in Nat

VARIABLES
  runClock,     \* the started_at of the next run
  captureClock, \* the captured_at of the next baseline
  \* the store
  issued,      \* the ids create_probe has given out
  probes,      \* the probes stored
  runs,        \* the runs stored
  baselines,   \* the baselines stored
  \* the tasks and handlers
  loops,       \* the probes that have a loop
  scheduled,   \* the runs being made by the loops; the others are asked for by hand
  run,         \* every run: what is known of it and how far it is
  capture,     \* every capture: likewise
  cascade,     \* the deletion of each probe: how far it is
  \* history
  disturbed    \* probes whose deletion failed or met a writer

clocks  == <<runClock, captureClock>>
store   == <<issued, probes, runs, baselines>>
looping == <<loops, scheduled>>
flights == <<looping, run, capture, cascade>>
vars    == <<clocks, store, flights, disturbed>>

Time == Nat

RunRecord ==
  [pc      : {"none", "running", "compare", "insert", "stored", "lost"},
   probe   : Probe \cup {NoProbe},
   started : Time,
   dim     : Dim \cup {NoDim},            \* of the first embedding
   report  : Baseline \cup {NoBaseline}]  \* what drift_report compares it with

CaptureRecord ==
  [pc     : {"none", "read", "insert", "done", "failed"},
   probe  : Probe \cup {NoProbe},
   toRead : SUBSET Run,                  \* listed, embeddings not read yet
   from   : SUBSET Run,                  \* usable; once built, the runs folded in
   newest : Run \cup {NoRun},            \* run_id
   at     : Time,                        \* captured_at
   after  : SUBSET Baseline]             \* history: the captures answered when it began

CascadeRecord ==
  [pc      : {"none", "runs", "removeRuns", "baselines", "removeBaselines"},
   targets : SUBSET (Run \cup Baseline)]

NoRunRecord == [pc |-> "none", probe |-> NoProbe, started |-> 0, dim |-> NoDim,
                report |-> NoBaseline]
NoCapture   == [pc |-> "none", probe |-> NoProbe, toRead |-> {}, from |-> {},
                newest |-> NoRun, at |-> 0, after |-> {}]
LostCapture == [NoCapture EXCEPT !.pc = "failed"]
LostRun     == [NoRunRecord EXCEPT !.pc = "lost"]
NoCascade   == [pc |-> "none", targets |-> {}]

-----------------------------------------------------------------------------
(* What is stored of a probe *)

RunsOf(p)      == {r \in runs : run[r].probe = p}
BaselinesOf(p) == {b \in baselines : capture[b].probe = p}

Newer(r, S) == {q \in S : run[q].started > run[r].started}

\* list_for_probe: the limit is looked at after a run is taken.
MostRecent(p, limit) ==
  {r \in RunsOf(p) : Cardinality(Newer(r, RunsOf(p))) < limit \/ Newer(r, RunsOf(p)) = {}}

\* The newest run of S (newest first, so the first one).
MutantIsNewest(r, S) == r \in S
IsNewest(r, S) == r \in S /\ Newer(r, S) = {}

\* get_latest_for_probe
IsLatest(b, p) ==
  /\ b \in BaselinesOf(p)
  /\ \A c \in BaselinesOf(p) : capture[c].at <= capture[b].at

RunInFlight(r) == run[r].pc \in {"running", "compare", "insert"}
CaptureInFlight(b) == capture[b].pc \in {"read", "insert"}

-----------------------------------------------------------------------------
(* Probes and their loops *)

CreateProbe(p) ==
  /\ p \notin issued
  /\ issued' = issued \cup {p}
  /\ probes' = probes \cup {p}
  /\ UNCHANGED <<clocks, runs, baselines, flights, disturbed>>

\* reconcile spawns a loop ...
SpawnLoop(p) ==
  /\ p \in probes \ loops
  /\ loops' = loops \cup {p}
  /\ UNCHANGED <<clocks, store, scheduled, run, capture, cascade, disturbed>>

\* ... and aborts that of a probe deleted or edited (an edited one gets a new loop).  A run
\* awaiting its provider is dropped; one further on goes on to its next await.
StopLoop(p) ==
  /\ p \in loops
  /\ loops' = loops \ {p}
  /\ LET its == {r \in scheduled : run[r].probe = p}
     IN /\ run' = [r \in Run |-> IF r \in its /\ run[r].pc = "running" THEN LostRun ELSE run[r]]
        /\ scheduled' = scheduled \ its
  /\ UNCHANGED <<clocks, store, capture, cascade, disturbed>>

-----------------------------------------------------------------------------
(* Runs *)

BeginRun(r, p) ==
  /\ run[r].pc = "none"
  /\ run' = [run EXCEPT ![r] = [pc |-> "running", probe |-> p, started |-> runClock,
                                dim |-> NoDim, report |-> NoBaseline]]
  /\ runClock' = runClock + 1
  /\ disturbed' = IF p \in probes THEN disturbed ELSE disturbed \cup {p}
  /\ UNCHANGED <<captureClock, store, loops, capture, cascade>>

\* run_probe_loop: one run after the other, whether or not the probe is still stored.
ScheduledRun(r, p) ==
  /\ p \in loops
  /\ \A q \in scheduled : run[q].probe # p
  /\ BeginRun(r, p)
  /\ scheduled' = scheduled \cup {r}

\* trigger_probe_run
RunNow(r, p) ==
  /\ p \in probes
  /\ BeginRun(r, p)
  /\ UNCHANGED scheduled

\* The provider has answered.  Only a scheduled run with embeddings is compared.
MutantFinishProvider(r) ==
  /\ run[r].pc = "running"
  /\ \E d \in Dim \cup {NoDim} :
       run' = [run EXCEPT ![r].dim = d,
                          ![r].pc = IF r \in scheduled /\ d # NoDim THEN "compare" ELSE "insert"]
  /\ runs' = runs \cup {r}
  /\ UNCHANGED <<clocks, issued, probes, baselines, looping, capture, cascade, disturbed>>
FinishProvider(r) ==
  /\ run[r].pc = "running"
  /\ \E d \in Dim \cup {NoDim} :
       run' = [run EXCEPT ![r].dim = d,
                          ![r].pc = IF r \in scheduled /\ d # NoDim THEN "compare" ELSE "insert"]
  /\ UNCHANGED <<clocks, store, looping, capture, cascade, disturbed>>

\* The first embedding of a baseline's clouds is the first of one of the runs folded in,
\* and so as long as the newest one's.
Dimension(b) == run[capture[b].newest].dim

\* A report on the latest baseline, or none: there is no baseline, its first embedding is
\* of another length than the run's, or `assess` fails (DriftAssessment).
Compare(r) ==
  /\ run[r].pc = "compare"
  /\ \E b \in Baseline \cup {NoBaseline} :
       /\ b # NoBaseline => IsLatest(b, run[r].probe) /\ Dimension(b) = run[r].dim
       /\ run' = [run EXCEPT ![r].report = b, ![r].pc = "insert"]
  /\ UNCHANGED <<clocks, store, looping, capture, cascade, disturbed>>

InsertRun(r) ==
  /\ run[r].pc = "insert"
  /\ runs' = runs \cup {r}
  /\ run' = [run EXCEPT ![r].pc = "stored"]
  /\ scheduled' = scheduled \ {r}
  /\ UNCHANGED <<clocks, issued, probes, baselines, loops, capture, cascade, disturbed>>

\* A request timeout or an abort at an await (the provider, the notifications of a
\* report), or a transaction that fails.
LoseRun(r) ==
  /\ RunInFlight(r)
  /\ run' = [run EXCEPT ![r] = LostRun]
  /\ scheduled' = scheduled \ {r}
  /\ UNCHANGED <<clocks, store, loops, capture, cascade, disturbed>>

-----------------------------------------------------------------------------
(* capture_baseline, which does not ask whether the probe is stored *)

BeginCapture(b, p) ==
  /\ capture[b].pc = "none"
  /\ p \in issued
  /\ capture' = [capture EXCEPT ![b] =
       [pc |-> "read", probe |-> p, toRead |-> MostRecent(p, CaptureRuns), from |-> {},
        newest |-> NoRun, at |-> 0, after |-> {c \in Baseline : capture[c].pc = "done"}]]
  /\ disturbed' = IF p \in probes THEN disturbed ELSE disturbed \cup {p}
  /\ UNCHANGED <<clocks, store, looping, run, cascade>>

\* The embeddings of a listed run: none if it has been deleted since.
ReadEmbeddings(b, r) ==
  /\ capture[b].pc = "read"
  /\ r \in capture[b].toRead
  /\ capture' = [capture EXCEPT
       ![b].toRead = @ \ {r},
       ![b].from = IF r \in runs /\ run[r].dim # NoDim THEN @ \cup {r} ELSE @]
  /\ UNCHANGED <<clocks, store, looping, run, cascade, disturbed>>

\* Runs whose first embedding is as long as the newest one's.
MutantFolded(usable, r) == usable
Folded(usable, r) == {q \in usable : run[q].dim = run[r].dim}

BuildBaseline(b) ==
  /\ capture[b].pc = "read"
  /\ capture[b].toRead = {}
  /\ \E r \in capture[b].from :
       /\ IsNewest(r, capture[b].from)
       /\ capture' = [capture EXCEPT ![b].pc = "insert", ![b].newest = r, ![b].at = captureClock,
                                     ![b].from = Folded(@, r)]
  /\ captureClock' = captureClock + 1
  /\ UNCHANGED <<runClock, store, looping, run, cascade, disturbed>>

InsertBaseline(b) ==
  /\ capture[b].pc = "insert"
  /\ baselines' = baselines \cup {b}
  /\ capture' = [capture EXCEPT ![b].pc = "done"]
  /\ UNCHANGED <<clocks, issued, probes, runs, looping, run, cascade, disturbed>>

\* No run is usable, or a transaction fails.
CaptureFails(b) ==
  /\ CaptureInFlight(b)
  /\ capture' = [capture EXCEPT ![b] = LostCapture]
  /\ UNCHANGED <<clocks, store, looping, run, cascade, disturbed>>

\* DELETE /baselines/{id}
DeleteBaseline(b) ==
  /\ b \in baselines
  /\ baselines' = baselines \ {b}
  /\ UNCHANGED <<clocks, issued, probes, runs, flights, disturbed>>

-----------------------------------------------------------------------------
(* delete_probe_cascade: the probe, its runs, its baselines, its schedule.  Runs and
   baselines are listed in one transaction and removed in another. *)

CascadeTo(p, pc, targets) == cascade' = [cascade EXCEPT ![p] = [pc |-> pc, targets |-> targets]]

WritersOf(p) == {r \in Run : run[r].probe = p /\ RunInFlight(r)}
                \cup {b \in Baseline : capture[b].probe = p /\ CaptureInFlight(b)}

DeleteProbe(p) ==
  /\ p \in probes
  /\ probes' = probes \ {p}
  /\ CascadeTo(p, "runs", {})
  /\ disturbed' = IF WritersOf(p) = {} THEN disturbed ELSE disturbed \cup {p}
  /\ UNCHANGED <<clocks, issued, runs, baselines, looping, run, capture>>

ListRuns(p) ==
  /\ cascade[p].pc = "runs"
  /\ CascadeTo(p, "removeRuns", RunsOf(p))
  /\ UNCHANGED <<clocks, store, looping, run, capture, disturbed>>

RemoveRuns(p) ==
  /\ cascade[p].pc = "removeRuns"
  /\ runs' = runs \ cascade[p].targets
  /\ CascadeTo(p, "baselines", {})
  /\ UNCHANGED <<clocks, issued, probes, baselines, looping, run, capture, disturbed>>

\* baselines().delete_for_probe
MutantDoomed(p) == {b \in BaselinesOf(p) : IsLatest(b, p)}
Doomed(p) == BaselinesOf(p)

ListBaselines(p) ==
  /\ cascade[p].pc = "baselines"
  /\ CascadeTo(p, "removeBaselines", Doomed(p))
  /\ UNCHANGED <<clocks, store, looping, run, capture, disturbed>>

RemoveBaselines(p) ==
  /\ cascade[p].pc = "removeBaselines"
  /\ baselines' = baselines \ cascade[p].targets
  /\ CascadeTo(p, "none", {})
  /\ UNCHANGED <<clocks, issued, probes, runs, looping, run, capture, disturbed>>

\* `?` on a transaction.  A retry finds no probe and does nothing.
CascadeFails(p) ==
  /\ cascade[p].pc # "none"
  /\ CascadeTo(p, "none", {})
  /\ disturbed' = disturbed \cup {p}
  /\ UNCHANGED <<clocks, store, looping, run, capture>>

-----------------------------------------------------------------------------

\* The process ends and starts again.
Restart ==
  /\ loops' = {}
  /\ scheduled' = {}
  /\ run' = [r \in Run |-> IF RunInFlight(r) THEN LostRun ELSE run[r]]
  /\ capture' = [b \in Baseline |-> IF CaptureInFlight(b) THEN LostCapture ELSE capture[b]]
  /\ cascade' = [p \in Probe |-> NoCascade]
  /\ disturbed' = disturbed \cup {p \in Probe : cascade[p].pc # "none"}
  /\ UNCHANGED <<clocks, store>>

Init ==
  /\ runClock = 0 /\ captureClock = 0
  /\ issued = {} /\ probes = {} /\ runs = {} /\ baselines = {}
  /\ loops = {} /\ scheduled = {}
  /\ run = [r \in Run |-> NoRunRecord]
  /\ capture = [b \in Baseline |-> NoCapture]
  /\ cascade = [p \in Probe |-> NoCascade]
  /\ disturbed = {}

ProbeStep(p) ==
  \/ CreateProbe(p) \/ SpawnLoop(p) \/ StopLoop(p) \/ DeleteProbe(p)
  \/ ListRuns(p) \/ RemoveRuns(p) \/ ListBaselines(p) \/ RemoveBaselines(p)
  \/ CascadeFails(p)

RunStep(r) ==
  \/ \E p \in Probe : ScheduledRun(r, p) \/ RunNow(r, p)
  \/ FinishProvider(r) \/ Compare(r) \/ InsertRun(r) \/ LoseRun(r)

BaselineStep(b) ==
  \/ \E p \in Probe : BeginCapture(b, p)
  \/ \E r \in Run : ReadEmbeddings(b, r)
  \/ BuildBaseline(b) \/ InsertBaseline(b) \/ CaptureFails(b) \/ DeleteBaseline(b)

Next ==
  \/ \E p \in Probe : ProbeStep(p)
  \/ \E r \in Run : RunStep(r)
  \/ \E b \in Baseline : BaselineStep(b)
  \/ Restart

Spec == Init /\ [][Next]_vars

-----------------------------------------------------------------------------
(* Properties *)

(* Every variable stays in its range, only finished runs and captures are stored, and
   a deletion is under way only for a probe that is gone. *)
TypeOK ==
  /\ runClock \in Time /\ captureClock \in Time
  /\ issued \subseteq Probe /\ probes \subseteq issued /\ loops \subseteq issued
  /\ run \in [Run -> RunRecord]
  /\ \A r \in scheduled : r \in Run /\ RunInFlight(r)
  /\ capture \in [Baseline -> CaptureRecord]
  /\ cascade \in [Probe -> CascadeRecord]
  /\ \A r \in runs : r \in Run /\ run[r].pc = "stored"
  /\ \A b \in baselines : b \in Baseline /\ capture[b].pc = "done"
  /\ \A p \in Probe : cascade[p].pc # "none" => p \in issued \ probes
  /\ disturbed \subseteq issued

(* A run is never judged by a baseline it is part of, which would hide any drift: its
   report is made before the run can be captured, whatever captures do meanwhile. *)
NeverAgainstItself ==
  \A r \in Run : run[r].report # NoBaseline => r \notin capture[run[r].report].from

(* Every run folded into the baseline that a run is compared with is of its probe and
   begins with an embedding as long as the run's, although the embedding model may change
   between any two runs and captures race runs, deletions and each other.  It does not
   say that the model is the same: two models of one length are not told apart, here or
   in the code. *)
CloudsAreComparable ==
  \A r \in Run : run[r].report # NoBaseline =>
    \A q \in capture[run[r].report].from :
      run[q].probe = run[r].probe /\ run[q].dim = run[r].dim

(* Capturing again never goes back: a capture of a stored probe begun after another one
   was answered is named after a run at least as new, whichever runs were stored out
   of the order they were started in. *)
LaterCaptureIsNewer ==
  \A b, c \in Baseline :
    (/\ capture[b].pc = "done" /\ capture[c].pc = "done"
     /\ capture[b].probe = capture[c].probe /\ capture[b].probe \in probes
     /\ b \in capture[c].after)
    => run[capture[b].newest].started <= run[capture[c].newest].started

(* The deletion of a probe that no run and no capture overlaps and no failure cuts
   short leaves nothing of it, whichever other transactions fall between its own. *)
QuietDeletionIsComplete ==
  \A p \in issued \ (probes \cup disturbed) :
    cascade[p].pc = "none" => RunsOf(p) = {} /\ BaselinesOf(p) = {}
=============================================================================
