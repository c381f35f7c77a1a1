------------------------------ MODULE DataProofs ------------------------------
(* Theorems about ProbeData, for every value of its constants. *)
EXTENDS ProbeData, FiniteSetTheorems, TLAPS

(* What is under way belongs to a probe that was created, and a deletion removes the
   stored runs of its probe. *)
Belongs ==
  /\ \A r \in Run : run[r].pc \notin {"none", "lost"} => run[r].probe \in issued
  /\ \A b \in Baseline : capture[b].pc \notin {"none", "failed"} => capture[b].probe \in issued
  /\ \A p \in Probe : cascade[p].pc = "removeRuns" =>
       \A t \in cascade[p].targets : t \in Run /\ run[t].pc = "stored" /\ run[t].probe = p

(* A run that was stored stays stored as long as its probe is. *)
Kept == \A r \in Run : run[r].pc = "stored" /\ run[r].probe \in probes => r \in runs

(* What a capture has listed and folded are runs that were stored, of its probe, and
   those folded have first embeddings of one length. *)
FoldsAlike ==
  \A b \in Baseline :
    /\ \A r \in capture[b].from \cup capture[b].toRead :
         run[r].pc = "stored" /\ run[r].probe = capture[b].probe
    /\ \A r \in capture[b].from : run[r].dim # NoDim
    /\ capture[b].pc \in {"insert", "done"} =>
         /\ capture[b].newest \in capture[b].from
         /\ \A r \in capture[b].from : run[r].dim = run[capture[b].newest].dim

(* A report names a finished capture that has not seen the run. *)
Reported(r) ==
  LET b == run[r].report
  IN /\ b \in Baseline
     /\ run[r].pc \in {"insert", "stored"}
     /\ capture[b].pc = "done"
     /\ capture[b].probe = run[r].probe
     /\ run[capture[b].newest].dim = run[r].dim
     /\ r \notin capture[b].from
ReportsAreFair == \A r \in Run : run[r].report # NoBaseline => Reported(r)

(* A capture begun after another one was answered has the other's newest run still
   before it, or only runs newer than that. *)
NewestOf(b) == run[capture[b].newest].started
InOrder(b, c) ==
  /\ capture[b].pc = "done"
  /\ (capture[b].probe = capture[c].probe /\ capture[b].probe \in probes) =>
       /\ capture[c].pc = "read" =>
            \/ capture[b].newest \in capture[c].from \cup capture[c].toRead
            \/ \A r \in capture[c].from \cup capture[c].toRead : NewestOf(b) < run[r].started
       /\ capture[c].pc \in {"insert", "done"} => NewestOf(b) <= NewestOf(c)
Ordered == \A c \in Baseline : \A b \in capture[c].after : InOrder(b, c)

DInv == TypeOK /\ Belongs /\ Kept /\ FoldsAlike /\ ReportsAreFair /\ Ordered

USE DataAssumption DEF Time

-----------------------------------------------------------------------------

LEMMA EmptyRecords ==
  /\ NoRunRecord \in RunRecord /\ LostRun \in RunRecord
  /\ NoCapture \in CaptureRecord /\ LostCapture \in CaptureRecord
  /\ NoCascade \in CascadeRecord
  /\ LostRun.pc = "lost" /\ LostRun.report = NoBaseline
  /\ LostCapture.pc = "failed" /\ LostCapture.from = {} /\ LostCapture.toRead = {}
  /\ LostCapture.after = {}
BY DEF NoRunRecord, LostRun, RunRecord, NoCapture, LostCapture, CaptureRecord, NoCascade,
       CascadeRecord

LEMMA DataInit == Init => DInv
<1> SUFFICES ASSUME Init PROVE DInv
  OBVIOUS
<1>1. TypeOK
  BY EmptyRecords DEF Init, TypeOK, NoCascade
<1>2. Belongs /\ Kept
  BY DEF Init, Belongs, Kept, NoRunRecord, NoCapture, NoCascade
<1>3. FoldsAlike /\ ReportsAreFair /\ Ordered
  BY DEF Init, FoldsAlike, ReportsAreFair, Ordered, NoRunRecord, NoCapture
<1>. QED
  BY <1>1, <1>2, <1>3 DEF DInv

-----------------------------------------------------------------------------
(* What a step leaves alone *)

(* Stored runs and finished captures never change, and other runs keep their report or
   lose it with all else. *)
StoredPersist == \A r \in Run : run[r].pc = "stored" => run'[r] = run[r]
ReportsPersist ==
  \A r \in Run : run'[r].report # NoBaseline =>
       /\ run'[r].report = run[r].report
       /\ run'[r].dim = run[r].dim /\ run'[r].probe = run[r].probe
       /\ run'[r].pc \in {"insert", "stored"}
DonePersist == \A b \in Baseline : capture[b].pc = "done" => capture'[b] = capture[b]
CapturesPersist == \A b \in Baseline : capture'[b] \in {capture[b], LostCapture}
NoProbeReturns == probes' \cap issued \subseteq probes

LEMMA FoldsFrame ==
  ASSUME DInv, StoredPersist, CapturesPersist
  PROVE  FoldsAlike'
<1> SUFFICES ASSUME NEW b \in Baseline
             PROVE  /\ \A r \in capture'[b].from \cup capture'[b].toRead :
                         run'[r].pc = "stored" /\ run'[r].probe = capture'[b].probe
                    /\ \A r \in capture'[b].from : run'[r].dim # NoDim
                    /\ capture'[b].pc \in {"insert", "done"} =>
                         /\ capture'[b].newest \in capture'[b].from
                         /\ \A r \in capture'[b].from : run'[r].dim = run'[capture'[b].newest].dim
  BY DEF FoldsAlike
<1>1. CASE capture'[b] = LostCapture
  BY <1>1, EmptyRecords
<1>2. CASE capture'[b] = capture[b]
  <2>1. \A r \in capture[b].from \cup capture[b].toRead : r \in Run
    BY DEF DInv, TypeOK, CaptureRecord
  <2>2. \A r \in capture[b].from \cup capture[b].toRead : run'[r] = run[r]
    BY <2>1 DEF DInv, FoldsAlike, StoredPersist
  <2>. QED
    BY <1>2, <2>2 DEF DInv, FoldsAlike
<1>. QED
  BY <1>1, <1>2 DEF CapturesPersist

LEMMA ReportsFrame ==
  ASSUME DInv, StoredPersist, ReportsPersist, DonePersist
  PROVE  ReportsAreFair'
<1> SUFFICES ASSUME NEW r \in Run, run'[r].report # NoBaseline
             PROVE  Reported(r)'
  BY DEF ReportsAreFair
<1>1. Reported(r)
  BY DEF DInv, ReportsAreFair, ReportsPersist
<1> DEFINE b == run[r].report
<1>2. run'[r].report = b /\ capture'[b] = capture[b]
  BY <1>1 DEF Reported, ReportsPersist, DonePersist
<1>3. capture[b].newest \in Run /\ run[capture[b].newest].pc = "stored"
  BY <1>1 DEF DInv, Reported, FoldsAlike, TypeOK, CaptureRecord
<1>4. run'[capture[b].newest] = run[capture[b].newest]
  BY <1>3 DEF StoredPersist
<1>. QED
  BY <1>1, <1>2, <1>4 DEF Reported, ReportsPersist

LEMMA OrderFrame ==
  ASSUME DInv, StoredPersist, CapturesPersist, DonePersist, NoProbeReturns
  PROVE  Ordered'
<1> SUFFICES ASSUME NEW c \in Baseline, NEW b \in capture'[c].after
             PROVE  InOrder(b, c)'
  BY DEF Ordered
<1>1. capture'[c] = capture[c]
  BY EmptyRecords DEF CapturesPersist
<1>2. b \in Baseline /\ InOrder(b, c)
  BY <1>1 DEF DInv, Ordered, TypeOK, CaptureRecord
<1>3. capture'[b] = capture[b] /\ capture[b].probe \in issued
  BY <1>2 DEF InOrder, DInv, Belongs, DonePersist
<1>4. /\ \A r \in capture[c].from \cup capture[c].toRead : run'[r] = run[r]
      /\ run'[capture[b].newest] = run[capture[b].newest]
      /\ capture[c].pc \in {"insert", "done"} => run'[capture[c].newest] = run[capture[c].newest]
  <2>1. \A d \in Baseline : \A r \in capture[d].from \cup capture[d].toRead :
          r \in Run /\ run[r].pc = "stored"
    BY DEF DInv, TypeOK, CaptureRecord, FoldsAlike
  <2>2. capture[b].newest \in capture[b].from
    BY <1>2 DEF InOrder, DInv, FoldsAlike
  <2>3. capture[c].pc \in {"insert", "done"} => capture[c].newest \in capture[c].from
    BY DEF DInv, FoldsAlike
  <2>. QED
    BY <1>2, <2>1, <2>2, <2>3 DEF StoredPersist
<1>5. capture[b].probe \in probes' => capture[b].probe \in probes
  BY <1>3 DEF NoProbeReturns
<1>. QED
  BY <1>1, <1>2, <1>3, <1>4, <1>5 DEF InOrder, NewestOf

LEMMA Frame ==
  ASSUME DInv, TypeOK', Belongs', Kept', StoredPersist, ReportsPersist, CapturesPersist,
         DonePersist, NoProbeReturns
  PROVE  DInv'
BY FoldsFrame, ReportsFrame, OrderFrame DEF DInv

LEMMA StoreFrame ==
  ASSUME DInv, TypeOK', Belongs', Kept', NoProbeReturns, UNCHANGED <<run, capture>>
  PROVE  DInv'
<1>1. StoredPersist /\ CapturesPersist /\ DonePersist
  BY DEF StoredPersist, CapturesPersist, DonePersist
<1>2. ReportsPersist
  BY DEF ReportsPersist, DInv, ReportsAreFair, Reported
<1>. QED
  BY <1>1, <1>2, Frame

(* A step of the capture b keeps what is said of the others. *)
LEMMA CaptureFrame ==
  ASSUME DInv, TypeOK', Belongs', Kept', UNCHANGED <<probes, run>>, NEW b \in Baseline,
         capture[b].pc # "done", \A c \in Baseline \ {b} : capture'[c] = capture[c],
         \A r \in capture'[b].from \cup capture'[b].toRead :
           run[r].pc = "stored" /\ run[r].probe = capture'[b].probe,
         \A r \in capture'[b].from : run[r].dim # NoDim,
         capture'[b].pc \in {"insert", "done"} =>
           /\ capture'[b].newest \in capture'[b].from
           /\ \A r \in capture'[b].from : run[r].dim = run[capture'[b].newest].dim,
         \A c \in capture'[b].after : InOrder(c, b)'
  PROVE  DInv'
<1>1. StoredPersist /\ DonePersist
  BY DEF StoredPersist, DonePersist
<1>2. ReportsPersist
  BY DEF ReportsPersist, DInv, ReportsAreFair, Reported
<1>3. FoldsAlike'
  <2> SUFFICES ASSUME NEW c \in Baseline \ {b}
               PROVE  /\ \A r \in capture'[c].from \cup capture'[c].toRead :
                           run'[r].pc = "stored" /\ run'[r].probe = capture'[c].probe
                      /\ \A r \in capture'[c].from : run'[r].dim # NoDim
                      /\ capture'[c].pc \in {"insert", "done"} =>
                           /\ capture'[c].newest \in capture'[c].from
                           /\ \A r \in capture'[c].from :
                                run'[r].dim = run'[capture'[c].newest].dim
    BY DEF FoldsAlike
  <2>. QED
    BY DEF DInv, FoldsAlike
<1>4. Ordered'
  <2> SUFFICES ASSUME NEW c \in Baseline \ {b}, NEW d \in capture'[c].after
               PROVE  InOrder(d, c)'
    BY DEF Ordered
  <2>1. d \in Baseline /\ InOrder(d, c)
    BY DEF DInv, Ordered, TypeOK, CaptureRecord
  <2>. QED
    BY <2>1 DEF InOrder, NewestOf
<1>. QED
  BY <1>1, <1>2, <1>3, <1>4, ReportsFrame DEF DInv

-----------------------------------------------------------------------------
(* The probes and their deletion *)

LEMMA CreateProbeKeeps ==
  ASSUME DInv, NEW p \in Probe, CreateProbe(p)
  PROVE  DInv'
<1>1. TypeOK' /\ Belongs'
  BY DEF DInv, TypeOK, Belongs, CreateProbe, clocks, flights, looping, RunInFlight
<1>2. Kept'
  BY DEF DInv, Kept, Belongs, CreateProbe, flights
<1>. QED
  BY <1>1, <1>2, StoreFrame DEF CreateProbe, flights, NoProbeReturns

LEMMA SpawnLoopKeeps ==
  ASSUME DInv, NEW p \in Probe, SpawnLoop(p)
  PROVE  DInv'
<1>1. TypeOK' /\ Belongs' /\ Kept'
  BY DEF DInv, TypeOK, Belongs, Kept, SpawnLoop, clocks, store, RunInFlight
<1>. QED
  BY <1>1, StoreFrame DEF SpawnLoop, store, NoProbeReturns

LEMMA DeleteProbeKeeps ==
  ASSUME DInv, NEW p \in Probe, DeleteProbe(p)
  PROVE  DInv'
<1>1. TypeOK'
  BY DEF DInv, TypeOK, DeleteProbe, CascadeTo, CascadeRecord, clocks, looping, RunInFlight
<1>2. Belongs' /\ Kept'
  BY DEF DInv, TypeOK, Belongs, Kept, DeleteProbe, CascadeTo
<1>. QED
  BY <1>1, <1>2, StoreFrame DEF DeleteProbe, NoProbeReturns

LEMMA ListRunsKeeps ==
  ASSUME DInv, NEW p \in Probe, ListRuns(p)
  PROVE  DInv'
<1>1. \A r \in RunsOf(p) : r \in Run /\ run[r].pc = "stored" /\ run[r].probe = p
  BY DEF DInv, TypeOK, RunsOf
<1>2. TypeOK'
  BY <1>1 DEF DInv, TypeOK, ListRuns, CascadeTo, CascadeRecord, clocks, store, looping, RunInFlight
<1>3. Belongs' /\ Kept'
  BY <1>1 DEF DInv, TypeOK, Belongs, Kept, ListRuns, CascadeTo, store
<1>. QED
  BY <1>2, <1>3, StoreFrame DEF ListRuns, store, NoProbeReturns

LEMMA RemoveRunsKeeps ==
  ASSUME DInv, NEW p \in Probe, RemoveRuns(p)
  PROVE  DInv'
<1>1. TypeOK'
  BY DEF DInv, TypeOK, RemoveRuns, CascadeTo, CascadeRecord, clocks, looping, RunInFlight
<1>2. Belongs'
  BY DEF DInv, TypeOK, Belongs, RemoveRuns, CascadeTo
<1>3. Kept'
  BY DEF DInv, TypeOK, Belongs, Kept, RemoveRuns
<1>. QED
  BY <1>1, <1>2, <1>3, StoreFrame DEF RemoveRuns, NoProbeReturns

LEMMA ListBaselinesKeeps ==
  ASSUME DInv, NEW p \in Probe, ListBaselines(p)
  PROVE  DInv'
<1>1. TypeOK'
  BY DEF DInv, TypeOK, ListBaselines, CascadeTo, CascadeRecord, clocks, store, looping,
         RunInFlight, Doomed, BaselinesOf
<1>2. Belongs' /\ Kept'
  BY DEF DInv, TypeOK, Belongs, Kept, ListBaselines, CascadeTo, store
<1>. QED
  BY <1>1, <1>2, StoreFrame DEF ListBaselines, store, NoProbeReturns

LEMMA RemoveBaselinesKeeps ==
  ASSUME DInv, NEW p \in Probe, RemoveBaselines(p)
  PROVE  DInv'
<1>1. TypeOK'
  BY DEF DInv, TypeOK, RemoveBaselines, CascadeTo, CascadeRecord, clocks, looping, RunInFlight
<1>2. Belongs' /\ Kept'
  BY DEF DInv, TypeOK, Belongs, Kept, RemoveBaselines, CascadeTo
<1>. QED
  BY <1>1, <1>2, StoreFrame DEF RemoveBaselines, NoProbeReturns

LEMMA CascadeFailsKeeps ==
  ASSUME DInv, NEW p \in Probe, CascadeFails(p)
  PROVE  DInv'
<1>1. TypeOK'
  BY DEF DInv, TypeOK, CascadeFails, CascadeTo, CascadeRecord, clocks, store, looping, RunInFlight
<1>2. Belongs' /\ Kept'
  BY DEF DInv, TypeOK, Belongs, Kept, CascadeFails, CascadeTo, store
<1>. QED
  BY <1>1, <1>2, StoreFrame DEF CascadeFails, store, NoProbeReturns

LEMMA DeleteBaselineKeeps ==
  ASSUME DInv, NEW b \in Baseline, DeleteBaseline(b)
  PROVE  DInv'
<1>1. TypeOK' /\ Belongs' /\ Kept'
  BY DEF DInv, TypeOK, Belongs, Kept, DeleteBaseline, clocks, flights, looping, RunInFlight
<1>. QED
  BY <1>1, StoreFrame DEF DeleteBaseline, flights, NoProbeReturns

-----------------------------------------------------------------------------
(* The runs *)

(* A step of runs that are not stored, none of which gains a report. *)
LEMMA RunFrame ==
  ASSUME DInv, TypeOK', Belongs', Kept', StoredPersist, UNCHANGED <<probes, capture>>,
         \A r \in Run : run'[r].report # NoBaseline =>
           /\ run'[r].report = run[r].report
           /\ run'[r].dim = run[r].dim /\ run'[r].probe = run[r].probe
           /\ run[r].pc = "insert" => run'[r].pc \in {"insert", "stored"}
           /\ run[r].pc = "stored" => run'[r].pc = "stored"
  PROVE  DInv'
<1>1. ReportsPersist
  BY DEF ReportsPersist, DInv, ReportsAreFair, Reported
<1>2. CapturesPersist /\ DonePersist /\ NoProbeReturns
  BY DEF CapturesPersist, DonePersist, NoProbeReturns
<1>. QED
  BY <1>1, <1>2, Frame

LEMMA StopLoopKeeps ==
  ASSUME DInv, NEW p \in Probe, StopLoop(p)
  PROVE  DInv'
<1>1. TypeOK'
  BY EmptyRecords DEF DInv, TypeOK, StopLoop, RunRecord, RunInFlight, clocks, store, looping
<1>2. Belongs' /\ Kept' /\ StoredPersist
  BY EmptyRecords DEF DInv, TypeOK, Belongs, Kept, StoredPersist, StopLoop, looping, RunInFlight, store
<1>3. \A q \in Run : run'[q].report # NoBaseline =>
        /\ run'[q].report = run[q].report
        /\ run'[q].dim = run[q].dim /\ run'[q].probe = run[q].probe
        /\ run[q].pc = "insert" => run'[q].pc \in {"insert", "stored"}
        /\ run[q].pc = "stored" => run'[q].pc = "stored"
  BY EmptyRecords DEF DInv, TypeOK, ReportsAreFair, Reported, StopLoop, looping, RunRecord
<1>. QED
  BY <1>1, <1>2, <1>3, RunFrame DEF StopLoop, looping, store

LEMMA BeginRunKeeps ==
  ASSUME DInv, NEW r \in Run, NEW p \in issued, BeginRun(r, p), scheduled' \subseteq scheduled \cup {r}
  PROVE  DInv'
<1> DEFINE begun == [pc |-> "running", probe |-> p, started |-> runClock, dim |-> NoDim,
                     report |-> NoBaseline]
<1>1. /\ run[r].pc = "none" /\ run' = [run EXCEPT ![r] = begun]
      /\ begun \in RunRecord
      /\ UNCHANGED <<captureClock, store, loops, capture, cascade>>
  BY DEF BeginRun, RunRecord, DInv, TypeOK
<1>2. /\ run' \in [Run -> RunRecord]
      /\ run'[r] = begun /\ \A q \in Run \ {r} : run'[q] = run[q]
  BY <1>1 DEF DInv, TypeOK
<1> HIDE DEF begun
<1>3. /\ begun.pc = "running" /\ begun.probe = p /\ begun.report = NoBaseline
  BY DEF begun
<1>4. TypeOK'
  <2>1. runClock' \in Time /\ disturbed' \subseteq issued
    BY DEF BeginRun, DInv, TypeOK
  <2>2. \A q \in scheduled' : q \in Run /\ RunInFlight(q)'
    BY <1>2, <1>3 DEF DInv, TypeOK, RunInFlight
  <2>3. \A q \in runs : q \in Run /\ run'[q].pc = "stored"
    BY <1>1, <1>2 DEF DInv, TypeOK
  <2>. QED
    BY <1>1, <1>2, <2>1, <2>2, <2>3 DEF DInv, TypeOK, store
<1>5. Belongs' /\ Kept' /\ StoredPersist
  BY <1>1, <1>2, <1>3 DEF DInv, TypeOK, Belongs, Kept, StoredPersist, store
<1>. QED
  BY <1>1, <1>2, <1>3, <1>4, <1>5, RunFrame DEF store

LEMMA FinishProviderKeeps ==
  ASSUME DInv, NEW r \in Run, FinishProvider(r)
  PROVE  DInv'
<1>1. TypeOK'
  BY EmptyRecords DEF DInv, TypeOK, FinishProvider, RunRecord, RunInFlight, clocks, store, looping
<1>2. Belongs' /\ Kept' /\ StoredPersist
  BY EmptyRecords DEF DInv, TypeOK, Belongs, Kept, StoredPersist, FinishProvider, looping, RunInFlight, store
<1>3. \A q \in Run : run'[q].report # NoBaseline =>
        /\ run'[q].report = run[q].report
        /\ run'[q].dim = run[q].dim /\ run'[q].probe = run[q].probe
        /\ run[q].pc = "insert" => run'[q].pc \in {"insert", "stored"}
        /\ run[q].pc = "stored" => run'[q].pc = "stored"
  BY EmptyRecords DEF DInv, TypeOK, ReportsAreFair, Reported, FinishProvider, looping, RunRecord
<1>. QED
  BY <1>1, <1>2, <1>3, RunFrame DEF FinishProvider, looping, store

LEMMA InsertRunKeeps ==
  ASSUME DInv, NEW r \in Run, InsertRun(r)
  PROVE  DInv'
<1>1. TypeOK'
  BY EmptyRecords DEF DInv, TypeOK, InsertRun, RunRecord, RunInFlight, clocks, store, looping
<1>2. Belongs' /\ Kept' /\ StoredPersist
  BY EmptyRecords DEF DInv, TypeOK, Belongs, Kept, StoredPersist, InsertRun, RunRecord, RunInFlight, store
<1>3. \A q \in Run : run'[q].report # NoBaseline =>
        /\ run'[q].report = run[q].report
        /\ run'[q].dim = run[q].dim /\ run'[q].probe = run[q].probe
        /\ run[q].pc = "insert" => run'[q].pc \in {"insert", "stored"}
        /\ run[q].pc = "stored" => run'[q].pc = "stored"
  BY EmptyRecords DEF DInv, TypeOK, ReportsAreFair, Reported, InsertRun, RunRecord
<1>. QED
  BY <1>1, <1>2, <1>3, RunFrame DEF InsertRun, RunRecord, store

LEMMA LoseRunKeeps ==
  ASSUME DInv, NEW r \in Run, LoseRun(r)
  PROVE  DInv'
<1>1. TypeOK'
  BY EmptyRecords DEF DInv, TypeOK, LoseRun, RunInFlight, RunRecord, clocks, store, looping
<1>2. Belongs' /\ Kept' /\ StoredPersist
  BY EmptyRecords DEF DInv, TypeOK, Belongs, Kept, StoredPersist, LoseRun, RunInFlight, store
<1>3. \A q \in Run : run'[q].report # NoBaseline =>
        /\ run'[q].report = run[q].report
        /\ run'[q].dim = run[q].dim /\ run'[q].probe = run[q].probe
        /\ run[q].pc = "insert" => run'[q].pc \in {"insert", "stored"}
        /\ run[q].pc = "stored" => run'[q].pc = "stored"
  BY EmptyRecords DEF DInv, TypeOK, ReportsAreFair, Reported, LoseRun, RunInFlight, RunRecord
<1>. QED
  BY <1>1, <1>2, <1>3, RunFrame DEF LoseRun, RunInFlight, store

(* Compare makes a report, on a stored baseline: it is finished, and of stored runs. *)
LEMMA CompareKeeps ==
  ASSUME DInv, NEW r \in Run, Compare(r)
  PROVE  DInv'
<1>1. PICK b \in Baseline \cup {NoBaseline} :
        /\ b # NoBaseline => IsLatest(b, run[r].probe) /\ Dimension(b) = run[r].dim
        /\ run' = [run EXCEPT ![r].report = b, ![r].pc = "insert"]
  BY DEF Compare
<1>2. /\ run[r].pc = "compare" /\ UNCHANGED <<clocks, store, looping, capture, cascade, disturbed>>
      /\ run' \in [Run -> RunRecord] /\ \A q \in Run \ {r} : run'[q] = run[q]
      /\ run'[r].pc = "insert" /\ run'[r].report = b
      /\ run'[r].probe = run[r].probe /\ run'[r].dim = run[r].dim
  BY <1>1 DEF Compare, DInv, TypeOK, RunRecord
<1>3. TypeOK' /\ Belongs' /\ Kept' /\ StoredPersist
  BY <1>2 DEF DInv, TypeOK, Belongs, Kept, StoredPersist, RunInFlight, clocks, store, looping
<1>4. FoldsAlike' /\ Ordered'
  BY <1>2, <1>3, FoldsFrame, OrderFrame DEF CapturesPersist, DonePersist, NoProbeReturns, store
<1>5. ReportsAreFair'
  <2> SUFFICES ASSUME NEW q \in Run, run'[q].report # NoBaseline
               PROVE  Reported(q)'
    BY DEF ReportsAreFair
  <2>1. CASE q = r
    <3>1. b \in baselines /\ capture[b].probe = run[r].probe /\ run[capture[b].newest].dim = run[r].dim
      BY <1>1, <1>2, <2>1 DEF IsLatest, BaselinesOf, Dimension
    <3>2. b \in Baseline /\ capture[b].pc = "done"
      BY <3>1 DEF DInv, TypeOK
    <3>3. r \notin capture[b].from /\ capture[b].newest \in Run /\ capture[b].newest # r
      BY <1>2, <3>2 DEF DInv, FoldsAlike, TypeOK, CaptureRecord
    <3>. QED
      BY <1>2, <2>1, <3>1, <3>2, <3>3 DEF Reported
  <2>2. CASE q # r
    <3>1. Reported(q)
      BY <1>2, <2>2 DEF DInv, ReportsAreFair
    <3>2. capture[run[q].report].newest \in Run /\ run[capture[run[q].report].newest].pc = "stored"
      BY <3>1 DEF DInv, Reported, FoldsAlike, TypeOK, CaptureRecord
    <3>. QED
      BY <1>2, <2>2, <3>1, <3>2 DEF Reported
  <2>. QED
    BY <2>1, <2>2
<1>. QED
  BY <1>3, <1>4, <1>5 DEF DInv

-----------------------------------------------------------------------------
(* The captures *)

(* The newest run of a finished capture is a stored run of its probe, with embeddings. *)
LEMMA NewestIsARun ==
  ASSUME DInv, NEW b \in Baseline, capture[b].pc \in {"insert", "done"}
  PROVE  LET n == capture[b].newest
         IN /\ n \in Run /\ run[n].pc = "stored" /\ run[n].probe = capture[b].probe
            /\ run[n].dim # NoDim /\ NewestOf(b) \in Nat
BY DEF DInv, FoldsAlike, TypeOK, CaptureRecord, RunRecord, NewestOf

(* Of two stored runs, the newer is among the most recent if the older is. *)
LEMMA MostRecentIsUpwardClosed ==
  ASSUME DInv, NEW p, NEW n \in RunsOf(p), NEW r \in MostRecent(p, CaptureRuns),
         run[r].started <= run[n].started
  PROVE  n \in MostRecent(p, CaptureRuns)
<1> DEFINE A == Newer(n, RunsOf(p))
           B == Newer(r, RunsOf(p))
<1>1. RunsOf(p) \subseteq Run /\ IsFiniteSet(RunsOf(p))
  BY FS_Subset DEF DInv, TypeOK, RunsOf
<1>2. r \in RunsOf(p) /\ (Cardinality(B) < CaptureRuns \/ B = {})
  BY DEF MostRecent
<1>3. \A q \in RunsOf(p) : run[q].started \in Nat
  BY <1>1 DEF DInv, TypeOK, RunRecord
<1>4. A \subseteq B
  BY <1>2, <1>3 DEF Newer
<1>5. IsFiniteSet(B)
  BY <1>1, FS_Subset DEF Newer
<1>6. Cardinality(A) <= Cardinality(B) /\ Cardinality(A) \in Nat /\ Cardinality(B) \in Nat
  BY <1>4, <1>5, FS_Subset, FS_CardinalityType
<1>7. Cardinality(A) < CaptureRuns \/ A = {}
  BY <1>2, <1>4, <1>6
<1>. QED
  BY <1>7 DEF MostRecent

LEMMA BeginCaptureKeeps ==
  ASSUME DInv, NEW b \in Baseline, NEW p \in Probe, BeginCapture(b, p)
  PROVE  DInv'
<1> DEFINE listed == MostRecent(p, CaptureRuns)
           answered == {c \in Baseline : capture[c].pc = "done"}
           begun == [pc |-> "read", probe |-> p, toRead |-> listed, from |-> {},
                     newest |-> NoRun, at |-> 0, after |-> answered]
<1>1. /\ capture[b].pc = "none" /\ p \in issued
      /\ capture' = [capture EXCEPT ![b] = begun]
      /\ UNCHANGED <<clocks, store, looping, run, cascade>>
  BY DEF BeginCapture
<1>2. listed \subseteq RunsOf(p) /\ RunsOf(p) \subseteq Run
  BY DEF MostRecent, DInv, TypeOK, RunsOf
<1>3. begun \in CaptureRecord
  BY <1>2 DEF CaptureRecord
<1>4. /\ capture' \in [Baseline -> CaptureRecord] /\ capture'[b] = begun
      /\ \A c \in Baseline \ {b} : capture'[c] = capture[c]
  BY <1>1, <1>3 DEF DInv, TypeOK
<1>5. TypeOK'
  <2>1. disturbed' \subseteq issued
    BY <1>1 DEF BeginCapture, DInv, TypeOK
  <2>2. \A c \in baselines : c \in Baseline /\ capture'[c].pc = "done"
    BY <1>1, <1>4 DEF DInv, TypeOK
  <2>. QED
    BY <1>1, <1>4, <2>1, <2>2 DEF DInv, TypeOK, clocks, store, looping, RunInFlight
<1>6. Belongs' /\ Kept'
  BY <1>1, <1>4 DEF DInv, Belongs, Kept, store
<1>7. \A r \in listed : run[r].pc = "stored" /\ run[r].probe = p
  BY <1>2 DEF DInv, TypeOK, RunsOf
<1>8. \A c \in answered : InOrder(c, b)'
  <2> SUFFICES ASSUME NEW c \in answered, capture[c].probe = p, p \in probes,
                      capture[c].newest \notin listed
               PROVE  \A r \in listed : NewestOf(c) < run[r].started
    BY <1>1, <1>4 DEF InOrder, NewestOf, store
  <2>1. capture[c].newest \in RunsOf(p)
    BY NewestIsARun DEF DInv, Kept, RunsOf
  <2>2. \A r \in listed : ~(run[r].started <= NewestOf(c))
    BY <2>1, MostRecentIsUpwardClosed DEF NewestOf
  <2>. QED
    BY <1>2, <2>2, NewestIsARun DEF DInv, TypeOK, RunRecord
<1>. QED
  BY <1>1, <1>4, <1>5, <1>6, <1>7, <1>8, CaptureFrame DEF store

LEMMA ReadEmbeddingsKeeps ==
  ASSUME DInv, NEW b \in Baseline, NEW r \in Run, ReadEmbeddings(b, r)
  PROVE  DInv'
<1> DEFINE usable == r \in runs /\ run[r].dim # NoDim
           from == IF usable THEN capture[b].from \cup {r} ELSE capture[b].from
<1>1. /\ capture[b].pc = "read" /\ r \in capture[b].toRead
      /\ UNCHANGED <<clocks, store, looping, run, cascade, disturbed>>
      /\ capture' \in [Baseline -> CaptureRecord]
      /\ \A c \in Baseline \ {b} : capture'[c] = capture[c]
      /\ capture'[b].pc = "read" /\ capture'[b].probe = capture[b].probe
      /\ capture'[b].toRead = capture[b].toRead \ {r} /\ capture'[b].from = from
      /\ capture'[b].after = capture[b].after
  <2>1. capture[b] \in CaptureRecord /\ from \in SUBSET Run
    BY DEF DInv, TypeOK, CaptureRecord
  <2>2. /\ capture[b].pc = "read" /\ r \in capture[b].toRead
        /\ capture' = [capture EXCEPT ![b].toRead = @ \ {r}, ![b].from = from]
        /\ UNCHANGED <<clocks, store, looping, run, cascade, disturbed>>
    BY DEF ReadEmbeddings
  <2> HIDE DEF from
  <2>. QED
    BY <2>1, <2>2 DEF DInv, TypeOK, CaptureRecord
<1>2. TypeOK' /\ Belongs' /\ Kept'
  BY <1>1 DEF DInv, TypeOK, Belongs, Kept, clocks, store, looping, RunInFlight
<1>3. /\ \A q \in from \cup capture'[b].toRead :
           run[q].pc = "stored" /\ run[q].probe = capture[b].probe
      /\ \A q \in from : run[q].dim # NoDim
  BY <1>1 DEF DInv, FoldsAlike
<1>4. \A c \in capture[b].after : InOrder(c, b)'
  <2> SUFFICES ASSUME NEW c \in capture[b].after
               PROVE  InOrder(c, b)'
    OBVIOUS
  <2>1. c \in Baseline /\ c # b /\ InOrder(c, b) /\ capture[c].pc = "done"
    BY <1>1 DEF DInv, Ordered, InOrder, TypeOK, CaptureRecord
  <2>2. ASSUME capture[c].newest = r, capture[c].probe \in probes
        PROVE  usable
    BY <2>1, <2>2, NewestIsARun DEF DInv, Kept
  <2>. QED
    BY <1>1, <2>1, <2>2 DEF InOrder, NewestOf, store
<1>. QED
  BY <1>1, <1>2, <1>3, <1>4, CaptureFrame DEF store

LEMMA BuildBaselineKeeps ==
  ASSUME DInv, NEW b \in Baseline, BuildBaseline(b)
  PROVE  DInv'
<1>1. PICK r \in capture[b].from :
        /\ IsNewest(r, capture[b].from)
        /\ capture' = [capture EXCEPT ![b].pc = "insert", ![b].newest = r,
                                      ![b].at = captureClock, ![b].from = Folded(@, r)]
  BY DEF BuildBaseline
<1>2. capture[b] \in CaptureRecord /\ capture[b].from \subseteq Run /\ captureClock \in Nat
  BY DEF DInv, TypeOK, CaptureRecord
<1>3. /\ capture[b].pc = "read" /\ capture[b].toRead = {}
      /\ captureClock' = captureClock + 1
      /\ UNCHANGED <<runClock, store, looping, run, cascade, disturbed>>
  BY DEF BuildBaseline
<1> DEFINE from == Folded(capture[b].from, r)
<1>4. from \subseteq capture[b].from /\ r \in from /\ \A q \in from : run[q].dim = run[r].dim
  BY DEF Folded
<1> HIDE DEF from
<1>5. /\ capture' \in [Baseline -> CaptureRecord]
      /\ \A c \in Baseline \ {b} : capture'[c] = capture[c]
      /\ capture'[b].pc = "insert" /\ capture'[b].probe = capture[b].probe
      /\ capture'[b].toRead = {} /\ capture'[b].from = from
      /\ capture'[b].newest = r /\ capture'[b].after = capture[b].after
  BY <1>1, <1>2, <1>3, <1>4 DEF DInv, TypeOK, CaptureRecord, from
<1>6. TypeOK' /\ Belongs' /\ Kept'
  BY <1>2, <1>3, <1>5 DEF DInv, TypeOK, Belongs, Kept, store, looping, RunInFlight
<1>7. /\ \A q \in from : run[q].pc = "stored" /\ run[q].probe = capture[b].probe
      /\ \A q \in from : run[q].dim # NoDim
  BY <1>4 DEF DInv, FoldsAlike
<1>8. \A c \in capture[b].after : InOrder(c, b)'
  <2> SUFFICES ASSUME NEW c \in capture[b].after
               PROVE  InOrder(c, b)'
    OBVIOUS
  <2>1. c \in Baseline /\ c # b /\ InOrder(c, b) /\ capture[c].pc = "done"
    BY <1>3 DEF DInv, Ordered, InOrder, TypeOK, CaptureRecord
  <2>2. run[r].started \in Nat /\ NewestOf(c) \in Nat
    BY <1>2, <2>1, NewestIsARun DEF DInv, TypeOK, RunRecord
  <2>3. capture[c].newest \in capture[b].from => NewestOf(c) <= run[r].started
    BY <1>1, <2>2 DEF IsNewest, Newer, NewestOf
  <2>. QED
    BY <1>3, <1>5, <2>1, <2>2, <2>3 DEF InOrder, NewestOf, store
<1>. QED
  BY <1>3, <1>4, <1>5, <1>6, <1>7, <1>8, CaptureFrame DEF store

LEMMA InsertBaselineKeeps ==
  ASSUME DInv, NEW b \in Baseline, InsertBaseline(b)
  PROVE  DInv'
<1>1. /\ capture[b].pc = "insert" /\ baselines' = baselines \cup {b}
      /\ UNCHANGED <<clocks, issued, probes, runs, looping, run, cascade, disturbed>>
      /\ capture' \in [Baseline -> CaptureRecord]
      /\ \A c \in Baseline \ {b} : capture'[c] = capture[c]
      /\ capture'[b].pc = "done" /\ capture'[b].probe = capture[b].probe
      /\ capture'[b].toRead = capture[b].toRead /\ capture'[b].from = capture[b].from
      /\ capture'[b].newest = capture[b].newest /\ capture'[b].after = capture[b].after
  BY DEF InsertBaseline, DInv, TypeOK, CaptureRecord
<1>2. TypeOK' /\ Belongs' /\ Kept'
  BY <1>1 DEF DInv, TypeOK, Belongs, Kept, clocks, looping, RunInFlight
<1>3. \A c \in capture[b].after : InOrder(c, b)'
  BY <1>1 DEF DInv, Ordered, InOrder, NewestOf, TypeOK, CaptureRecord
<1>. QED
  BY <1>1, <1>2, <1>3, CaptureFrame DEF DInv, FoldsAlike

LEMMA CaptureFailsKeeps ==
  ASSUME DInv, NEW b \in Baseline, CaptureFails(b)
  PROVE  DInv'
<1>1. /\ CaptureInFlight(b) /\ capture' \in [Baseline -> CaptureRecord]
      /\ capture'[b] = LostCapture /\ \A c \in Baseline \ {b} : capture'[c] = capture[c]
      /\ UNCHANGED <<clocks, store, looping, run, cascade, disturbed>>
  BY EmptyRecords DEF CaptureFails, DInv, TypeOK
<1>2. TypeOK' /\ Belongs' /\ Kept'
  BY <1>1, EmptyRecords DEF DInv, TypeOK, Belongs, Kept, CaptureInFlight, clocks, store, looping,
                            RunInFlight
<1>. QED
  BY <1>1, <1>2, EmptyRecords, CaptureFrame DEF CaptureInFlight, store

-----------------------------------------------------------------------------

LEMMA RestartKeeps ==
  ASSUME DInv, Restart
  PROVE  DInv'
<1>1. TypeOK'
  BY EmptyRecords DEF DInv, TypeOK, Restart, clocks, store, RunInFlight, CaptureInFlight, NoCascade
<1>2. Belongs' /\ Kept'
  BY EmptyRecords DEF DInv, TypeOK, Belongs, Kept, Restart, store, RunInFlight, CaptureInFlight,
                      NoCascade
<1>3. StoredPersist /\ CapturesPersist /\ DonePersist /\ NoProbeReturns
  BY DEF StoredPersist, CapturesPersist, DonePersist, NoProbeReturns, Restart, store, RunInFlight,
         CaptureInFlight
<1>4. ReportsPersist
  BY EmptyRecords DEF ReportsPersist, DInv, ReportsAreFair, Reported, Restart
<1>. QED
  BY <1>1, <1>2, <1>3, <1>4, Frame

LEMMA DataStutter ==
  ASSUME DInv, UNCHANGED vars
  PROVE  DInv'
<1>1. TypeOK' /\ Belongs' /\ Kept'
  BY DEF DInv, TypeOK, Belongs, Kept, vars, clocks, store, flights, looping, RunInFlight
<1>. QED
  BY <1>1, StoreFrame DEF vars, store, flights, NoProbeReturns

LEMMA DataStep == DInv /\ [Next]_vars => DInv'
<1> SUFFICES ASSUME DInv, [Next]_vars PROVE DInv'
  OBVIOUS
<1>1. ASSUME NEW p \in Probe, ProbeStep(p) PROVE DInv'
  BY <1>1, CreateProbeKeeps, SpawnLoopKeeps, StopLoopKeeps, DeleteProbeKeeps, ListRunsKeeps,
     RemoveRunsKeeps, ListBaselinesKeeps, RemoveBaselinesKeeps, CascadeFailsKeeps DEF ProbeStep
<1>2. ASSUME NEW r \in Run, NEW p \in Probe, ScheduledRun(r, p) \/ RunNow(r, p) PROVE DInv'
  <2>1. p \in issued /\ BeginRun(r, p)
    BY <1>2 DEF ScheduledRun, RunNow, DInv, TypeOK
  <2>2. scheduled' \subseteq scheduled \cup {r}
    BY <1>2 DEF ScheduledRun, RunNow
  <2>. QED
    BY <2>1, <2>2, BeginRunKeeps
<1>3. ASSUME NEW r \in Run, FinishProvider(r) \/ Compare(r) \/ InsertRun(r) \/ LoseRun(r) PROVE DInv'
  BY <1>3, FinishProviderKeeps, CompareKeeps, InsertRunKeeps, LoseRunKeeps
<1>4. ASSUME NEW b \in Baseline, BaselineStep(b) PROVE DInv'
  BY <1>4, BeginCaptureKeeps, ReadEmbeddingsKeeps, BuildBaselineKeeps, InsertBaselineKeeps,
     CaptureFailsKeeps, DeleteBaselineKeeps DEF BaselineStep
<1>. QED
  BY <1>1, <1>2, <1>3, <1>4, RestartKeeps, DataStutter DEF Next, RunStep

(* Every reachable state of the data satisfies the inductive invariant. *)
THEOREM DataInvariance == Spec => []DInv
<1>. QED
  BY DataInit, DataStep, PTL DEF Spec

(* The store, the runs, the captures and the deletions stay in their ranges, and only
   finished runs and captures are ever stored. *)
THEOREM DataTypes == Spec => []TypeOK
<1>1. DInv => TypeOK
  BY DEF DInv
<1>. QED
  BY <1>1, DataInvariance, PTL

(* No run is judged by a baseline it is part of, for any number of probes, runs and
   captures. *)
THEOREM RunsAreJudgedByOthers == Spec => []NeverAgainstItself
<1>1. DInv => NeverAgainstItself
  BY DEF DInv, NeverAgainstItself, ReportsAreFair, Reported
<1>. QED
  BY <1>1, DataInvariance, PTL

(* A run is compared with runs of its own probe that begin with an embedding as long as
   its own, however often the embedding model changes. *)
THEOREM ComparedCloudsAgree == Spec => []CloudsAreComparable
<1>1. DInv => CloudsAreComparable
  BY DEF DInv, CloudsAreComparable, ReportsAreFair, Reported, FoldsAlike
<1>. QED
  BY <1>1, DataInvariance, PTL

(* A baseline captured after another one was answered is at least as new, for any number
   of runs and whatever baseline_capture_runs is, 0 included. *)
THEOREM BaselinesMoveForward == Spec => []LaterCaptureIsNewer
<1>1. DInv => LaterCaptureIsNewer
  BY DEF DInv, LaterCaptureIsNewer, Ordered, InOrder, NewestOf
<1>. QED
  BY <1>1, DataInvariance, PTL

-----------------------------------------------------------------------------
(* Deletions that nothing overlaps *)

Quiet(p) == p \in issued /\ p \notin probes /\ p \notin disturbed

(* What is done of the deletion of p stays done. *)
Erased(p) ==
  /\ WritersOf(p) = {}
  /\ cascade[p].pc = "removeRuns" => RunsOf(p) \subseteq cascade[p].targets
  /\ cascade[p].pc \notin {"runs", "removeRuns"} => RunsOf(p) = {}
  /\ cascade[p].pc = "removeBaselines" => BaselinesOf(p) \subseteq cascade[p].targets
  /\ cascade[p].pc = "none" => BaselinesOf(p) = {}
Erasing == \A p \in Probe : Quiet(p) => Erased(p)

(* A step adds nothing to what is stored of p and starts no writer. *)
Leaves(p) ==
  /\ WritersOf(p)' \subseteq WritersOf(p)
  /\ RunsOf(p)' \subseteq RunsOf(p) /\ BaselinesOf(p)' \subseteq BaselinesOf(p)
  /\ cascade'[p] = cascade[p]

LEMMA ErasedFrame ==
  ASSUME Erasing, NEW p \in Probe, Quiet(p), Leaves(p)
  PROVE  Erased(p)'
BY DEF Erasing, Erased, Leaves

LEMMA ProbesErase ==
  ASSUME DInv, Erasing, NEW q \in Probe, ProbeStep(q), NEW p \in Probe, Quiet(p)'
  PROVE  Erased(p)'
<1>0. cascade \in [Probe -> CascadeRecord] /\ run \in [Run -> RunRecord]
  BY DEF DInv, TypeOK
<1> USE DEF CascadeTo, RunsOf, BaselinesOf
<1>1. CASE CreateProbe(q) \/ SpawnLoop(q)
  <2>1. Quiet(p) /\ Leaves(p)
    BY <1>1 DEF CreateProbe, SpawnLoop, Quiet, Leaves, WritersOf, RunInFlight, CaptureInFlight,
                flights, looping, store
  <2>. QED
    BY <2>1, ErasedFrame
<1>2. CASE StopLoop(q)
  <2>1. /\ \A r \in Run : run'[r] = run[r] \/ (run'[r] = LostRun /\ run[r].pc = "running")
        /\ UNCHANGED <<store, capture, cascade, disturbed>>
    BY <1>2 DEF StopLoop
  <2>2. RunsOf(p)' \subseteq RunsOf(p) /\ BaselinesOf(p)' \subseteq BaselinesOf(p)
    BY <2>1 DEF DInv, TypeOK, store
  <2>3. WritersOf(p)' \subseteq WritersOf(p)
    BY <2>1, EmptyRecords DEF WritersOf, RunInFlight, CaptureInFlight
  <2>4. Quiet(p) /\ Leaves(p)
    BY <2>1, <2>2, <2>3 DEF Quiet, Leaves, store
  <2>. QED
    BY <2>4, ErasedFrame
<1>3. CASE DeleteProbe(q)
  <2>1. CASE p = q
    <3>1. WritersOf(p)' = {} /\ cascade'[p].pc = "runs"
      BY <1>0, <1>3, <2>1 DEF DeleteProbe, Quiet, WritersOf, RunInFlight, CaptureInFlight
    <3>. QED
      BY <3>1 DEF Erased
  <2>2. CASE p # q
    <3>1. Quiet(p) /\ Leaves(p)
      BY <1>0, <1>3, <2>2 DEF DeleteProbe, Quiet, Leaves, WritersOf, RunInFlight, CaptureInFlight
    <3>. QED
      BY <3>1, ErasedFrame
  <2>. QED
    BY <2>1, <2>2
<1>4. CASE ListRuns(q) \/ RemoveRuns(q) \/ ListBaselines(q) \/ RemoveBaselines(q)
  <2>1. /\ Quiet(p) /\ UNCHANGED <<run, capture>>
        /\ runs' \subseteq runs /\ baselines' \subseteq baselines
        /\ p # q => cascade'[p] = cascade[p]
    BY <1>0, <1>4 DEF ListRuns, RemoveRuns, ListBaselines, RemoveBaselines, Quiet, store
  <2>2. /\ WritersOf(p)' = WritersOf(p)
        /\ RunsOf(p)' \subseteq RunsOf(p) /\ BaselinesOf(p)' \subseteq BaselinesOf(p)
    BY <2>1 DEF WritersOf, RunInFlight, CaptureInFlight
  <2>3. CASE p # q
    BY <2>1, <2>2, <2>3, ErasedFrame DEF Leaves
  <2>4. CASE p = q
    <3>1. Erased(p)
      BY <2>1 DEF Erasing
    <3>2. CASE ListRuns(p)
      <4>1. cascade'[p] = [pc |-> "removeRuns", targets |-> RunsOf(p)]
        BY <1>0, <3>2 DEF ListRuns
      <4>. QED
        BY <2>2, <3>1, <4>1 DEF Erased
    <3>3. CASE RemoveRuns(p)
      <4>1. cascade'[p].pc = "baselines" /\ runs' = runs \ cascade[p].targets
        BY <1>0, <3>3 DEF RemoveRuns
      <4>2. RunsOf(p)' = {}
        BY <2>1, <3>1, <3>3, <4>1 DEF Erased, RemoveRuns
      <4>. QED
        BY <2>2, <3>1, <4>1, <4>2 DEF Erased
    <3>4. CASE ListBaselines(p)
      <4>1. cascade'[p] = [pc |-> "removeBaselines", targets |-> BaselinesOf(p)]
        BY <1>0, <3>4 DEF ListBaselines, Doomed
      <4>. QED
        BY <2>2, <3>1, <3>4, <4>1 DEF Erased, ListBaselines
    <3>5. CASE RemoveBaselines(p)
      <4>1. cascade'[p].pc = "none" /\ baselines' = baselines \ cascade[p].targets
        BY <1>0, <3>5 DEF RemoveBaselines
      <4>2. BaselinesOf(p)' = {}
        BY <2>1, <3>1, <3>5, <4>1 DEF Erased, RemoveBaselines
      <4>. QED
        BY <2>2, <3>1, <3>5, <4>1, <4>2 DEF Erased, RemoveBaselines
    <3>. QED
      BY <1>4, <2>4, <3>2, <3>3, <3>4, <3>5
  <2>. QED
    BY <2>3, <2>4
<1>5. CASE CascadeFails(q)
  <2>1. Quiet(p) /\ Leaves(p)
    BY <1>0, <1>5 DEF CascadeFails, Quiet, Leaves, WritersOf, RunInFlight, CaptureInFlight, store
  <2>. QED
    BY <2>1, ErasedFrame
<1>. QED
  BY <1>1, <1>2, <1>3, <1>4, <1>5 DEF ProbeStep

(* A run that ends storing its row was in flight, and one that begins is on record. *)
LEMMA RunsErase ==
  ASSUME DInv, Erasing, NEW r \in Run, RunStep(r), NEW p \in Probe, Quiet(p)'
  PROVE  Erased(p)'
<1>1. Quiet(p) /\ cascade'[p] = cascade[p] /\ baselines' = baselines /\ capture' = capture
  BY DEF RunStep, ScheduledRun, RunNow, BeginRun, FinishProvider, Compare, InsertRun, LoseRun,
         Quiet, store
<1>2. Erased(p)
  BY <1>1 DEF Erasing
<1>3. /\ run \in [Run -> RunRecord] /\ \A q \in Run \ {r} : run'[q] = run[q]
      /\ runs' \subseteq runs \cup {r}
  BY DEF DInv, TypeOK, RunStep, ScheduledRun, RunNow, BeginRun, FinishProvider, Compare,
         InsertRun, LoseRun, store
<1>4. run'[r].probe = p => run[r].probe = p /\ RunInFlight(r)
  <2>1. ASSUME NEW q \in Probe, ScheduledRun(r, q) \/ RunNow(r, q)
        PROVE  run'[r].probe # p
    <3>1. BeginRun(r, q)
      BY <2>1 DEF ScheduledRun, RunNow
    <3>2. run'[r].probe = q
      BY <1>3, <3>1 DEF BeginRun
    <3>3. p # q
      BY <1>1, <3>1 DEF BeginRun, Quiet
    <3>. QED
      BY <3>2, <3>3
  <2>2. CASE FinishProvider(r) \/ Compare(r) \/ InsertRun(r)
    <3>1. run[r] \in RunRecord
      BY <1>3
    <3>2. RunInFlight(r)
      BY <2>2 DEF FinishProvider, Compare, InsertRun, RunInFlight
    <3>3. CASE FinishProvider(r)
      <4>1. PICK d : run' = [run EXCEPT ![r].dim = d,
                ![r].pc = IF r \in scheduled /\ d # NoDim THEN "compare" ELSE "insert"]
        BY <3>3 DEF FinishProvider
      <4>2. run'[r].probe = run[r].probe
        BY <1>3, <3>1, <4>1 DEF RunRecord
      <4>. QED
        BY <3>2, <4>2
    <3>4. CASE Compare(r)
      <4>1. PICK b : run' = [run EXCEPT ![r].report = b, ![r].pc = "insert"]
        BY <3>4 DEF Compare
      <4>2. run'[r].probe = run[r].probe
        BY <1>3, <3>1, <4>1 DEF RunRecord
      <4>. QED
        BY <3>2, <4>2
    <3>5. CASE InsertRun(r)
      BY <1>3, <3>1, <3>2, <3>5 DEF InsertRun, RunRecord
    <3>. QED
      BY <2>2, <3>3, <3>4, <3>5
  <2>3. CASE LoseRun(r)
    BY <1>3, <2>3, DataAssumption DEF LoseRun, LostRun, NoRunRecord
  <2>. QED
    BY <2>1, <2>2, <2>3 DEF RunStep
<1>5. run'[r].probe # p
  BY <1>2, <1>4 DEF Erased, WritersOf
<1>6. Leaves(p)
  <2>1. WritersOf(p)' \subseteq WritersOf(p)
    BY <1>1, <1>3, <1>5 DEF WritersOf, RunInFlight, CaptureInFlight
  <2>2. RunsOf(p)' \subseteq RunsOf(p) /\ BaselinesOf(p)' = BaselinesOf(p)
    BY <1>1, <1>3, <1>5 DEF RunsOf, BaselinesOf, DInv, TypeOK
  <2>. QED
    BY <1>1, <2>1, <2>2 DEF Leaves
<1>. QED
  BY <1>1, <1>6, ErasedFrame

(* So was a capture. *)
LEMMA CapturesErase ==
  ASSUME DInv, Erasing, NEW b \in Baseline, BaselineStep(b), NEW p \in Probe, Quiet(p)'
  PROVE  Erased(p)'
<1>1. Quiet(p) /\ cascade' = cascade /\ runs' = runs /\ run' = run
  BY DEF BaselineStep, BeginCapture, ReadEmbeddings, BuildBaseline, InsertBaseline, CaptureFails,
         DeleteBaseline, Quiet, store, flights
<1>2. Erased(p)
  BY <1>1 DEF Erasing
<1>3. CASE DeleteBaseline(b)
  <2>1. Leaves(p)
    BY <1>1, <1>3 DEF DeleteBaseline, flights, Leaves, WritersOf, RunInFlight, CaptureInFlight,
                      RunsOf, BaselinesOf
  <2>. QED
    BY <1>1, <2>1, ErasedFrame
<1>4. CASE ~DeleteBaseline(b)
  <2>1. /\ capture \in [Baseline -> CaptureRecord]
        /\ \A c \in Baseline \ {b} : capture'[c] = capture[c]
        /\ baselines' \subseteq baselines \cup {b}
    BY <1>4 DEF DInv, TypeOK, BaselineStep, BeginCapture, ReadEmbeddings, BuildBaseline,
                InsertBaseline, CaptureFails, store
  <2>2. capture'[b].probe = p => capture[b].probe = p /\ CaptureInFlight(b)
    <3>1. ASSUME NEW q \in Probe, BeginCapture(b, q)
          PROVE  capture'[b].probe # p
      <4>1. capture'[b].probe = q
        BY <2>1, <3>1 DEF BeginCapture
      <4>2. p # q
        BY <1>1, <3>1 DEF BeginCapture, Quiet
      <4>. QED
        BY <4>1, <4>2
    <3>2. ASSUME NEW r \in Run, ReadEmbeddings(b, r)
          PROVE  capture'[b].probe = capture[b].probe /\ CaptureInFlight(b)
      BY <2>1, <3>2 DEF ReadEmbeddings, CaptureInFlight, CaptureRecord
    <3>3. CASE BuildBaseline(b) \/ InsertBaseline(b)
      <4>1. capture[b] \in CaptureRecord
        BY <2>1
      <4>2. CaptureInFlight(b)
        BY <3>3 DEF BuildBaseline, InsertBaseline, CaptureInFlight
      <4>3. CASE BuildBaseline(b)
        <5>1. PICK r : capture' = [capture EXCEPT ![b].pc = "insert", ![b].newest = r,
                         ![b].at = captureClock, ![b].from = Folded(@, r)]
          BY <4>3 DEF BuildBaseline
        <5>2. capture'[b].probe = capture[b].probe
          BY <2>1, <4>1, <5>1 DEF CaptureRecord
        <5>. QED
          BY <4>2, <5>2
      <4>4. CASE InsertBaseline(b)
        BY <2>1, <4>1, <4>2, <4>4 DEF InsertBaseline, CaptureRecord
      <4>. QED
        BY <3>3, <4>3, <4>4
    <3>4. CASE CaptureFails(b)
      BY <2>1, <3>4, DataAssumption DEF CaptureFails, LostCapture, NoCapture
    <3>. QED
      BY <1>4, <3>1, <3>2, <3>3, <3>4 DEF BaselineStep
  <2>3. capture'[b].probe # p
    BY <1>2, <2>2 DEF Erased, WritersOf
  <2>4. Leaves(p)
    <3>1. WritersOf(p)' \subseteq WritersOf(p)
      BY <1>1, <2>1, <2>3 DEF WritersOf, RunInFlight, CaptureInFlight
    <3>2. RunsOf(p)' = RunsOf(p) /\ BaselinesOf(p)' \subseteq BaselinesOf(p)
      BY <1>1, <2>1, <2>3 DEF RunsOf, BaselinesOf, DInv, TypeOK
    <3>. QED
      BY <1>1, <3>1, <3>2 DEF Leaves
  <2>. QED
    BY <1>1, <2>4, ErasedFrame
<1>. QED
  BY <1>3, <1>4

(* A restart leaves nobody writing, and puts every deletion it cuts short on record. *)
LEMMA RestartErases ==
  ASSUME DInv, Erasing, Restart, NEW p \in Probe, Quiet(p)'
  PROVE  Erased(p)'
<1>1. Quiet(p) /\ cascade[p].pc = "none" /\ cascade'[p].pc = "none"
  BY DEF Restart, Quiet, store, NoCascade
<1>2. Erased(p)
  BY <1>1 DEF Erasing
<1>3. WritersOf(p)' = {}
  BY EmptyRecords DEF Restart, WritersOf, RunInFlight, CaptureInFlight
<1>4. RunsOf(p)' = RunsOf(p) /\ BaselinesOf(p)' = BaselinesOf(p)
  BY DEF Restart, RunsOf, BaselinesOf, DInv, TypeOK, store, RunInFlight, CaptureInFlight
<1>. QED
  BY <1>1, <1>2, <1>3, <1>4 DEF Erased

(* The deletion of a probe that no run and no capture overlaps and no failure cuts short
   leaves nothing of it, for any number of runs and baselines. *)
THEOREM QuietDeletionErases == Spec => []QuietDeletionIsComplete
<1>1. Init => Erasing
  BY DEF Init, Erasing, Quiet
<1>2. DInv /\ Erasing /\ [Next]_vars => Erasing'
  <2> SUFFICES ASSUME DInv, Erasing, [Next]_vars, NEW p \in Probe, Quiet(p)'
               PROVE  Erased(p)'
    BY DEF Erasing
  <2>1. CASE UNCHANGED vars
    <3>1. Quiet(p) /\ Leaves(p)
      BY <2>1 DEF vars, store, flights, Quiet, Leaves, WritersOf, RunsOf, BaselinesOf, RunInFlight,
                  CaptureInFlight
    <3>. QED
      BY <3>1, ErasedFrame
  <2>. QED
    BY <2>1, ProbesErase, RunsErase, CapturesErase, RestartErases DEF Next
<1>3. DInv /\ Erasing => QuietDeletionIsComplete
  BY DEF DInv, TypeOK, Erasing, Quiet, Erased, QuietDeletionIsComplete
<1>. QED
  BY <1>1, <1>2, <1>3, DataInvariance, PTL DEF Spec
===============================================================================
