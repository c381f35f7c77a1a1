--------------------------- MODULE SchedulerProofs ---------------------------
(* Theorems about Scheduler, for every value of its constants. *)
EXTENDS Scheduler, SequenceTheorems, FiniteSetTheorems, TLAPS

LEMMA PermitsPositive == Permits \in Nat \ {0}
BY ConstantsAssumption DEF Permits

(* next_run_after never names the present: every schedule step is positive, a zero
   interval and a cron expression that fires right now included. *)
LEMMA NextRunIsLater ==
  ASSUME NEW s \in Schedule, NEW ph \in Nat, s.kind = "Cron" => s.n > 0
  PROVE  NextRunAfter(s, ph) \in Nat \ {0}
<1>1. CASE s.kind = "EveryMinutes"
  BY <1>1 DEF NextRunAfter, Schedule
<1>2. CASE s.kind = "Cron"
  <2>1. s.n \in Nat \ {0}
    BY <1>2 DEF Schedule
  <2>2. ph % s.n \in 0..(s.n - 1)
    BY <2>1
  <2>. QED
    BY <1>2, <2>1, <2>2 DEF NextRunAfter
<1>. QED
  BY <1>1, <1>2 DEF Schedule

LEMMA LoopStepIsLater ==
  ASSUME TypeOK, NEW t \in Live
  PROVE  NextRunAfter(LoopSchedule(t), phase) \in Nat \ {0}
<1>1. loop[t].probe \in Probe /\ loop[t].ver \in Version
  BY DEF TypeOK
<1>2. phase \in Nat
  BY ConstantsAssumption DEF TypeOK
<1>3. LoopSchedule(t) \in Schedule
  BY <1>1, ConstantsAssumption DEF LoopSchedule
<1>4. LoopSchedule(t).kind = "Cron" => LoopSchedule(t).n > 0
  BY <1>1, ConstantsAssumption DEF LoopSchedule
<1>. QED
  BY <1>2, <1>3, <1>4, NextRunIsLater

-----------------------------------------------------------------------------
(* The waiters of the semaphore *)

\* r is q without its i-th element.
Without(q, r, i) ==
  \A j \in DOMAIN r :
    /\ j \in Nat
    /\ IF j < i THEN j \in DOMAIN q /\ r[j] = q[j]
                ELSE j + 1 \in DOMAIN q /\ r[j] = q[j + 1]

(* A waiter can be taken out of the queue, wherever it is, without disturbing the
   others. *)
LEMMA RemoveWaiter ==
  ASSUME NEW q \in Seq(Task), NEW i \in DOMAIN q,
         \A j, k \in DOMAIN q : q[j] = q[k] => j = k
  PROVE  /\ RemoveAt(q, i) \in Seq(Task)
         /\ \A u : (\E j \in DOMAIN RemoveAt(q, i) : RemoveAt(q, i)[j] = u)
                     <=> (u # q[i] /\ \E j \in DOMAIN q : q[j] = u)
         /\ \A j, k \in DOMAIN RemoveAt(q, i) :
              RemoveAt(q, i)[j] = RemoveAt(q, i)[k] => j = k
         /\ q # <<>>
         /\ Without(q, RemoveAt(q, i), i)
<1> DEFINE r == RemoveAt(q, i)
           n == Len(q)
           s1 == SubSeq(q, 1, i - 1)
           s2 == SubSeq(q, i + 1, n)
<1>1. n \in Nat /\ i \in 1..n /\ DOMAIN q = 1..n /\ \A j \in 1..n : q[j] \in Task
  BY LenProperties, ElementOfSeq
<1>2. s1 \in Seq(Task) /\ Len(s1) = i - 1 /\ \A j \in 1..(i - 1) : s1[j] = q[j]
  <2>1. \A j \in 1..(i - 1) : q[j] \in Task
    BY <1>1
  <2>. HIDE DEF n
  <2>2. 1 \in Int /\ i - 1 \in Int /\ (i - 1) - 1 + 1 = i - 1
    BY <1>1
  <2>3. /\ s1 \in Seq(Task) /\ Len(s1) = IF 1 <= i - 1 THEN (i - 1) - 1 + 1 ELSE 0
        /\ \A j \in 1..((i - 1) - 1 + 1) : s1[j] = q[1 + j - 1]
    BY <2>1, <2>2, SubSeqProperties
  <2>. HIDE DEF s1
  <2>. QED
    BY <1>1, <2>3
<1>3. s2 \in Seq(Task) /\ Len(s2) = n - i /\ \A j \in 1..(n - i) : s2[j] = q[i + j]
  <2>1. \A j \in (i + 1)..n : q[j] \in Task
    BY <1>1
  <2>. HIDE DEF n
  <2>2. i + 1 \in Int /\ n \in Int
    BY <1>1
  <2>3. /\ s2 \in Seq(Task) /\ Len(s2) = IF i + 1 <= n THEN n - (i + 1) + 1 ELSE 0
        /\ \A j \in 1..(n - (i + 1) + 1) : s2[j] = q[i + 1 + j - 1]
    BY <2>1, <2>2, SubSeqProperties
  <2>. HIDE DEF s2
  <2>4. Len(s2) = n - i
    BY <1>1, <2>3
  <2>5. ASSUME NEW j \in 1..(n - i)
        PROVE  s2[j] = q[i + j]
    <3>1. j \in 1..(n - (i + 1) + 1) /\ i + 1 + j - 1 = i + j
      BY <1>1
    <3>. QED
      BY <2>3, <3>1
  <2>. QED
    BY <2>3, <2>4, <2>5
<1>4. r = s1 \o s2
  BY DEF RemoveAt
<1> HIDE DEF r, s1, s2
<1>5. /\ r \in Seq(Task) /\ Len(r) = Len(s1) + Len(s2)
      /\ \A j \in 1..(Len(s1) + Len(s2)) :
           r[j] = IF j <= Len(s1) THEN s1[j] ELSE s2[j - Len(s1)]
  <2>1. s1 \in Seq(Task) /\ s2 \in Seq(Task)
    BY <1>2, <1>3
  <2>2. /\ s1 \o s2 \in Seq(Task) /\ Len(s1 \o s2) = Len(s1) + Len(s2)
        /\ \A j \in 1..(Len(s1) + Len(s2)) :
             (s1 \o s2)[j] = IF j <= Len(s1) THEN s1[j] ELSE s2[j - Len(s1)]
    BY <2>1, ConcatProperties, Zenon
  <2>. QED
    BY <1>4, <2>2, Zenon
<1> HIDE DEF n
<1>6. Len(r) = n - 1 /\ DOMAIN r = 1..(n - 1)
  BY <1>1, <1>2, <1>3, <1>5, LenProperties
<1>7. ASSUME NEW j \in 1..(n - 1)
      PROVE  r[j] = IF j < i THEN q[j] ELSE q[j + 1]
  <2>1. CASE j < i
    <3>1. j \in 1..(i - 1) /\ j \in 1..(Len(s1) + Len(s2)) /\ j <= Len(s1)
      BY <1>1, <1>2, <1>3, <2>1
    <3>. QED
      BY <1>2, <1>5, <2>1, <3>1
  <2>2. CASE ~(j < i)
    <3>1. /\ j - (i - 1) \in 1..(n - i) /\ j \in 1..(Len(s1) + Len(s2))
          /\ ~(j <= Len(s1)) /\ i + (j - (i - 1)) = j + 1
      BY <1>1, <1>2, <1>3, <2>2
    <3>2. r[j] = s2[j - (i - 1)]
      BY <1>2, <1>5, <3>1
    <3>. QED
      BY <1>3, <2>2, <3>1, <3>2
  <2>. QED
    BY <2>1, <2>2
<1>8. ASSUME NEW u
      PROVE  (\E j \in 1..(n - 1) : r[j] = u) <=> (u # q[i] /\ \E j \in 1..n : q[j] = u)
  <2>1. ASSUME NEW j \in 1..(n - 1), r[j] = u
        PROVE  u # q[i] /\ \E k \in 1..n : q[k] = u
    BY <1>1, <1>7, <2>1
  <2>2. ASSUME NEW j \in 1..n, q[j] = u, u # q[i]
        PROVE  \E k \in 1..(n - 1) : r[k] = u
    <3>1. CASE j < i
      BY <1>1, <1>7, <2>2, <3>1
    <3>2. CASE j > i
      <4>1. j - 1 \in 1..(n - 1) /\ r[j - 1] = q[j]
        BY <1>1, <1>7, <3>2
      <4>. QED
        BY <2>2, <4>1
    <3>. QED
      BY <1>1, <2>2, <3>1, <3>2
  <2>. QED
    BY <2>1, <2>2
<1>9. ASSUME NEW j \in 1..(n - 1), NEW k \in 1..(n - 1), r[j] = r[k]
      PROVE  j = k
  <2> DEFINE jj == IF j < i THEN j ELSE j + 1
             kk == IF k < i THEN k ELSE k + 1
  <2>1. jj \in 1..n /\ kk \in 1..n /\ q[jj] = q[kk]
    BY <1>1, <1>7, <1>9
  <2>2. jj = kk
    BY <1>1, <2>1
  <2>. QED
    BY <1>1, <2>2
<1>10. q # <<>>
  BY <1>1, EmptySeq DEF n
<1>11. Without(q, r, i)
  BY <1>1, <1>6, <1>7 DEF Without
<1>. QED
  BY <1>1, <1>5, <1>6, <1>8, <1>9, <1>10, <1>11 DEF r, n

(* The first waiter can be served. *)
LEMMA ServeFirst ==
  ASSUME NEW q \in Seq(Task), q # <<>>,
         \A j, k \in DOMAIN q : q[j] = q[k] => j = k
  PROVE  /\ Head(q) \in Task /\ Tail(q) \in Seq(Task)
         /\ \E j \in DOMAIN q : q[j] = Head(q)
         /\ \A u : (\E j \in DOMAIN Tail(q) : Tail(q)[j] = u)
                     <=> (u # Head(q) /\ \E j \in DOMAIN q : q[j] = u)
         /\ \A j, k \in DOMAIN Tail(q) : Tail(q)[j] = Tail(q)[k] => j = k
         /\ Without(q, Tail(q), 1)
<1> DEFINE n == Len(q)
           r == Tail(q)
<1>1. /\ n \in Nat \ {0} /\ DOMAIN q = 1..n /\ Head(q) = q[1] /\ Head(q) \in Task
  BY LenProperties, EmptySeq, HeadTailProperties
<1>2. /\ r \in Seq(Task) /\ Len(r) = n - 1 /\ DOMAIN r = 1..(n - 1)
      /\ \A j \in 1..(n - 1) : r[j] = q[j + 1]
  BY HeadTailProperties, LenProperties
<1> HIDE DEF n, r
<1>3. ASSUME NEW u
      PROVE  (\E j \in 1..(n - 1) : r[j] = u) <=> (u # q[1] /\ \E j \in 1..n : q[j] = u)
  <2>1. ASSUME NEW j \in 1..(n - 1), r[j] = u
        PROVE  u # q[1] /\ \E k \in 1..n : q[k] = u
    BY <1>1, <1>2, <2>1
  <2>2. ASSUME NEW j \in 1..n, q[j] = u, u # q[1]
        PROVE  \E k \in 1..(n - 1) : r[k] = u
    <3>1. j - 1 \in 1..(n - 1) /\ r[j - 1] = q[j]
      BY <1>1, <1>2, <2>2
    <3>. QED
      BY <2>2, <3>1
  <2>. QED
    BY <2>1, <2>2
<1>4. ASSUME NEW j \in 1..(n - 1), NEW k \in 1..(n - 1), r[j] = r[k]
      PROVE  j = k
  <2>1. j + 1 \in 1..n /\ k + 1 \in 1..n /\ q[j + 1] = q[k + 1]
    BY <1>1, <1>2, <1>4
  <2>2. j + 1 = k + 1
    BY <1>1, <2>1
  <2>. QED
    BY <2>2
<1>5. \E j \in 1..n : q[j] = Head(q)
  BY <1>1
<1>6. Without(q, r, 1)
  BY <1>1, <1>2 DEF Without
<1>. QED
  BY <1>1, <1>2, <1>3, <1>4, <1>5, <1>6 DEF r, n

(* Taking one waiter out leaves the others in their order. *)
LEMMA OrderIsKept ==
  ASSUME NEW q \in Seq(Task), NEW r, NEW i \in Nat, Without(q, r, i),
         \A j, k \in DOMAIN q : q[j] = q[k] => j = k,
         NEW m \in DOMAIN q, NEW n \in DOMAIN q, m < n,
         NEW k \in DOMAIN r, NEW l \in DOMAIN r, r[k] = q[m], r[l] = q[n]
  PROVE  k < l
<1> DEFINE kk == IF k < i THEN k ELSE k + 1
           ll == IF l < i THEN l ELSE l + 1
<1>1. k \in Nat /\ l \in Nat /\ m \in Nat /\ n \in Nat
  BY DEF Without
<1>2. kk \in DOMAIN q /\ q[kk] = r[k] /\ ll \in DOMAIN q /\ q[ll] = r[l]
  BY DEF Without
<1>3. kk = m /\ ll = n
  BY <1>2
<1>. QED
  BY <1>1, <1>3

LEMMA JoinWaiters ==
  ASSUME NEW q \in Seq(Task), NEW t \in Task, \A j \in DOMAIN q : q[j] # t,
         \A j, k \in DOMAIN q : q[j] = q[k] => j = k
  PROVE  /\ Append(q, t) \in Seq(Task)
         /\ \A u : (\E j \in DOMAIN Append(q, t) : Append(q, t)[j] = u)
                     <=> (u = t \/ \E j \in DOMAIN q : q[j] = u)
         /\ \A j, k \in DOMAIN Append(q, t) : Append(q, t)[j] = Append(q, t)[k] => j = k
<1>1. /\ Len(q) \in Nat /\ DOMAIN q = 1..Len(q)
      /\ Append(q, t) \in Seq(Task) /\ DOMAIN Append(q, t) = 1..(Len(q) + 1)
  OBVIOUS
<1>2. /\ \A j \in 1..Len(q) : Append(q, t)[j] = q[j]
      /\ Append(q, t)[Len(q) + 1] = t
  OBVIOUS
<1>3. \A j \in 1..(Len(q) + 1) : j \in 1..Len(q) \/ j = Len(q) + 1
  BY <1>1
<1>. QED
  BY <1>1, <1>2, <1>3

-----------------------------------------------------------------------------
(* What a step of one loop does to the semaphore *)

Holding == {"run", "store"}

(* A loop that neither starts nor stops waiting leaves the waiters alone. *)
LEMMA MoveKeepsWaiters ==
  ASSUME TypeOK, WaitersAreQueued, NEW t \in Task, NEW new \in Loop,
         loop' = [loop EXCEPT ![t] = new],
         loop[t].pc # "queued", new.pc # "queued",
         queue' = queue, permits' > 0 => permits > 0
  PROVE  WaitersAreQueued'
<1>1. \A u \in Task : loop'[u] = IF u = t THEN new ELSE loop[u]
  BY DEF TypeOK
<1>2. \A u \in Task : loop'[u].pc = "queued" <=> loop[u].pc = "queued"
  BY <1>1
<1>. QED
  BY <1>2 DEF WaitersAreQueued

(* Nor does it change the permits held if it holds one before and after, or at
   neither time. *)
LEMMA MoveKeepsPermits ==
  ASSUME TypeOK, PermitsConserved, NEW t \in Task, NEW new \in Loop,
         loop' = [loop EXCEPT ![t] = new],
         loop[t].pc \in Holding <=> new.pc \in Holding,
         permits' = permits
  PROVE  PermitsConserved'
<1>1. \A u \in Task : loop'[u] = IF u = t THEN new ELSE loop[u]
  BY DEF TypeOK
<1>2. Holders' = Holders
  BY <1>1 DEF Holders, Holding
<1>. QED
  BY <1>2 DEF PermitsConserved

(* Releasing a permit frees it or hands it to the first waiter. *)
LEMMA Release ==
  ASSUME TypeOK, WaitersAreQueued, PermitsConserved,
         NEW t \in Task, loop[t].pc \in Holding,
         NEW new \in Loop, new.pc \notin Holding, new.pc # "queued",
         ReleaseAndMoveTo(t, new)
  PROVE  /\ loop' \in [Task -> Loop]
         /\ queue' \in Seq(Task)
         /\ permits' \in Nat
         /\ loop'[t] = new
         /\ \A u \in Task \ {t} :
              \/ loop'[u] = loop[u]
              \/ loop[u].pc = "queued" /\ loop'[u] = [loop[u] EXCEPT !.pc = "run"]
         /\ WaitersAreQueued'
         /\ PermitsConserved'
         /\ IF queue = <<>>
            THEN Holders' = Holders \ {t} /\ queue' = queue
            ELSE Holders' = (Holders \ {t}) \cup {Head(queue)} /\ queue' = Tail(queue)
<1>0. /\ loop \in [Task -> Loop] /\ queue \in Seq(Task) /\ permits \in Nat
      /\ IsFiniteSet(Holders) /\ permits + Cardinality(Holders) = Permits
      /\ t \in Holders /\ Cardinality(Holders) \in Nat
  BY FS_CardinalityType DEF TypeOK, PermitsConserved, Holders, Holding
<1>1. CASE queue = <<>>
  <2>1. /\ loop' = [loop EXCEPT ![t] = new] /\ permits' = permits + 1 /\ queue' = queue
    BY <1>1 DEF ReleaseAndMoveTo
  <2>2. \A u \in Task : loop'[u] = IF u = t THEN new ELSE loop[u]
    BY <1>0, <2>1
  <2>3. Holders' = Holders \ {t}
    BY <2>2 DEF Holders, Holding
  <2>4. IsFiniteSet(Holders') /\ Cardinality(Holders') = Cardinality(Holders) - 1
    BY <1>0, <2>3, FS_RemoveElement
  <2>5. PermitsConserved'
    BY <1>0, <2>1, <2>4, PermitsPositive DEF PermitsConserved, Permits
  <2>6. \A u \in Task : loop'[u].pc = "queued" <=> loop[u].pc = "queued"
    BY <2>2 DEF Holding
  <2>7. WaitersAreQueued'
    BY <1>1, <2>1, <2>6 DEF WaitersAreQueued
  <2>. QED
    BY <1>0, <1>1, <2>1, <2>2, <2>3, <2>5, <2>7
<1>2. CASE queue # <<>>
  <2> DEFINE h == Head(queue)
  <2>1. /\ h \in Task /\ Tail(queue) \in Seq(Task)
        /\ \E j \in DOMAIN queue : queue[j] = h
        /\ \A u : (\E j \in DOMAIN Tail(queue) : Tail(queue)[j] = u)
                    <=> (u # h /\ \E j \in DOMAIN queue : queue[j] = u)
        /\ \A j, k \in DOMAIN Tail(queue) :
             Tail(queue)[j] = Tail(queue)[k] => j = k
    BY <1>0, <1>2, ServeFirst DEF WaitersAreQueued
  <2>2. /\ loop' = [loop EXCEPT ![t] = new, ![h].pc = "run"]
        /\ queue' = Tail(queue) /\ permits' = permits /\ permits = 0
    BY <1>0, <1>2 DEF ReleaseAndMoveTo, WaitersAreQueued
  <2> HIDE DEF h
  <2>3. loop[h].pc = "queued" /\ h # t
    BY <2>1 DEF WaitersAreQueued, Holding
  <2>4. [loop[h] EXCEPT !.pc = "run"] \in Loop
    <3>1. loop[h] \in Loop
      BY <1>0, <2>1
    <3>2. \A r \in Loop : [r EXCEPT !.pc = "run"] \in Loop
      BY DEF Loop, Place, Await
    <3>. QED
      BY <3>1, <3>2
  <2>5. \A u \in Task : loop'[u] = IF u = h THEN [loop[h] EXCEPT !.pc = "run"]
                                   ELSE IF u = t THEN new ELSE loop[u]
    BY <1>0, <2>1, <2>2, <2>3
  <2>6. loop'[h].pc = "run"
    BY <1>0, <2>1, <2>5 DEF Loop
  <2>7. Holders' = (Holders \ {t}) \cup {h}
    BY <2>1, <2>3, <2>5, <2>6 DEF Holders, Holding
  <2>8. h \notin Holders
    BY <2>3 DEF Holders
  <2>9. /\ IsFiniteSet(Holders \ {t})
        /\ Cardinality(Holders \ {t}) = Cardinality(Holders) - 1
    BY <1>0, FS_RemoveElement
  <2>10. IsFiniteSet(Holders') /\ Cardinality(Holders') = Cardinality(Holders)
    <3> DEFINE S == Holders \ {t}
    <3>1. IsFiniteSet(S) /\ Cardinality(S) = Cardinality(Holders) - 1 /\ h \notin S
      BY <2>8, <2>9
    <3>2. Holders' = S \cup {h}
      BY <2>7
    <3> HIDE DEF S
    <3>3. IsFiniteSet(S \cup {h}) /\ Cardinality(S \cup {h}) = Cardinality(S) + 1
      BY <3>1, FS_AddElement
    <3>. QED
      BY <1>0, <3>1, <3>2, <3>3
  <2>11. PermitsConserved'
    BY <1>0, <2>2, <2>10 DEF PermitsConserved, Permits
  <2>12. \A u \in Task : loop'[u].pc = "queued" <=> (loop[u].pc = "queued" /\ u # h)
    BY <2>3, <2>5, <2>6 DEF Holding
  <2>13. WaitersAreQueued'
    <3>1. \A u \in Task : loop[u].pc = "queued" <=> \E i \in DOMAIN queue : queue[i] = u
      BY DEF WaitersAreQueued
    <3>2. ASSUME NEW u \in Task
          PROVE  loop'[u].pc = "queued" <=> \E i \in DOMAIN queue' : queue'[i] = u
      <4>1. (\E i \in DOMAIN Tail(queue) : Tail(queue)[i] = u)
              <=> (u # h /\ \E i \in DOMAIN queue : queue[i] = u)
        BY <2>1, Zenon
      <4>2. loop'[u].pc = "queued" <=> (u # h /\ \E i \in DOMAIN queue : queue[i] = u)
        BY <2>12, <3>1, Zenon
      <4>3. queue' = Tail(queue)
        BY <2>2
      <4>. QED
        BY <4>1, <4>2, <4>3, Zenon
    <3>3. \A i, j \in DOMAIN queue' : queue'[i] = queue'[j] => i = j
      BY <2>1, <2>2
    <3>4. permits' > 0 => queue' = <<>>
      BY <2>2
    <3>. QED
      BY <3>2, <3>3, <3>4 DEF WaitersAreQueued
  <2>. QED
    BY <1>0, <1>2, <2>1, <2>2, <2>3, <2>4, <2>5, <2>7, <2>11, <2>13 DEF h
<1>. QED
  BY <1>1, <1>2

-----------------------------------------------------------------------------
(* The inductive invariant *)

Inv ==
  /\ TypeOK
  /\ WaitersAreQueued
  /\ PermitsConserved
  /\ LoopsAreTracked
  /\ HandlesAreLive

LEMMA InitInv == Init => Inv
<1> SUFFICES ASSUME Init PROVE Inv
  OBVIOUS
<1>1. Live = {} /\ Holders = {}
  BY DEF Init, Live, Holders, NoLoop
<1>2. TypeOK
  BY <1>1, ConstantsAssumption, PermitsPositive
     DEF Init, TypeOK, NoLoop, Loop, Place, NoNext
<1>3. WaitersAreQueued
  BY DEF Init, WaitersAreQueued, NoLoop
<1>4. PermitsConserved
  BY <1>1, FS_EmptySet, PermitsPositive DEF Init, PermitsConserved
<1>5. LoopsAreTracked /\ HandlesAreLive
  BY <1>1 DEF Init, LoopsAreTracked, HandlesAreLive
<1>. QED
  BY <1>2, <1>3, <1>4, <1>5 DEF Inv

(* The API and its handlers touch no task. *)
LEMMA ApiInv ==
  ASSUME Inv, NEW p \in Probe, ApiStep(p) \/ HandlerStep(p)
  PROVE  Inv'
<1>1. UNCHANGED <<scheduler, tasks, clock>>
  BY DEF ApiStep, HandlerStep, CreateProbe, EditProbe, DeleteProbe, TriggerRun,
         DeleteRuns, DeleteSchedule, CascadeFails, FinishTrigger
<1>2. Live' = Live /\ Holders' = Holders
  BY <1>1 DEF tasks, Live, Holders
<1>3. /\ table' \in [Probe -> 0..MaxVersion]
      /\ issued' \subseteq Probe
      /\ nextRun' \in [Probe -> Nat \cup {NoNext}]
      /\ runs' \subseteq Probe
      /\ cascade' \in [Probe -> {"none", "runs", "schedule"}]
      /\ adhoc' \subseteq Probe
  <2> USE ConstantsAssumption DEF Inv, TypeOK, store
  <2>1. CASE CreateProbe(p)
    BY <2>1 DEF CreateProbe, handlers
  <2>2. CASE EditProbe(p)
    BY <2>2 DEF EditProbe, handlers
  <2>3. CASE DeleteProbe(p)
    BY <2>3 DEF DeleteProbe
  <2>4. CASE TriggerRun(p)
    BY <2>4 DEF TriggerRun
  <2>5. CASE DeleteRuns(p)
    BY <2>5 DEF DeleteRuns
  <2>6. CASE DeleteSchedule(p)
    BY <2>6 DEF DeleteSchedule
  <2>7. CASE CascadeFails(p)
    BY <2>7 DEF CascadeFails
  <2>8. CASE FinishTrigger(p)
    BY <2>8 DEF FinishTrigger
  <2>. QED
    BY <2>1, <2>2, <2>3, <2>4, <2>5, <2>6, <2>7, <2>8 DEF ApiStep, HandlerStep
<1>4. TypeOK'
  BY <1>1, <1>2, <1>3 DEF Inv, TypeOK, scheduler, tasks, clock
<1>5. WaitersAreQueued' /\ PermitsConserved'
  BY <1>1, <1>2 DEF Inv, WaitersAreQueued, PermitsConserved, tasks, Permits
<1>6. LoopsAreTracked' /\ HandlesAreLive'
  BY <1>1, <1>2 DEF Inv, LoopsAreTracked, HandlesAreLive, scheduler, tasks
<1>. QED
  BY <1>4, <1>5, <1>6 DEF Inv

(* Reconcile and shutdown abort the loops whose handles they give up, and no other. *)
LEMMA GiveUpInv ==
  ASSUME Inv, NEW S \in SUBSET Probe,
         Abort({active[p] : p \in {q \in S : active[q] # NoTask}}), Untrack(S),
         UNCHANGED <<store, handlers, loop, permits, queue, attempted, clock>>,
         mode' \in {"up", "stopped"}, listed' \in [Probe -> 0..MaxVersion]
  PROVE  Inv'
<1>1. Live' = Live /\ Holders' = Holders
  BY DEF Live, Holders
<1>2. /\ active \in [Probe -> Task \cup {NoTask}]
      /\ active' = [p \in Probe |-> IF p \in S THEN NoTask ELSE active[p]]
      /\ aborted' = aborted \cup {active[p] : p \in {q \in S : active[q] # NoTask}}
  BY DEF Inv, TypeOK, Abort, Untrack
<1>3. \A p \in Probe : active[p] # NoTask =>
        active[p] \in Live \ aborted /\ loop[active[p]].probe = p
  BY DEF Inv, HandlesAreLive
<1>4. aborted' \subseteq Live
  BY <1>2, <1>3 DEF Inv, TypeOK
<1>5. TypeOK'
  BY <1>1, <1>2, <1>4 DEF Inv, TypeOK, store, handlers, clock
<1>6. WaitersAreQueued' /\ PermitsConserved'
  BY <1>1 DEF Inv, WaitersAreQueued, PermitsConserved, Permits
<1>7. LoopsAreTracked'
  <2> SUFFICES ASSUME NEW t \in Live, t \notin aborted'
               PROVE  active'[loop[t].probe] = t
    BY <1>1 DEF LoopsAreTracked
  <2>1. loop[t].probe \in Probe /\ active[loop[t].probe] = t /\ t \in Task
    BY <1>2 DEF Inv, TypeOK, LoopsAreTracked, Live
  <2>2. loop[t].probe \notin S
    BY <1>2, <2>1, ConstantsAssumption
  <2>. QED
    BY <1>2, <2>1, <2>2
<1>8. HandlesAreLive'
  <2> SUFFICES ASSUME NEW p \in Probe, active'[p] # NoTask
               PROVE  active'[p] \in Live \ aborted' /\ loop[active'[p]].probe = p
    BY <1>1 DEF HandlesAreLive
  <2>1. p \notin S /\ active'[p] = active[p]
    BY <1>2
  <2>2. active[p] \in Live \ aborted /\ loop[active[p]].probe = p
    BY <1>3, <2>1
  <2>3. active[p] \notin {active[q] : q \in {r \in S : active[r] # NoTask}}
    BY <1>3, <2>1, <2>2
  <2>. QED
    BY <1>2, <2>1, <2>2, <2>3
<1>. QED
  BY <1>5, <1>6, <1>7, <1>8 DEF Inv

LEMMA ReconcileInv == ASSUME Inv, Reconcile PROVE Inv'
<1>1. Removed \in SUBSET Probe /\ Removed = {p \in Removed : active[p] # NoTask}
  BY DEF Removed
<1>2. listed' \in [Probe -> 0..MaxVersion]
  BY ConstantsAssumption DEF Reconcile, Inv, TypeOK
<1>3. mode' \in {"up", "stopped"}
  BY DEF Reconcile, Inv, TypeOK
<1>. QED
  BY <1>1, <1>2, <1>3, GiveUpInv DEF Reconcile

LEMMA ShutdownInv == ASSUME Inv, Shutdown PROVE Inv'
<1>1. Probe \in SUBSET Probe
  OBVIOUS
<1>2. mode' \in {"up", "stopped"} /\ listed' \in [Probe -> 0..MaxVersion]
  BY DEF Shutdown, Inv, TypeOK
<1>. QED
  BY <1>1, <1>2, GiveUpInv DEF Shutdown

(* A spawn puts the new loop in a free slot, after the old one, if any, is aborted. *)
LEMMA SpawnInv ==
  ASSUME Inv, NEW p \in Probe, SpawnNew(p) \/ Respawn(p)
  PROVE  Inv'
<1>1. /\ Spawn(p) /\ listed[p] # 0
      /\ aborted' = aborted \cup {active[q] : q \in {r \in {p} : active[r] # NoTask}}
      /\ nextRun' \in [Probe -> Nat \cup {NoNext}]
      /\ UNCHANGED <<table, issued, runs, handlers, mode, permits, queue, attempted,
                     clock>>
  <2>1. CASE SpawnNew(p)
    BY <2>1 DEF SpawnNew, store, Inv, TypeOK
  <2>2. CASE Respawn(p)
    <3>1. nextRun' \in [Probe -> Nat \cup {NoNext}]
      BY <2>2 DEF Respawn, AdvanceScheduleTo, Inv, TypeOK
    <3>. QED
      BY <2>2, <3>1 DEF Respawn, Abort
  <2>. QED
    BY <2>1, <2>2
<1>2. PICK t \in Task \ Live :
        /\ loop' = [loop EXCEPT ![t] =
                      [pc |-> "spawned", probe |-> p, ver |-> listed[p], wait |-> 0]]
        /\ active' = [active EXCEPT ![p] = t]
        /\ listed' = [listed EXCEPT ![p] = 0]
  BY <1>1 DEF Spawn
<1> DEFINE new == [pc |-> "spawned", probe |-> p, ver |-> listed[p], wait |-> 0]
<1>3. /\ loop \in [Task -> Loop] /\ active \in [Probe -> Task \cup {NoTask}]
      /\ listed \in [Probe -> 0..MaxVersion] /\ aborted \subseteq Live
      /\ Live \subseteq Task /\ t \in Task /\ t # NoTask
  BY ConstantsAssumption DEF Inv, TypeOK, Live
<1>4. new \in Loop /\ new.pc = "spawned" /\ new.probe = p /\ new.ver \in Version
  BY <1>1, <1>3, ConstantsAssumption DEF Loop, Place, Await, Version
<1> HIDE DEF new
<1>5. \A u \in Task : loop'[u] = IF u = t THEN new ELSE loop[u]
  BY <1>2, <1>3 DEF new
<1>6. Live' = Live \cup {t} /\ t \notin Live
  BY <1>2, <1>3, <1>4, <1>5 DEF Live
<1>7. \A q \in Probe : active'[q] = IF q = p THEN t ELSE active[q]
  BY <1>2, <1>3
<1>8. \A q \in Probe : active[q] # NoTask =>
        active[q] \in Live \ aborted /\ loop[active[q]].probe = q
  BY DEF Inv, HandlesAreLive
<1>9. aborted' = IF active[p] # NoTask THEN aborted \cup {active[p]} ELSE aborted
  BY <1>1
<1>10. aborted' \subseteq Live /\ attempted' \subseteq Live
  BY <1>1, <1>3, <1>8, <1>9 DEF Inv, TypeOK
<1>11. TypeOK'
  <2>1. loop' \in [Task -> Loop] /\ active' \in [Probe -> Task \cup {NoTask}]
        /\ listed' \in [Probe -> 0..MaxVersion]
    BY <1>2, <1>3, <1>4, ConstantsAssumption DEF new
  <2>2. \A u \in Live' : loop'[u].probe \in Probe /\ loop'[u].ver \in Version
    BY <1>3, <1>4, <1>5, <1>6 DEF Inv, TypeOK
  <2>3. aborted' \subseteq Live' /\ attempted' \subseteq Live'
    BY <1>6, <1>10
  <2>. QED
    BY <1>1, <2>1, <2>2, <2>3 DEF Inv, TypeOK, store, handlers, clock
<1>12. WaitersAreQueued' /\ PermitsConserved'
  <2>1. loop[t].pc = "none"
    BY <1>3, <1>6 DEF Live
  <2>2. loop' = [loop EXCEPT ![t] = new]
    BY <1>2 DEF new
  <2>3. TypeOK /\ WaitersAreQueued /\ PermitsConserved
    BY DEF Inv
  <2>4. WaitersAreQueued'
    BY <1>1, <1>3, <1>4, <2>1, <2>2, <2>3, MoveKeepsWaiters
  <2>5. PermitsConserved'
    BY <1>1, <1>3, <1>4, <2>1, <2>2, <2>3, MoveKeepsPermits DEF Holding
  <2>. QED
    BY <2>4, <2>5
<1>13. LoopsAreTracked'
  <2> SUFFICES ASSUME NEW u \in Live', u \notin aborted'
               PROVE  active'[loop'[u].probe] = u
    BY DEF LoopsAreTracked
  <2>1. CASE u = t
    BY <1>3, <1>4, <1>5, <1>7, <2>1
  <2>2. CASE u # t
    <3>1. u \in Live /\ u \in Task /\ loop'[u] = loop[u] /\ u \notin aborted
      BY <1>3, <1>5, <1>6, <1>9, <2>2
    <3>2. active[loop[u].probe] = u /\ loop[u].probe \in Probe
      BY <3>1 DEF Inv, TypeOK, LoopsAreTracked
    <3>3. loop[u].probe # p
      BY <1>3, <1>9, <3>1, <3>2, ConstantsAssumption
    <3>. QED
      BY <1>7, <3>1, <3>2, <3>3
  <2>. QED
    BY <2>1, <2>2
<1>14. HandlesAreLive'
  <2> SUFFICES ASSUME NEW q \in Probe, active'[q] # NoTask
               PROVE  active'[q] \in Live' \ aborted' /\ loop'[active'[q]].probe = q
    BY DEF HandlesAreLive
  <2>1. CASE q = p
    BY <1>3, <1>4, <1>5, <1>6, <1>7, <1>10, <2>1
  <2>2. CASE q # p
    <3>1. active'[q] = active[q] /\ active[q] \in Live \ aborted
          /\ loop[active[q]].probe = q
      BY <1>7, <1>8, <2>2
    <3>2. active[q] # active[p] \/ active[p] = NoTask
      BY <1>8, <2>2, <3>1
    <3>3. active[q] \notin aborted'
      BY <1>9, <3>1, <3>2
    <3>. QED
      BY <1>3, <1>5, <1>6, <3>1, <3>3
  <2>. QED
    BY <2>1, <2>2
<1>. QED
  BY <1>11, <1>12, <1>13, <1>14 DEF Inv

-----------------------------------------------------------------------------
(* The steps of a loop *)

(* A step in which loop t stays alive, keeps its probe and version, and the waiters
   and the permits stay in order, keeps the invariant. *)
LEMMA LoopMoveInv ==
  ASSUME Inv, NEW t \in Live,
         loop' \in [Task -> Loop], loop'[t].pc # "none",
         \A u \in Task : loop'[u].probe = loop[u].probe /\ loop'[u].ver = loop[u].ver,
         \A u \in Task \ {t} : loop[u].pc = "none" <=> loop'[u].pc = "none",
         nextRun' \in [Probe -> Nat \cup {NoNext}], runs' \subseteq Probe,
         queue' \in Seq(Task), permits' \in Nat,
         attempted' \subseteq attempted \cup {t},
         WaitersAreQueued', PermitsConserved',
         UNCHANGED <<table, issued, handlers, scheduler, aborted, clock>>
  PROVE  Inv'
<1>1. Live' = Live /\ Live \subseteq Task
  BY DEF Live
<1>2. TypeOK'
  BY <1>1 DEF Inv, TypeOK, handlers, scheduler, clock
<1>3. LoopsAreTracked'
  BY <1>1 DEF Inv, LoopsAreTracked, scheduler
<1>4. HandlesAreLive'
  BY <1>1 DEF Inv, HandlesAreLive, scheduler
<1>. QED
  BY <1>2, <1>3, <1>4 DEF Inv

(* The same for a step that moves t alone and leaves the semaphore alone. *)
LEMMA LocalMoveInv ==
  ASSUME Inv, NEW t \in Live, NEW new \in Loop,
         loop' = [loop EXCEPT ![t] = new],
         new.pc \notin {"none", "queued"}, loop[t].pc # "queued",
         loop[t].pc \in Holding <=> new.pc \in Holding,
         new.probe = loop[t].probe, new.ver = loop[t].ver,
         nextRun' \in [Probe -> Nat \cup {NoNext}],
         UNCHANGED <<table, issued, runs, handlers, scheduler, aborted, permits, queue,
                     attempted, clock>>
  PROVE  Inv'
<1>1. TypeOK /\ WaitersAreQueued /\ PermitsConserved /\ t \in Task
  BY DEF Inv, Live
<1>2. WaitersAreQueued'
  BY <1>1, MoveKeepsWaiters
<1>3. PermitsConserved'
  BY <1>1, MoveKeepsPermits
<1>4. \A u \in Task : loop'[u] = IF u = t THEN new ELSE loop[u]
  BY <1>1 DEF TypeOK
<1>5. loop' \in [Task -> Loop]
  BY <1>1 DEF TypeOK
<1>6. queue' \in Seq(Task) /\ permits' \in Nat /\ runs' \subseteq Probe
  BY <1>1 DEF TypeOK
<1>. QED
  BY <1>1, <1>2, <1>3, <1>4, <1>5, <1>6, LoopMoveInv

LEMMA LiveLoop ==
  ASSUME Inv, NEW t \in Live
  PROVE  /\ t \in Task /\ loop[t] \in Loop
         /\ loop[t].probe \in Probe /\ loop[t].ver \in Version
         /\ LoopSchedule(t) \in Schedule
         /\ NextRunAfter(LoopSchedule(t), phase) \in Nat \ {0}
<1>1. t \in Task /\ loop[t] \in Loop /\ loop[t].probe \in Probe /\ loop[t].ver \in Version
  BY DEF Inv, TypeOK, Live
<1>2. LoopSchedule(t) \in Schedule
  BY <1>1, ConstantsAssumption DEF LoopSchedule
<1>3. NextRunAfter(LoopSchedule(t), phase) \in Nat \ {0}
  BY LoopStepIsLater DEF Inv
<1>. QED
  BY <1>1, <1>2, <1>3

LEMMA ScheduledNextRunInv ==
  ASSUME Inv, NEW t \in Task, ScheduledNextRun(t)
  PROVE  Inv'
<1>1. t \in Live /\ loop[t].pc \in {"read", "spawned"}
  BY DEF ScheduledNextRun, Live
<1>2. loop[t] \in Loop /\ loop[t].probe \in Probe /\ loop \in [Task -> Loop]
  BY <1>1, LiveLoop DEF Inv, TypeOK
<1>3. nextRun \in [Probe -> Nat \cup {NoNext}]
  BY DEF Inv, TypeOK
<1>4. UNCHANGED <<table, issued, nextRun, runs, handlers, scheduler, aborted, permits,
                  queue, attempted, clock>>
  BY DEF ScheduledNextRun, store
<1> DEFINE next == nextRun[loop[t].probe]
<1>5. CASE next # NoNext /\ loop' = [loop EXCEPT ![t].pc = "sleep", ![t].wait = next]
  <2> DEFINE new == [loop[t] EXCEPT !.pc = "sleep", !.wait = next]
  <2>1. next \in Nat
    BY <1>2, <1>3, <1>5
  <2> HIDE DEF next
  <2>2. loop' = [loop EXCEPT ![t] = new]
    BY <1>2, <1>5
  <2>3. new \in Loop /\ new.pc = "sleep" /\ new.probe = loop[t].probe
        /\ new.ver = loop[t].ver
    BY <1>2, <2>1 DEF Loop, Place, Await
  <2> HIDE DEF new
  <2>. QED
    BY <1>1, <1>3, <1>4, <2>2, <2>3, LocalMoveInv DEF Holding
<1>6. CASE MoveTo(t, "persist")
  <2> DEFINE new == [loop[t] EXCEPT !.pc = "persist"]
  <2>1. loop' = [loop EXCEPT ![t] = new]
    BY <1>2, <1>6 DEF MoveTo
  <2>2. new \in Loop /\ new.pc = "persist" /\ new.probe = loop[t].probe
        /\ new.ver = loop[t].ver
    BY <1>2 DEF Loop, Place, Await
  <2> HIDE DEF new
  <2>. QED
    BY <1>1, <1>3, <1>4, <2>1, <2>2, LocalMoveInv DEF Holding
<1>. QED
  BY <1>5, <1>6 DEF ScheduledNextRun

LEMMA WrittenSchedule ==
  ASSUME Inv, NEW p \in Probe, NEW n \in Nat, AdvanceScheduleTo(p, n)
  PROVE  nextRun' \in [Probe -> Nat \cup {NoNext}]
BY DEF Inv, TypeOK, AdvanceScheduleTo

LEMMA PersistNextRunInv ==
  ASSUME Inv, NEW t \in Task, PersistNextRun(t)
  PROVE  Inv'
<1> DEFINE next == NextRunAfter(LoopSchedule(t), phase)
           new  == [loop[t] EXCEPT !.pc = "sleep", !.wait = next]
<1>1. t \in Live /\ loop[t].pc = "persist"
  BY DEF PersistNextRun, Live
<1>2. /\ loop[t] \in Loop /\ loop[t].probe \in Probe /\ loop \in [Task -> Loop]
      /\ next \in Nat
  BY <1>1, LiveLoop DEF Inv, TypeOK
<1>3. /\ AdvanceScheduleTo(loop[t].probe, next)
      /\ loop' = [loop EXCEPT ![t].pc = "sleep", ![t].wait = next]
      /\ UNCHANGED <<table, issued, runs, handlers, scheduler, aborted, permits, queue,
                     attempted, clock>>
  BY DEF PersistNextRun
<1> HIDE DEF next
<1>4. loop' = [loop EXCEPT ![t] = new]
  BY <1>2, <1>3
<1>5. new \in Loop /\ new.pc = "sleep" /\ new.probe = loop[t].probe
      /\ new.ver = loop[t].ver
  BY <1>2 DEF Loop, Place, Await
<1> HIDE DEF new
<1>6. nextRun' \in [Probe -> Nat \cup {NoNext}]
  BY <1>2, <1>3, WrittenSchedule
<1>. QED
  BY <1>1, <1>3, <1>4, <1>5, <1>6, LocalMoveInv DEF Holding

LEMMA AdvanceScheduleInv ==
  ASSUME Inv, NEW t \in Task, AdvanceSchedule(t)
  PROVE  Inv'
<1> DEFINE next == NextRunAfter(LoopSchedule(t), phase)
           new  == [loop[t] EXCEPT !.pc = "read", !.wait = 0]
<1>1. t \in Live /\ loop[t].pc = "advance"
  BY DEF AdvanceSchedule, Live
<1>2. /\ loop[t] \in Loop /\ loop[t].probe \in Probe /\ loop \in [Task -> Loop]
      /\ next \in Nat
  BY <1>1, LiveLoop DEF Inv, TypeOK
<1>3. /\ AdvanceScheduleTo(loop[t].probe, next)
      /\ loop' = [loop EXCEPT ![t].pc = "read", ![t].wait = 0]
      /\ UNCHANGED <<table, issued, runs, handlers, scheduler, aborted, permits, queue,
                     attempted, clock>>
  BY DEF AdvanceSchedule
<1> HIDE DEF next
<1>4. loop' = [loop EXCEPT ![t] = new]
  BY <1>2, <1>3
<1>5. new \in Loop /\ new.pc = "read" /\ new.probe = loop[t].probe
      /\ new.ver = loop[t].ver
  BY <1>2 DEF Loop, Place, Await
<1> HIDE DEF new
<1>6. nextRun' \in [Probe -> Nat \cup {NoNext}]
  BY <1>2, <1>3, WrittenSchedule
<1>. QED
  BY <1>1, <1>3, <1>4, <1>5, <1>6, LocalMoveInv DEF Holding

LEMMA AttemptInv ==
  ASSUME Inv, NEW t \in Task, Attempt(t)
  PROVE  Inv'
<1>1. t \in Live /\ loop[t].pc = "sleep"
  BY DEF Attempt, Ready, Live
<1>2. /\ loop[t] \in Loop /\ loop \in [Task -> Loop] /\ queue \in Seq(Task)
      /\ permits \in Nat /\ nextRun \in [Probe -> Nat \cup {NoNext}] /\ runs \subseteq Probe
      /\ TypeOK /\ WaitersAreQueued /\ PermitsConserved
  BY <1>1, LiveLoop DEF Inv, TypeOK
<1>3. /\ attempted' \subseteq attempted \cup {t}
      /\ UNCHANGED <<table, issued, nextRun, runs, handlers, scheduler, aborted, clock>>
  BY DEF Attempt, store
<1> SUFFICES ASSUME NEW pc \in {"advance", "run", "queued"}, MoveTo(t, pc),
                    \/ pc = "advance" /\ UNCHANGED <<permits, queue>>
                    \/ /\ pc = "run" /\ permits > 0
                       /\ permits' = permits - 1 /\ UNCHANGED queue
                    \/ /\ pc = "queued" /\ permits = 0
                       /\ queue' = Append(queue, t) /\ UNCHANGED permits
             PROVE  Inv'
  BY DEF Attempt
<1> DEFINE new == [loop[t] EXCEPT !.pc = pc]
<1>4. new \in Loop /\ new.pc = pc /\ new.probe = loop[t].probe /\ new.ver = loop[t].ver
  BY <1>2 DEF Loop, Place, Await
<1>5. loop' = [loop EXCEPT ![t] = new]
  BY <1>2 DEF MoveTo
<1> HIDE DEF new
<1>6. \A u \in Task : loop'[u] = IF u = t THEN new ELSE loop[u]
  BY <1>2, <1>5
<1>7. queue' \in Seq(Task) /\ permits' \in Nat
  BY <1>2
<1>8. WaitersAreQueued'
  <2>1. CASE pc # "queued"
    BY <1>1, <1>2, <1>4, <1>5, <2>1, MoveKeepsWaiters
  <2>2. CASE pc = "queued"
    <3>1. queue' = Append(queue, t) /\ permits' = 0 /\ permits = 0
      BY <1>2, <2>2
    <3>2. \A j \in DOMAIN queue : queue[j] # t
      BY <1>1, <1>2 DEF WaitersAreQueued
    <3>3. \A i, j \in DOMAIN queue : queue[i] = queue[j] => i = j
      BY <1>2 DEF WaitersAreQueued
    <3>4. /\ \A u : (\E j \in DOMAIN Append(queue, t) : Append(queue, t)[j] = u)
                      <=> (u = t \/ \E j \in DOMAIN queue : queue[j] = u)
          /\ \A j, k \in DOMAIN Append(queue, t) :
               Append(queue, t)[j] = Append(queue, t)[k] => j = k
      BY <1>2, <3>2, <3>3, JoinWaiters
    <3>5. ASSUME NEW u \in Task
          PROVE  loop'[u].pc = "queued" <=> \E i \in DOMAIN queue' : queue'[i] = u
      <4>1. loop'[u].pc = "queued" <=> (u = t \/ loop[u].pc = "queued")
        BY <1>4, <1>6, <2>2
      <4>2. loop[u].pc = "queued" <=> \E i \in DOMAIN queue : queue[i] = u
        BY <1>2 DEF WaitersAreQueued
      <4>. QED
        BY <3>1, <3>4, <4>1, <4>2, Zenon
    <3>6. \A i, j \in DOMAIN queue' : queue'[i] = queue'[j] => i = j
      BY <3>1, <3>4, Zenon
    <3>7. permits' > 0 => queue' = <<>>
      BY <3>1
    <3>. QED
      BY <3>5, <3>6, <3>7 DEF WaitersAreQueued
  <2>. QED
    BY <2>1, <2>2
<1>9. PermitsConserved'
  <2>1. CASE pc # "run"
    BY <1>1, <1>2, <1>4, <1>5, <2>1, MoveKeepsPermits DEF Holding
  <2>2. CASE pc = "run"
    <3>1. permits > 0 /\ permits' = permits - 1
      BY <2>2
    <3>2. Holders' = Holders \cup {t} /\ t \notin Holders
      BY <1>1, <1>4, <1>6, <2>2 DEF Holders
    <3>3. /\ IsFiniteSet(Holders) /\ Cardinality(Holders) \in Nat
          /\ permits + Cardinality(Holders) = Permits
      BY <1>2, FS_CardinalityType DEF PermitsConserved
    <3>4. IsFiniteSet(Holders') /\ Cardinality(Holders') = Cardinality(Holders) + 1
      BY <3>2, <3>3, FS_AddElement
    <3>. QED
      BY <1>2, <3>1, <3>3, <3>4 DEF PermitsConserved, Permits
  <2>. QED
    BY <2>1, <2>2
<1>10. loop' \in [Task -> Loop] /\ loop'[t].pc # "none"
  BY <1>2, <1>4, <1>5, <1>6
<1>. QED
  BY <1>1, <1>2, <1>3, <1>4, <1>6, <1>7, <1>8, <1>9, <1>10, LoopMoveInv

(* A loop that is done with its permit goes on to advance its schedule. *)
LEMMA ReleaseInv ==
  ASSUME Inv, NEW t \in Live, loop[t].pc \in Holding,
         ReleaseAndMoveTo(t, [loop[t] EXCEPT !.pc = "advance"]),
         runs' \subseteq Probe,
         UNCHANGED <<table, issued, nextRun, handlers, scheduler, aborted, attempted,
                     clock>>
  PROVE  Inv'
<1> DEFINE new == [loop[t] EXCEPT !.pc = "advance"]
<1>1. /\ loop[t] \in Loop /\ loop \in [Task -> Loop] /\ t \in Task
      /\ nextRun \in [Probe -> Nat \cup {NoNext}]
      /\ TypeOK /\ WaitersAreQueued /\ PermitsConserved
  BY LiveLoop DEF Inv, TypeOK
<1>2. /\ new \in Loop /\ new.pc = "advance" /\ new.probe = loop[t].probe
      /\ new.ver = loop[t].ver
  BY <1>1 DEF Loop, Place, Await
<1>3. ReleaseAndMoveTo(t, new)
  OBVIOUS
<1> HIDE DEF new
<1>4. /\ loop' \in [Task -> Loop] /\ queue' \in Seq(Task) /\ permits' \in Nat
      /\ loop'[t] = new
      /\ \A u \in Task \ {t} :
           \/ loop'[u] = loop[u]
           \/ loop[u].pc = "queued" /\ loop'[u] = [loop[u] EXCEPT !.pc = "run"]
      /\ WaitersAreQueued' /\ PermitsConserved'
  BY <1>1, <1>2, <1>3, Release DEF Holding
<1>5. ASSUME NEW u \in Task
      PROVE  /\ loop'[u].probe = loop[u].probe /\ loop'[u].ver = loop[u].ver
             /\ u # t => (loop[u].pc = "none" <=> loop'[u].pc = "none")
  <2>1. loop[u] \in Loop
    BY <1>1
  <2>2. [loop[u] EXCEPT !.pc = "run"].pc = "run"
        /\ [loop[u] EXCEPT !.pc = "run"].probe = loop[u].probe
        /\ [loop[u] EXCEPT !.pc = "run"].ver = loop[u].ver
    BY <2>1 DEF Loop
  <2>. QED
    BY <1>2, <1>4, <2>2
<1>6. loop'[t].pc # "none"
  BY <1>2, <1>4
<1>. QED
  BY <1>1, <1>4, <1>5, <1>6, LoopMoveInv

LEMMA FinishRunInv ==
  ASSUME Inv, NEW t \in Task, FinishRun(t)
  PROVE  Inv'
<1>1. t \in Live /\ loop[t].pc = "run"
  BY DEF FinishRun, Live
<1>2. /\ loop[t] \in Loop /\ loop \in [Task -> Loop] /\ runs \subseteq Probe
      /\ nextRun \in [Probe -> Nat \cup {NoNext}]
  BY <1>1, LiveLoop DEF Inv, TypeOK
<1>3. UNCHANGED <<table, issued, nextRun, runs, handlers, scheduler, aborted, attempted,
                  clock>>
  BY DEF FinishRun, store
<1>4. CASE MoveTo(t, "store") /\ UNCHANGED <<permits, queue>>
  <2> DEFINE new == [loop[t] EXCEPT !.pc = "store"]
  <2>1. new \in Loop /\ new.pc = "store" /\ new.probe = loop[t].probe
        /\ new.ver = loop[t].ver
    BY <1>2 DEF Loop, Place, Await
  <2>2. loop' = [loop EXCEPT ![t] = new]
    BY <1>2, <1>4 DEF MoveTo
  <2> HIDE DEF new
  <2>. QED
    BY <1>1, <1>2, <1>3, <1>4, <2>1, <2>2, LocalMoveInv DEF Holding
<1>5. CASE ReleaseAndMoveTo(t, [loop[t] EXCEPT !.pc = "advance"])
  BY <1>1, <1>2, <1>3, <1>5, ReleaseInv DEF Holding
<1>. QED
  BY <1>4, <1>5 DEF FinishRun

LEMMA StoreRunInv ==
  ASSUME Inv, NEW t \in Task, StoreRun(t)
  PROVE  Inv'
<1>1. t \in Live /\ loop[t].pc = "store"
  BY DEF StoreRun, Live
<1>2. loop[t].probe \in Probe /\ runs \subseteq Probe
  BY <1>1, LiveLoop DEF Inv, TypeOK
<1>3. runs' \subseteq Probe
  BY <1>2 DEF StoreRun
<1>. QED
  BY <1>1, <1>3, ReleaseInv DEF StoreRun, Holding

LEMMA DropInv ==
  ASSUME Inv, NEW t \in Task, Drop(t)
  PROVE  Inv'
<1>1. /\ t \in aborted /\ t \in Live /\ loop[t].pc \in Await
      /\ aborted' = aborted \ {t} /\ attempted' = attempted \ {t}
      /\ UNCHANGED <<store, handlers, scheduler, clock>>
  BY DEF Drop, Live, Await
<1>2. /\ TypeOK /\ WaitersAreQueued /\ PermitsConserved
      /\ loop \in [Task -> Loop] /\ queue \in Seq(Task) /\ permits \in Nat
  BY DEF Inv, TypeOK
<1>3. NoLoop \in Loop /\ NoLoop.pc = "none"
  BY ConstantsAssumption DEF NoLoop, Loop, Place
<1>4. /\ loop' \in [Task -> Loop] /\ queue' \in Seq(Task) /\ permits' \in Nat
      /\ loop'[t] = NoLoop
      /\ \A u \in Task \ {t} :
           \/ loop'[u] = loop[u]
           \/ loop[u].pc = "queued" /\ loop'[u] = [loop[u] EXCEPT !.pc = "run"]
      /\ WaitersAreQueued' /\ PermitsConserved'
  <2>1. CASE loop[t].pc = "run"
    <3>1. ReleaseAndMoveTo(t, NoLoop)
      BY <2>1 DEF Drop
    <3>. QED
      BY <1>2, <1>3, <2>1, <3>1, Release DEF Holding
  <2>2. CASE loop[t].pc = "queued"
    <3>1. /\ loop' = [loop EXCEPT ![t] = NoLoop] /\ permits' = permits
      BY <2>2 DEF Drop
    <3>2. PICK i \in DOMAIN queue : queue[i] = t /\ queue' = RemoveAt(queue, i)
      BY <2>2 DEF Drop
    <3>3. \A u \in Task : loop'[u] = IF u = t THEN NoLoop ELSE loop[u]
      BY <1>2, <3>1
    <3>4. \A j, k \in DOMAIN queue : queue[j] = queue[k] => j = k
      BY <1>2 DEF WaitersAreQueued
    <3>5. /\ queue' \in Seq(Task) /\ queue # <<>>
          /\ \A u : (\E j \in DOMAIN queue' : queue'[j] = u)
                      <=> (u # t /\ \E j \in DOMAIN queue : queue[j] = u)
          /\ \A j, k \in DOMAIN queue' : queue'[j] = queue'[k] => j = k
      <4>1. queue # <<>>
        BY <3>2
      <4>. DEFINE rest == RemoveAt(queue, i)
      <4>2. /\ rest \in Seq(Task)
            /\ \A u : (\E j \in DOMAIN rest : rest[j] = u)
                        <=> (u # queue[i] /\ \E j \in DOMAIN queue : queue[j] = u)
            /\ \A j, k \in DOMAIN rest : rest[j] = rest[k] => j = k
        BY <1>2, <3>2, <3>4, RemoveWaiter
      <4>3. rest = queue' /\ queue[i] = t
        BY <3>2
      <4>. HIDE DEF rest
      <4>. QED
        BY <4>1, <4>2, <4>3, Zenon
    <3>6. ASSUME NEW u \in Task
          PROVE  loop'[u].pc = "queued" <=> \E j \in DOMAIN queue' : queue'[j] = u
      <4>1. loop'[u].pc = "queued" <=> (u # t /\ loop[u].pc = "queued")
        BY <1>3, <3>3
      <4>2. loop[u].pc = "queued" <=> \E j \in DOMAIN queue : queue[j] = u
        BY <1>2 DEF WaitersAreQueued
      <4>. QED
        BY <3>5, <4>1, <4>2, Zenon
    <3>7. permits' > 0 => queue' = <<>>
      BY <1>2, <3>1, <3>5 DEF WaitersAreQueued
    <3>8. WaitersAreQueued'
      BY <3>5, <3>6, <3>7 DEF WaitersAreQueued
    <3>9. PermitsConserved'
      BY <1>2, <1>3, <2>2, <3>1, MoveKeepsPermits DEF Holding
    <3>10. loop' \in [Task -> Loop]
      BY <1>2, <1>3, <3>1
    <3>. QED
      BY <1>2, <3>1, <3>3, <3>5, <3>8, <3>9, <3>10
  <2>3. CASE loop[t].pc \in {"spawned", "sleep"}
    <3>1. loop' = [loop EXCEPT ![t] = NoLoop] /\ permits' = permits /\ queue' = queue
      BY <2>3 DEF Drop
    <3>2. WaitersAreQueued'
      BY <1>2, <1>3, <2>3, <3>1, MoveKeepsWaiters
    <3>3. PermitsConserved'
      BY <1>2, <1>3, <2>3, <3>1, MoveKeepsPermits DEF Holding
    <3>. QED
      BY <1>2, <1>3, <3>1, <3>2, <3>3
  <2>. QED
    BY <1>1, <2>1, <2>2, <2>3 DEF Await
<1>5. ASSUME NEW u \in Task \ {t}
      PROVE  /\ loop'[u].probe = loop[u].probe /\ loop'[u].ver = loop[u].ver
             /\ loop[u].pc = "none" <=> loop'[u].pc = "none"
  <2>1. loop[u] \in Loop
    BY <1>2
  <2>2. [loop[u] EXCEPT !.pc = "run"].pc = "run"
        /\ [loop[u] EXCEPT !.pc = "run"].probe = loop[u].probe
        /\ [loop[u] EXCEPT !.pc = "run"].ver = loop[u].ver
    BY <2>1 DEF Loop
  <2>. QED
    BY <1>4, <2>2
<1>6. Live' = Live \ {t} /\ Live \subseteq Task
  BY <1>3, <1>4, <1>5 DEF Live
<1>7. TypeOK'
  BY <1>1, <1>4, <1>5, <1>6 DEF Inv, TypeOK, store, handlers, scheduler, clock
<1>8. LoopsAreTracked'
  BY <1>1, <1>5, <1>6 DEF Inv, LoopsAreTracked, scheduler
<1>9. HandlesAreLive'
  BY <1>1, <1>5, <1>6 DEF Inv, HandlesAreLive, scheduler
<1>. QED
  BY <1>4, <1>7, <1>8, <1>9 DEF Inv

LEMMA TickInv ==
  ASSUME Inv, Tick
  PROVE  Inv'
<1>1. \A n \in Nat : Elapse(n) \in Nat
  BY DEF Elapse
<1>2. \A n \in Nat \cup {NoNext} : Elapse(n) \in Nat \cup {NoNext}
  BY DEF Elapse, NoNext
<1>3. ASSUME NEW t \in Task
      PROVE  /\ loop'[t] \in Loop /\ loop'[t].pc = loop[t].pc
             /\ loop'[t].probe = loop[t].probe /\ loop'[t].ver = loop[t].ver
  <2>1. loop[t] \in Loop
    BY DEF Inv, TypeOK
  <2>2. loop'[t] = [loop[t] EXCEPT !.wait = Elapse(loop[t].wait)]
    BY DEF Tick
  <2>3. Elapse(loop[t].wait) \in Nat
    BY <1>1, <2>1 DEF Loop
  <2>. QED
    BY <2>1, <2>2, <2>3 DEF Loop
<1>4. /\ Live' = Live /\ Holders' = Holders /\ Live \subseteq Task
  BY <1>3 DEF Live, Holders
<1>5. TypeOK'
  <2>1. loop' \in [Task -> Loop]
    BY <1>3 DEF Tick
  <2>2. nextRun' \in [Probe -> Nat \cup {NoNext}]
    BY <1>2 DEF Tick, Inv, TypeOK
  <2>3. phase' \in 0..(Cycle - 1)
    BY ConstantsAssumption DEF Tick, Inv, TypeOK
  <2>. QED
    BY <1>3, <1>4, <2>1, <2>2, <2>3 DEF Tick, Inv, TypeOK, handlers, scheduler
<1>6. WaitersAreQueued'
  BY <1>3 DEF Tick, Inv, WaitersAreQueued
<1>7. PermitsConserved'
  BY <1>4 DEF Tick, Inv, PermitsConserved
<1>8. LoopsAreTracked' /\ HandlesAreLive'
  BY <1>3, <1>4 DEF Tick, Inv, TypeOK, LoopsAreTracked, HandlesAreLive, scheduler
<1>. QED
  BY <1>5, <1>6, <1>7, <1>8 DEF Inv

(* A restart finds no task, whatever was running. *)
LEMMA RestartInv ==
  ASSUME Inv, Restart
  PROVE  Inv'
<1>1. Live' = {} /\ Holders' = {}
  BY DEF Restart, Live, Holders, NoLoop
<1>2. TypeOK'
  BY <1>1, ConstantsAssumption, PermitsPositive
     DEF Inv, Restart, TypeOK, NoLoop, Loop, Place, store
<1>3. WaitersAreQueued'
  BY DEF Restart, WaitersAreQueued, NoLoop
<1>4. PermitsConserved'
  BY <1>1, FS_EmptySet, PermitsPositive DEF Restart, PermitsConserved, Permits
<1>5. LoopsAreTracked' /\ HandlesAreLive'
  BY <1>1 DEF Restart, LoopsAreTracked, HandlesAreLive
<1>. QED
  BY <1>2, <1>3, <1>4, <1>5 DEF Inv

(* A step that changes nothing. *)
LEMMA StutterInv ==
  ASSUME Inv, UNCHANGED vars
  PROVE  Inv'
<1>1. Live' = Live /\ Holders' = Holders
  BY DEF vars, tasks, Live, Holders
<1>2. TypeOK'
  BY <1>1 DEF Inv, TypeOK, vars, store, handlers, scheduler, tasks, clock
<1>3. WaitersAreQueued' /\ PermitsConserved'
  BY <1>1 DEF Inv, WaitersAreQueued, PermitsConserved, Permits, vars, tasks
<1>4. LoopsAreTracked' /\ HandlesAreLive'
  BY <1>1 DEF Inv, LoopsAreTracked, HandlesAreLive, vars, tasks, scheduler
<1>. QED
  BY <1>2, <1>3, <1>4 DEF Inv

LEMMA NextInv == Inv /\ [Next]_vars => Inv'
<1> SUFFICES ASSUME Inv, [Next]_vars PROVE Inv'
  OBVIOUS
<1>1. ASSUME NEW p \in Probe, ApiStep(p) \/ HandlerStep(p) PROVE Inv'
  BY <1>1, ApiInv
<1>2. CASE Reconcile
  BY <1>2, ReconcileInv
<1>3. ASSUME NEW p \in Probe, SpawnNew(p) \/ Respawn(p) PROVE Inv'
  BY <1>3, SpawnInv
<1>4. ASSUME NEW t \in Task, LoopStep(t) PROVE Inv'
  BY <1>4, ScheduledNextRunInv, PersistNextRunInv, AttemptInv, FinishRunInv,
     StoreRunInv, AdvanceScheduleInv, DropInv DEF LoopStep
<1>5. CASE Shutdown
  BY <1>5, ShutdownInv
<1>6. CASE Tick
  BY <1>6, TickInv
<1>7. CASE Restart
  BY <1>7, RestartInv
<1>8. CASE UNCHANGED vars
  BY <1>8, StutterInv
<1>. QED
  BY <1>1, <1>2, <1>3, <1>4, <1>5, <1>6, <1>7, <1>8 DEF Next, SchedulerStep

-----------------------------------------------------------------------------
(* The theorems *)

(* Permits, loops and handles agree at all times. *)
THEOREM Invariance == Spec => []Inv
<1>1. Init => Inv
  BY InitInv
<1>2. Inv /\ [Next]_vars => Inv'
  BY NextInv
<1>. QED
  BY <1>1, <1>2, PTL DEF Spec

(* Every variable stays in its range, for every set of probes, tasks and schedules,
   with or without store faults and restarts. *)
THEOREM TypeCorrect == Spec => []TypeOK
<1>1. Inv => TypeOK
  BY DEF Inv
<1>. QED
  BY <1>1, Invariance, PTL

(* run_semaphore under aborts, hand-overs and failing runs: free permits and runs in
   flight add up to the cap, the waiters are exactly the queued loops, and none waits
   while a permit is free. *)
THEOREM SemaphoreKept == Spec => []PermitsAreServed
<1>1. Inv => PermitsAreServed
  BY DEF Inv, PermitsAreServed
<1>. QED
  BY <1>1, Invariance, PTL

(* reconcile, shutdown and restarts never lose track of a loop, one that is not aborted
   is the one `active` holds for its probe, and every handle in `active` is that of a
   live, unaborted loop of its probe. *)
THEOREM NoStrayLoop == Spec => []LoopsAreAccountedFor
<1>1. Inv => LoopsAreAccountedFor
  BY DEF Inv, LoopsAreAccountedFor
<1>. QED
  BY <1>1, Invariance, PTL

-----------------------------------------------------------------------------
(* The cap on runs: the semaphore is the waiting line of RunCap *)

\* Neither who holds a permit nor who waits for one changes.
CapStutters == Holders' = Holders /\ queue' = queue

\* RunCap counts and cuts sequences with the library's operators, as Scheduler does.
LEMMA SameLibrary ==
  /\ \A S : RunCapOf!Cardinality(S) = Cardinality(S)
  /\ \A q, i : RunCapOf!RemoveAt(q, i) = RemoveAt(q, i)
<1>1. \A S : RunCapOf!Cardinality(S) = Cardinality(S)
  BY Zenon DEF Cardinality, RunCapOf!Cardinality
<1>2. \A q, i : RunCapOf!RemoveAt(q, i) = RemoveAt(q, i)
  BY DEF RemoveAt, RunCapOf!RemoveAt
<1>. QED
  BY <1>1, <1>2

(* Such a step is a stutter of RunCap. *)
LEMMA CapStuttersMapped == CapStutters => UNCHANGED RunCapOf!vars
BY DEF CapStutters, RunCapOf!vars

(* A step that moves one loop, on neither side of which it holds a permit, or on both,
   does not show. *)
LEMMA MoveIsHidden ==
  ASSUME TypeOK, NEW t \in Task, NEW new,
         loop' = [loop EXCEPT ![t] = new],
         loop[t].pc \in Holding <=> new.pc \in Holding,
         queue' = queue
  PROVE  CapStutters
<1>1. \A u \in Task : loop'[u] = IF u = t THEN new ELSE loop[u]
  BY DEF TypeOK
<1>. QED
  BY <1>1 DEF CapStutters, Holders, Holding

(* A permit released ends a run, or hands its place to the first in line. *)
LEMMA ReleaseMapped ==
  ASSUME Inv, NEW t \in Task, loop[t].pc \in Holding,
         NEW new \in Loop, new.pc \notin Holding, new.pc # "queued",
         ReleaseAndMoveTo(t, new)
  PROVE  RunCapOf!End(t) \/ RunCapOf!HandOver(t)
<1>1. TypeOK /\ WaitersAreQueued /\ PermitsConserved /\ t \in Holders
  BY DEF Inv, Holders, Holding
<1>2. IF queue = <<>>
      THEN Holders' = Holders \ {t} /\ queue' = queue
      ELSE Holders' = (Holders \ {t}) \cup {Head(queue)} /\ queue' = Tail(queue)
  BY <1>1, Release
<1>. QED
  BY <1>1, <1>2 DEF RunCapOf!End, RunCapOf!HandOver

(* A loop that wakes begins its run if a permit is free, when nobody can be waiting,
   and gets in line otherwise. *)
LEMMA AttemptMapped ==
  ASSUME Inv, NEW t \in Task, Attempt(t)
  PROVE  RunCapOf!Start(t) \/ RunCapOf!Wait(t) \/ CapStutters
<1>1. /\ TypeOK /\ WaitersAreQueued /\ loop[t].pc = "sleep" /\ loop \in [Task -> Loop]
      /\ loop[t] \in Loop /\ permits \in Nat /\ t \notin Holders
  BY DEF Inv, TypeOK, Attempt, Ready, Holders
<1>2. Cardinality(Holders) \in Nat /\ permits + Cardinality(Holders) = Permits
  BY FS_CardinalityType DEF Inv, PermitsConserved
<1>3. ASSUME NEW pc, MoveTo(t, pc)
      PROVE  loop' = [loop EXCEPT ![t] = [loop[t] EXCEPT !.pc = pc]]
  BY <1>1, <1>3 DEF MoveTo
<1>4. \A pc : [loop[t] EXCEPT !.pc = pc].pc = pc
  BY <1>1 DEF Loop
<1>5. CASE MoveTo(t, "advance") /\ UNCHANGED <<permits, queue>>
  <2> DEFINE new == [loop[t] EXCEPT !.pc = "advance"]
  <2>1. loop' = [loop EXCEPT ![t] = new] /\ new.pc = "advance"
    BY <1>3, <1>4, <1>5
  <2> HIDE DEF new
  <2>. QED
    BY <1>1, <1>5, <2>1, MoveIsHidden DEF Holding
<1>6. CASE permits > 0 /\ MoveTo(t, "run") /\ permits' = permits - 1 /\ UNCHANGED queue
  <2>1. \A u \in Task : loop'[u].pc = IF u = t THEN "run" ELSE loop[u].pc
    BY <1>1, <1>3, <1>4, <1>6
  <2>2. Holders' = Holders \cup {t}
    BY <2>1 DEF Holders
  <2>3. queue = <<>> /\ Cardinality(Holders) < Permits
    BY <1>1, <1>2, <1>6, PermitsPositive DEF WaitersAreQueued
  <2>. QED
    BY <1>1, <1>6, <2>2, <2>3, SameLibrary DEF RunCapOf!Start
<1>7. CASE /\ permits = 0 /\ MoveTo(t, "queued") /\ queue' = Append(queue, t)
           /\ UNCHANGED permits
  <2>1. \A u \in Task : loop'[u].pc = IF u = t THEN "queued" ELSE loop[u].pc
    BY <1>1, <1>3, <1>4, <1>7
  <2>2. Holders' = Holders
    BY <1>1, <2>1 DEF Holders
  <2>3. Cardinality(Holders) = Permits
    BY <1>2, <1>7, PermitsPositive
  <2>4. ~RunCapOf!Waits(t)
    BY <1>1 DEF WaitersAreQueued, RunCapOf!Waits
  <2>. QED
    BY <1>1, <1>7, <2>2, <2>3, <2>4, SameLibrary DEF RunCapOf!Wait
<1>. QED
  BY <1>5, <1>6, <1>7 DEF Attempt

(* A loop aborted in its run ends it, one aborted in line gives up its place. *)
LEMMA DropMapped ==
  ASSUME Inv, NEW t \in Task, Drop(t)
  PROVE  RunCapOf!End(t) \/ RunCapOf!HandOver(t) \/ RunCapOf!GiveUp(t) \/ CapStutters
<1>1. TypeOK /\ NoLoop \in Loop /\ NoLoop.pc = "none"
  BY ConstantsAssumption DEF Inv, NoLoop, Loop, Place
<1>2. CASE loop[t].pc = "run" /\ ReleaseAndMoveTo(t, NoLoop)
  BY <1>1, <1>2, ReleaseMapped DEF Holding
<1>3. CASE /\ loop[t].pc = "queued"
           /\ loop' = [loop EXCEPT ![t] = NoLoop]
           /\ \E i \in DOMAIN queue : queue[i] = t /\ queue' = RemoveAt(queue, i)
  <2>1. \A u \in Task : loop'[u] = IF u = t THEN NoLoop ELSE loop[u]
    BY <1>1, <1>3 DEF TypeOK
  <2>2. Holders' = Holders
    BY <1>1, <1>3, <2>1 DEF Holders
  <2>. QED
    BY <1>3, <2>2, SameLibrary DEF RunCapOf!GiveUp
<1>4. CASE /\ loop[t].pc \in {"spawned", "sleep"}
           /\ loop' = [loop EXCEPT ![t] = NoLoop]
           /\ UNCHANGED <<permits, queue>>
  BY <1>1, <1>4, MoveIsHidden DEF Holding
<1>. QED
  BY <1>2, <1>3, <1>4 DEF Drop

(* Of a loop's steps these are the only ones that show. *)
LEMMA LoopStepMapped ==
  ASSUME Inv, NEW t \in Task, LoopStep(t)
  PROVE  RunCapOf!Next \/ CapStutters
<1>1. /\ TypeOK /\ loop \in [Task -> Loop] /\ loop[t] \in Loop
      /\ \A r \in Loop : [r EXCEPT !.pc = "advance"] \in Loop
      /\ \A r \in Loop, pc \in Place : [r EXCEPT !.pc = pc].pc = pc
  BY DEF Inv, TypeOK, Loop, Place
<1>2. CASE ScheduledNextRun(t)
  <2>1. queue' = queue /\ loop[t].pc \notin Holding
    BY <1>2 DEF ScheduledNextRun, Holding
  <2>2. PICK new : loop' = [loop EXCEPT ![t] = new] /\ new.pc \in {"sleep", "persist"}
    <3> DEFINE next == nextRun[loop[t].probe]
               a == [loop[t] EXCEPT !.pc = "sleep", !.wait = next]
               b == [loop[t] EXCEPT !.pc = "persist"]
    <3>1. a.pc = "sleep" /\ b.pc = "persist"
      BY <1>1 DEF Loop
    <3>2. loop' = [loop EXCEPT ![t] = a] \/ loop' = [loop EXCEPT ![t] = b]
      BY <1>1, <1>2 DEF ScheduledNextRun, MoveTo
    <3> HIDE DEF a, b
    <3>. QED
      BY <3>1, <3>2
  <2>. QED
    BY <1>1, <2>1, <2>2, MoveIsHidden DEF Holding
<1>3. CASE PersistNextRun(t)
  <2> DEFINE next == NextRunAfter(LoopSchedule(t), phase)
             new == [loop[t] EXCEPT !.pc = "sleep", !.wait = next]
  <2>1. queue' = queue /\ loop[t].pc = "persist" /\ loop' = [loop EXCEPT ![t] = new]
    BY <1>1, <1>3 DEF PersistNextRun
  <2>2. new.pc = "sleep"
    BY <1>1 DEF Loop
  <2> HIDE DEF new
  <2>. QED
    BY <1>1, <2>1, <2>2, MoveIsHidden DEF Holding
<1>4. CASE Attempt(t)
  BY <1>4, AttemptMapped DEF RunCapOf!Next
<1>5. CASE FinishRun(t)
  <2>1. loop[t].pc = "run"
    BY <1>5 DEF FinishRun
  <2>2. CASE MoveTo(t, "store") /\ UNCHANGED <<permits, queue>>
    <3>1. loop' = [loop EXCEPT ![t] = [loop[t] EXCEPT !.pc = "store"]]
      BY <1>1, <2>2 DEF MoveTo
    <3>2. [loop[t] EXCEPT !.pc = "store"].pc = "store"
      BY <1>1 DEF Loop
    <3>. QED
      BY <1>1, <2>1, <2>2, <3>1, <3>2, MoveIsHidden DEF Holding
  <2>3. CASE ReleaseAndMoveTo(t, [loop[t] EXCEPT !.pc = "advance"])
    <3>1. [loop[t] EXCEPT !.pc = "advance"].pc = "advance"
      BY <1>1 DEF Loop
    <3>. QED
      BY <1>1, <2>1, <2>3, <3>1, ReleaseMapped DEF Holding, RunCapOf!Next
  <2>. QED
    BY <1>5, <2>2, <2>3 DEF FinishRun
<1>6. CASE StoreRun(t)
  <2>1. loop[t].pc = "store" /\ ReleaseAndMoveTo(t, [loop[t] EXCEPT !.pc = "advance"])
    BY <1>6 DEF StoreRun
  <2>2. [loop[t] EXCEPT !.pc = "advance"].pc = "advance"
    BY <1>1 DEF Loop
  <2>. QED
    BY <1>1, <2>1, <2>2, ReleaseMapped DEF Holding, RunCapOf!Next
<1>7. CASE AdvanceSchedule(t)
  <2> DEFINE new == [loop[t] EXCEPT !.pc = "read", !.wait = 0]
  <2>1. queue' = queue /\ loop[t].pc = "advance" /\ loop' = [loop EXCEPT ![t] = new]
    BY <1>1, <1>7 DEF AdvanceSchedule
  <2>2. new.pc = "read"
    BY <1>1 DEF Loop
  <2> HIDE DEF new
  <2>. QED
    BY <1>1, <2>1, <2>2, MoveIsHidden DEF Holding
<1>8. CASE Drop(t)
  BY <1>8, DropMapped DEF RunCapOf!Next
<1>. QED
  BY <1>2, <1>3, <1>4, <1>5, <1>6, <1>7, <1>8 DEF LoopStep

(* A spawned loop neither holds a permit nor waits, and aborting a loop does not move it. *)
LEMMA SpawnIsHidden ==
  ASSUME Inv, NEW p \in Probe, SpawnNew(p) \/ Respawn(p)
  PROVE  CapStutters
<1>1. Spawn(p) /\ queue' = queue
  BY DEF SpawnNew, Respawn
<1>2. PICK t \in Task \ Live :
        loop' = [loop EXCEPT ![t] =
                   [pc |-> "spawned", probe |-> p, ver |-> listed[p], wait |-> 0]]
  BY <1>1 DEF Spawn
<1>3. loop[t].pc = "none"
  BY <1>2 DEF Live
<1>. QED
  BY <1>1, <1>2, <1>3, MoveIsHidden DEF Inv, Holding

(* The clock moves no loop. *)
LEMMA TickIsHidden ==
  ASSUME Inv, Tick
  PROVE  CapStutters
<1>1. ASSUME NEW t \in Task
      PROVE  loop'[t].pc = loop[t].pc
  <2>1. loop[t] \in Loop /\ loop'[t] = [loop[t] EXCEPT !.wait = Elapse(loop[t].wait)]
    BY DEF Inv, TypeOK, Tick
  <2>. QED
    BY <2>1 DEF Loop
<1>. QED
  BY <1>1 DEF Tick, CapStutters, Holders

(* Every step of the scheduler is one of RunCap or none. *)
LEMMA CapStep ==
  ASSUME Inv, [Next]_vars
  PROVE  [RunCapOf!Next]_(RunCapOf!vars)
<1>1. ASSUME NEW p \in Probe, ApiStep(p) \/ HandlerStep(p) PROVE CapStutters
  <2>1. loop' = loop /\ queue' = queue
    BY <1>1 DEF ApiStep, HandlerStep, CreateProbe, EditProbe, DeleteProbe, TriggerRun,
                DeleteRuns, DeleteSchedule, CascadeFails, FinishTrigger, tasks
  <2>. QED
    BY <2>1 DEF CapStutters, Holders
<1>2. ASSUME Reconcile \/ Shutdown \/ UNCHANGED vars PROVE CapStutters
  BY <1>2 DEF Reconcile, Shutdown, vars, tasks, CapStutters, Holders
<1>3. ASSUME NEW p \in Probe, SpawnNew(p) \/ Respawn(p) PROVE CapStutters
  BY <1>3, SpawnIsHidden
<1>4. ASSUME NEW t \in Task, LoopStep(t) PROVE RunCapOf!Next \/ CapStutters
  BY <1>4, LoopStepMapped
<1>5. CASE Tick
  BY <1>5, TickIsHidden, CapStuttersMapped
<1>6. CASE Restart
  <2>1. Holders' = {} /\ queue' = <<>>
    BY <1>6 DEF Restart, Holders, NoLoop
  <2>. QED
    BY <2>1 DEF RunCapOf!Restart, RunCapOf!Next
<1>. QED
  BY <1>1, <1>2, <1>3, <1>4, <1>5, <1>6, CapStuttersMapped DEF Next, SchedulerStep

(* Whatever is aborted, edited, deleted, failed or restarted, the loops' runs are those
   of a line of at most max_concurrent_runs places, served first come first served. *)
THEOREM RunsKeepTheCap == Spec => RunsAreCapped
<1>1. Init => RunCapOf!Init
  BY DEF Init, RunCapOf!Init, Holders, NoLoop
<1>2. Inv /\ [Next]_vars => [RunCapOf!Next]_(RunCapOf!vars)
  BY CapStep
<1>. QED
  BY <1>1, <1>2, Invariance, PTL DEF Spec, RunsAreCapped, RunCapOf!Spec

\* What NobodyIsOvertaken says of one step.
InOrder ==
  /\ \A t \in Holders' \ Holders : queue = <<>> \/ t = Head(queue)
  /\ \A i, j \in DOMAIN queue : \A k, l \in DOMAIN queue' :
       (queue'[k] = queue[i] /\ queue'[l] = queue[j] /\ i < j) => k < l

(* No step of RunCap overtakes a waiter, where all waiters are different. *)
LEMMA OrderStep ==
  ASSUME Inv, [RunCapOf!Next]_(RunCapOf!vars)
  PROVE  InOrder
<1>1. /\ queue \in Seq(Task) /\ \A j, k \in DOMAIN queue : queue[j] = queue[k] => j = k
  BY DEF Inv, TypeOK, WaitersAreQueued
<1>2. DOMAIN queue = 1..Len(queue) /\ Len(queue) \in Nat
  BY <1>1, LenProperties
<1>3. ASSUME NEW t \in Task, RunCapOf!Start(t) \/ RunCapOf!End(t)
      PROVE  InOrder
  BY <1>1, <1>2, <1>3 DEF RunCapOf!Start, RunCapOf!End, InOrder
<1>4. ASSUME NEW t \in Task, RunCapOf!Wait(t)
      PROVE  InOrder
  <2>1. /\ Holders' = Holders /\ queue' = Append(queue, t)
        /\ \A i \in DOMAIN queue : queue[i] # t
    BY <1>4 DEF RunCapOf!Wait, RunCapOf!Waits
  <2>2. /\ DOMAIN queue' = 1..(Len(queue) + 1) /\ queue'[Len(queue) + 1] = t
        /\ \A i \in 1..Len(queue) : queue'[i] = queue[i]
    BY <1>1, <2>1
  <2>3. ASSUME NEW i \in DOMAIN queue, NEW k \in DOMAIN queue', queue'[k] = queue[i]
        PROVE  k = i
    <3>1. k # Len(queue) + 1
      BY <2>1, <2>2, <2>3
    <3>2. k \in 1..Len(queue)
      BY <1>2, <2>2, <3>1
    <3>. QED
      BY <1>1, <1>2, <2>2, <2>3, <3>2
  <2>. QED
    BY <2>1, <2>3 DEF InOrder
<1>5. ASSUME NEW t \in Task, RunCapOf!HandOver(t)
      PROVE  InOrder
  <2>1. /\ queue # <<>> /\ Holders' = (Holders \ {t}) \cup {Head(queue)}
        /\ queue' = Tail(queue)
    BY <1>5 DEF RunCapOf!HandOver
  <2>2. Without(queue, queue', 1)
    BY <1>1, <2>1, ServeFirst
  <2>3. 1 \in Nat
    OBVIOUS
  <2>. QED
    BY <1>1, <2>1, <2>2, <2>3, OrderIsKept DEF InOrder
<1>6. ASSUME NEW t \in Task, RunCapOf!GiveUp(t)
      PROVE  InOrder
  <2>1. PICK i \in DOMAIN queue : queue' = RemoveAt(queue, i) /\ Holders' = Holders
    BY <1>6, SameLibrary DEF RunCapOf!GiveUp
  <2>2. Without(queue, queue', i) /\ i \in Nat
    BY <1>1, <1>2, <2>1, RemoveWaiter
  <2>. QED
    BY <1>1, <2>1, <2>2, OrderIsKept DEF InOrder
<1>7. CASE RunCapOf!Restart
  BY <1>7 DEF RunCapOf!Restart, InOrder
<1>8. CASE UNCHANGED RunCapOf!vars
  BY <1>1, <1>2, <1>8 DEF RunCapOf!vars, InOrder
<1>. QED
  BY <1>3, <1>4, <1>5, <1>6, <1>7, <1>8 DEF RunCapOf!Next

(* No scheduled run is overtaken: one begins when nobody waits, or it is that of the
   loop that has waited longest, and aborting a waiter leaves the others in order. *)
THEOREM RunsBeginInTurn == Spec => RunCapOf!NobodyIsOvertaken
<1>1. Inv /\ [Next]_vars => [InOrder]_(RunCapOf!vars)
  BY CapStep, OrderStep
<1>2. [InOrder]_(RunCapOf!vars)
        => [/\ \A t \in Holders' \ Holders : queue = <<>> \/ t = Head(queue)
            /\ \A i, j \in DOMAIN queue : \A k, l \in DOMAIN queue' :
                 (queue'[k] = queue[i] /\ queue'[l] = queue[j] /\ i < j)
                    => k < l]_(RunCapOf!vars)
  BY DEF InOrder
<1>. QED
  BY <1>1, <1>2, Invariance, PTL DEF Spec, RunCapOf!NobodyIsOvertaken

-----------------------------------------------------------------------------
(* No hot loop, where the store takes the writes *)

(* HotLoopsAreFaulty is not inductive: a loop that has tried a run comes back to its sleep
   through the schedule state, so that must name a later time when it is read.  A
   slot is not reused before its task has ended. *)
Cooling(t) ==
  /\ loop[t].pc # "spawned"
  /\ loop[t].pc = "read" => nextRun[loop[t].probe] # 0
  /\ loop[t].pc = "sleep" => loop[t].wait # 0

Cool == \A t \in attempted : loop[t].probe \notin Faulty => Cooling(t)

(* Nothing but the passing of time makes a persisted next run come due: no write of
   the daemon stores the present. *)
LEMMA OnlyTimeMakesDue ==
  ASSUME Inv, Next, ~Tick
  PROVE  \A p \in Probe : nextRun'[p] = 0 => nextRun[p] = 0
<1> USE DEF store
<1>0. nextRun \in [Probe -> Nat \cup {NoNext}] /\ NoNext # 0
  BY DEF Inv, TypeOK, NoNext
<1>1. ASSUME NEW p \in Probe, NEW n \in (Nat \ {0}) \cup {NoNext}, AdvanceScheduleTo(p, n)
      PROVE  \A q \in Probe : nextRun'[q] = 0 => nextRun[q] = 0
  BY <1>0, <1>1 DEF AdvanceScheduleTo
<1>2. ASSUME NEW p \in Probe, ApiStep(p) \/ HandlerStep(p)
      PROVE  nextRun' = nextRun \/ nextRun' = [nextRun EXCEPT ![p] = NoNext]
  BY <1>2 DEF ApiStep, HandlerStep, CreateProbe, EditProbe, DeleteProbe, TriggerRun,
              DeleteRuns, DeleteSchedule, CascadeFails, FinishTrigger
<1>3. CASE \E p \in Probe : ApiStep(p) \/ HandlerStep(p)
  BY <1>0, <1>2, <1>3
<1>4. CASE Reconcile \/ Shutdown \/ Restart \/ \E p \in Probe : SpawnNew(p)
  BY <1>4 DEF Reconcile, Shutdown, Restart, SpawnNew
<1>5. ASSUME NEW p \in Probe, Respawn(p)
      PROVE  \A q \in Probe : nextRun'[q] = 0 => nextRun[q] = 0
  BY <1>1, <1>5 DEF Respawn
<1>6. ASSUME NEW t \in Task, PersistNextRun(t) \/ AdvanceSchedule(t)
      PROVE  \A q \in Probe : nextRun'[q] = 0 => nextRun[q] = 0
  <2>1. t \in Live /\ AdvanceScheduleTo(loop[t].probe, NextRunAfter(LoopSchedule(t), phase))
    BY <1>6 DEF PersistNextRun, AdvanceSchedule, Live
  <2>2. NextRunAfter(LoopSchedule(t), phase) \in Nat \ {0} /\ loop[t].probe \in Probe
    BY <2>1, LiveLoop
  <2>. QED
    BY <1>1, <2>1, <2>2
<1>7. ASSUME NEW t \in Task,
             ScheduledNextRun(t) \/ Attempt(t) \/ FinishRun(t) \/ StoreRun(t) \/ Drop(t)
      PROVE  nextRun' = nextRun
  BY <1>7 DEF ScheduledNextRun, Attempt, FinishRun, StoreRun, Drop
<1>. QED
  BY <1>3, <1>4, <1>5, <1>6, <1>7 DEF Next, SchedulerStep, LoopStep

(* A loop that a step does not touch stays cool; one it hands a permit to does too. *)
LEMMA UntouchedStaysCool ==
  ASSUME Inv, Next, ~Tick, NEW u \in Live, Cooling(u),
         \/ loop'[u] = loop[u]
         \/ loop'[u] = [loop[u] EXCEPT !.pc = "run"]
  PROVE  Cooling(u)'
<1>1. loop[u] \in Loop /\ loop[u].probe \in Probe
  BY LiveLoop
<1>2. [loop[u] EXCEPT !.pc = "run"].pc = "run"
  BY <1>1 DEF Loop
<1>. QED
  BY <1>1, <1>2, OnlyTimeMakesDue DEF Cooling

LEMMA ReleaseTouches ==
  ASSUME Inv, NEW t \in Task, NEW new \in Loop, ReleaseAndMoveTo(t, new),
         loop[t].pc # "queued"
  PROVE  /\ loop'[t] = new
         /\ \A u \in Task \ {t} :
              loop'[u] = loop[u] \/ loop'[u] = [loop[u] EXCEPT !.pc = "run"]
<1>1. loop \in [Task -> Loop] /\ queue \in Seq(Task)
  BY DEF Inv, TypeOK
<1>2. CASE queue = <<>>
  BY <1>1, <1>2 DEF ReleaseAndMoveTo
<1>3. CASE queue # <<>>
  <2>1. Head(queue) \in Task /\ \E j \in DOMAIN queue : queue[j] = Head(queue)
    BY <1>1, <1>3, ServeFirst DEF Inv, WaitersAreQueued
  <2>2. Head(queue) # t
    BY <2>1 DEF Inv, WaitersAreQueued
  <2>3. loop' = [loop EXCEPT ![t] = new, ![Head(queue)].pc = "run"]
    BY <1>3 DEF ReleaseAndMoveTo
  <2>. QED
    BY <1>1, <2>1, <2>2, <2>3
<1>. QED
  BY <1>2, <1>3

(* The loops a loop's step is not about stay cool. *)
LEMMA OthersStayCool ==
  ASSUME Inv, Cool, Next, ~Tick, NEW t \in Task, LoopStep(t),
         NEW u \in attempted \ {t}
  PROVE  /\ loop'[u].probe = loop[u].probe
         /\ loop[u].probe \notin Faulty => Cooling(u)'
<1>1. loop \in [Task -> Loop] /\ u \in Live /\ u \in Task
  BY DEF Inv, TypeOK, Live
<1>2. t \in Live
  BY DEF LoopStep, ScheduledNextRun, PersistNextRun, Attempt, Ready, FinishRun, StoreRun,
         AdvanceSchedule, Drop, Await, Live
<1>3. [loop[t] EXCEPT !.pc = "advance"] \in Loop /\ NoLoop \in Loop
  BY <1>2, LiveLoop, ConstantsAssumption DEF Loop, Place, NoLoop
<1>4. loop'[u] = loop[u] \/ loop'[u] = [loop[u] EXCEPT !.pc = "run"]
  <2>1. CASE StoreRun(t) \/ FinishRun(t) \/ Drop(t)
    BY <1>1, <1>3, <2>1, ReleaseTouches DEF StoreRun, FinishRun, Drop, MoveTo
  <2>2. CASE ScheduledNextRun(t) \/ PersistNextRun(t) \/ Attempt(t) \/ AdvanceSchedule(t)
    BY <1>1, <2>2 DEF ScheduledNextRun, PersistNextRun, Attempt, AdvanceSchedule, MoveTo
  <2>. QED
    BY <2>1, <2>2 DEF LoopStep
<1>5. loop'[u].probe = loop[u].probe
  BY <1>1, <1>4, LiveLoop DEF Loop
<1>. QED
  BY <1>1, <1>4, <1>5, UntouchedStaysCool DEF Cool

(* Nor does the loop that steps warm up: what it reads it, or a later writer, has put
   in the future. *)
LEMMA StepperStaysCool ==
  ASSUME Inv, Cool, NEW t \in Task, LoopStep(t), t \in attempted',
         loop[t].probe \notin Faulty
  PROVE  Cooling(t)'
<1>1. loop \in [Task -> Loop]
  BY DEF Inv, TypeOK
<1>2. CASE ScheduledNextRun(t)
  <2>1. t \in attempted /\ Cooling(t)
    BY <1>2 DEF ScheduledNextRun, Cool
  <2>2. loop[t].pc = "read" /\ nextRun[loop[t].probe] # 0 /\ loop[t] \in Loop
    BY <1>1, <1>2, <2>1 DEF ScheduledNextRun, Cooling
  <2>3. \/ loop'[t] = [loop[t] EXCEPT !.pc = "sleep", !.wait = nextRun[loop[t].probe]]
        \/ loop'[t] = [loop[t] EXCEPT !.pc = "persist"]
    BY <1>1, <1>2 DEF ScheduledNextRun, MoveTo
  <2>. QED
    BY <2>2, <2>3 DEF Cooling, Loop
<1>3. CASE PersistNextRun(t)
  <2> DEFINE next == NextRunAfter(LoopSchedule(t), phase)
  <2>1. t \in Live
    BY <1>3 DEF PersistNextRun, Live
  <2>2. next # 0 /\ loop[t] \in Loop
    BY <2>1, LiveLoop
  <2>3. loop' = [loop EXCEPT ![t].pc = "sleep", ![t].wait = next]
    BY <1>3 DEF PersistNextRun
  <2> HIDE DEF next
  <2>4. loop'[t] = [loop[t] EXCEPT !.pc = "sleep", !.wait = next]
    BY <1>1, <2>3
  <2>. QED
    BY <2>2, <2>4 DEF Cooling, Loop
<1>4. CASE AdvanceSchedule(t)
  <2> DEFINE next == NextRunAfter(LoopSchedule(t), phase)
  <2>1. t \in Live
    BY <1>4 DEF AdvanceSchedule, Live
  <2>2. next # 0 /\ loop[t] \in Loop /\ loop[t].probe \in Probe
    BY <2>1, LiveLoop
  <2>3. /\ nextRun' = [nextRun EXCEPT ![loop[t].probe] = next]
        /\ loop' = [loop EXCEPT ![t].pc = "read", ![t].wait = 0]
    BY <1>4 DEF AdvanceSchedule, AdvanceScheduleTo
  <2> HIDE DEF next
  <2>4. loop'[t] = [loop[t] EXCEPT !.pc = "read", !.wait = 0]
    BY <1>1, <2>3
  <2>5. loop'[t].pc = "read" /\ loop'[t].probe = loop[t].probe
    BY <2>2, <2>4 DEF Loop
  <2>6. nextRun'[loop[t].probe] = next
    BY <2>2, <2>3 DEF Inv, TypeOK
  <2>. QED
    BY <2>2, <2>5, <2>6 DEF Cooling
<1>5. CASE Attempt(t) \/ FinishRun(t) \/ StoreRun(t)
  <2>1. t \in Live /\ loop[t].pc # "queued"
    BY <1>5 DEF Attempt, Ready, FinishRun, StoreRun, Live
  <2>2. loop[t] \in Loop
    BY <1>1
  <2>3. [loop[t] EXCEPT !.pc = "advance"] \in Loop
    BY <2>2 DEF Loop, Place
  <2>4. \E pc \in {"advance", "run", "queued", "store"} :
          loop'[t] = [loop[t] EXCEPT !.pc = pc]
    BY <1>1, <1>5, <2>1, <2>3, ReleaseTouches
       DEF Attempt, FinishRun, StoreRun, MoveTo
  <2>. QED
    BY <2>2, <2>4 DEF Cooling, Loop
<1>6. CASE Drop(t)
  BY <1>6 DEF Drop
<1>. QED
  BY <1>2, <1>3, <1>4, <1>5, <1>6 DEF LoopStep

LEMMA StepperKeepsProbe ==
  ASSUME Inv, NEW t \in Task, LoopStep(t), t \in attempted'
  PROVE  loop'[t].probe = loop[t].probe
<1>1. loop \in [Task -> Loop] /\ loop[t] \in Loop
  BY DEF Inv, TypeOK
<1>2. CASE ScheduledNextRun(t) \/ PersistNextRun(t) \/ AdvanceSchedule(t) \/ Attempt(t)
  BY <1>1, <1>2 DEF ScheduledNextRun, PersistNextRun, AdvanceSchedule, Attempt, MoveTo, Loop
<1>3. CASE FinishRun(t) \/ StoreRun(t)
  <2>1. loop[t].pc # "queued" /\ [loop[t] EXCEPT !.pc = "advance"] \in Loop
    BY <1>1, <1>3 DEF FinishRun, StoreRun, Loop, Place
  <2>2. \E pc \in {"advance", "store"} : loop'[t] = [loop[t] EXCEPT !.pc = pc]
    BY <1>1, <1>3, <2>1, ReleaseTouches DEF FinishRun, StoreRun, MoveTo
  <2>. QED
    BY <1>1, <2>2 DEF Loop
<1>4. CASE Drop(t)
  BY <1>4 DEF Drop
<1>. QED
  BY <1>2, <1>3, <1>4 DEF LoopStep

LEMMA CoolStep ==
  ASSUME Inv, Cool, [Next]_vars
  PROVE  Cool'
<1>1. ASSUME loop' = loop, nextRun' = nextRun, attempted' = attempted
      PROVE  Cool'
  BY <1>1 DEF Cool, Cooling
<1>2. ASSUME Next, ~Tick, loop' = loop, attempted' = attempted
      PROVE  Cool'
  <2>1. \A t \in attempted : t \in Live /\ (loop[t].probe \notin Faulty => Cooling(t))
    BY DEF Inv, TypeOK, Cool
  <2>. QED
    BY <1>2, <2>1, UntouchedStaysCool DEF Cool
<1>3. CASE UNCHANGED vars
  BY <1>1, <1>3 DEF vars, store, tasks
<1>4. CASE Tick \/ Restart
  BY <1>4 DEF Tick, Restart, Cool
<1>5. CASE Next /\ ~Tick /\ \E p \in Probe : ApiStep(p) \/ HandlerStep(p)
  <2>1. loop' = loop /\ attempted' = attempted
    BY <1>5 DEF ApiStep, HandlerStep, CreateProbe, EditProbe, DeleteProbe, TriggerRun,
                DeleteRuns, DeleteSchedule, CascadeFails, FinishTrigger, tasks
  <2>. QED
    BY <1>2, <1>5, <2>1
<1>6. CASE Next /\ ~Tick /\ (Reconcile \/ Shutdown)
  BY <1>2, <1>6 DEF Reconcile, Shutdown
<1>7. CASE Next /\ ~Tick /\ \E p \in Probe : SpawnNew(p) \/ Respawn(p)
  <2>1. attempted' = attempted /\ attempted \subseteq Live /\ loop \in [Task -> Loop]
    BY <1>7 DEF SpawnNew, Respawn, Inv, TypeOK
  <2>2. \A u \in Live : loop'[u] = loop[u]
    BY <1>7, <2>1 DEF SpawnNew, Respawn, Spawn, Live
  <2>. QED
    BY <1>7, <2>1, <2>2, UntouchedStaysCool DEF Cool
<1>8. CASE Next /\ ~Tick /\ \E t \in Task : LoopStep(t)
  <2>1. PICK t \in Task : LoopStep(t)
    BY <1>8
  <2>2. attempted' \subseteq attempted \cup {t}
    BY <2>1 DEF LoopStep, ScheduledNextRun, PersistNextRun, Attempt, FinishRun, StoreRun,
                AdvanceSchedule, Drop
  <2>. QED
    BY <1>8, <2>1, <2>2, OthersStayCool, StepperStaysCool, StepperKeepsProbe DEF Cool
<1>. QED
  BY <1>3, <1>4, <1>5, <1>6, <1>7, <1>8 DEF Next, SchedulerStep

(* As long as the store takes its writes, a loop does not try a run twice at one time:
   with any schedules, edits, deletions, restarts, failing providers, and whatever the
   store refuses to the other probes. *)
THEOREM NoLoopRunsHot == Spec => []HotLoopsAreFaulty
<1>1. Init => Cool
  BY DEF Init, Cool
<1>2. Inv /\ Cool /\ [Next]_vars => Cool'
  BY CoolStep
<1>3. Inv /\ Cool => HotLoopsAreFaulty
  BY DEF Inv, TypeOK, Cool, Cooling, HotLoopsAreFaulty, Ready
<1>. QED
  BY <1>1, <1>2, <1>3, Invariance, PTL DEF Spec

-----------------------------------------------------------------------------
(* Sleeps and the persisted schedule, where probes are not edited *)

(* An id belongs to one probe, and what is left of a deletion is of a probe that is
   gone. *)
Ids ==
  /\ \A p \in Probe : Stored(p) \/ listed[p] # 0 \/ cascade[p] # "none" => p \in issued
  /\ \A p \in Probe : cascade[p] # "none" => ~Stored(p)
  /\ \A t \in Live : loop[t].probe \in issued

(* Without edits reconcile replaces no loop, and an aborted one has lost its probe,
   unless the scheduler has stopped. *)
Unreplaced ==
  /\ \A p \in Probe : listed[p] # 0 => active[p] = NoTask /\ mode = "up"
  /\ \A p \in Probe : active[p] # NoTask => mode = "up"
  /\ \A t \in aborted : mode = "up" => ~Stored(loop[t].probe)

Filed == Ids /\ Unreplaced /\ SleepIsPersisted

(* The API deletes the schedule of a probe that is gone, and of no other. *)
LEMMA ApiFiled ==
  ASSUME Inv, Filed, MaxVersion = 1, NEW p \in Probe, ApiStep(p) \/ HandlerStep(p)
  PROVE  Filed'
<1>1. UNCHANGED <<mode, listed, active, loop, aborted>>
  BY DEF ApiStep, HandlerStep, CreateProbe, EditProbe, DeleteProbe, TriggerRun, DeleteRuns,
         DeleteSchedule, CascadeFails, FinishTrigger, scheduler, tasks
<1>2. Live' = Live
  BY <1>1 DEF Live
<1>3. /\ issued \subseteq issued'
      /\ \A q \in Probe : \/ table'[q] = table[q]
                          \/ q \notin issued /\ q \in issued' /\ cascade'[q] = cascade[q]
                          \/ table'[q] = 0 /\ table[q] # 0
      /\ \A q \in Probe : \/ cascade'[q] = "none"
                          \/ cascade'[q] # "none" /\ cascade[q] # "none" /\ table'[q] = table[q]
                          \/ table[q] # 0 /\ table'[q] = 0
      /\ \A q \in Probe : \/ nextRun'[q] = nextRun[q]
                          \/ cascade[q] # "none" /\ table'[q] = table[q]
  <2>0. /\ table \in [Probe -> 0..MaxVersion] /\ issued \subseteq Probe
        /\ nextRun \in [Probe -> Nat \cup {NoNext}]
        /\ cascade \in [Probe -> {"none", "runs", "schedule"}]
    BY DEF Inv, TypeOK
  <2> USE <2>0
  <2>1. CASE CreateProbe(p)
    BY <2>1 DEF CreateProbe, handlers, Filed, Ids
  <2>2. CASE EditProbe(p)
    BY <2>2 DEF EditProbe
  <2>3. CASE DeleteProbe(p)
    BY <2>3 DEF DeleteProbe, Stored
  <2>4. CASE TriggerRun(p)
    BY <2>4 DEF TriggerRun, store
  <2>5. CASE DeleteRuns(p)
    BY <2>5 DEF DeleteRuns
  <2>6. CASE DeleteSchedule(p)
    BY <2>6 DEF DeleteSchedule
  <2>7. CASE CascadeFails(p)
    BY <2>7 DEF CascadeFails, store
  <2>8. CASE FinishTrigger(p)
    BY <2>8 DEF FinishTrigger
  <2>. QED
    BY <2>1, <2>2, <2>3, <2>4, <2>5, <2>6, <2>7, <2>8 DEF ApiStep, HandlerStep
<1>4. Ids'
  BY <1>1, <1>2, <1>3 DEF Filed, Ids, Stored
<1>5. \A q \in Probe : Stored(q)' /\ q \in issued => Stored(q) /\ nextRun'[q] = nextRun[q]
  BY <1>3 DEF Filed, Ids, Stored
<1>6. \A t \in Live : loop[t].probe \in Probe /\ loop[t].probe \in issued
  BY DEF Inv, TypeOK, Filed, Ids
<1>7. Unreplaced'
  BY <1>1, <1>5, <1>6 DEF Inv, TypeOK, Filed, Unreplaced
<1>8. SleepIsPersisted'
  <2> SUFFICES ASSUME NEW q \in Probe, Stored(q)', q \notin Faulty, active[q] # NoTask,
                      loop[active[q]].pc = "sleep"
               PROVE  nextRun'[q] = loop[active[q]].wait
    BY <1>1 DEF SleepIsPersisted
  <2>1. active[q] \in Live /\ loop[active[q]].probe = q
    BY DEF Inv, HandlesAreLive
  <2>. QED
    BY <1>5, <1>6, <2>1 DEF Filed, SleepIsPersisted
<1>. QED
  BY <1>4, <1>7, <1>8 DEF Filed

(* A snapshot of the probes lists those without a loop, as no loop has a version but
   the first. *)
LEMMA ReconcileFiled ==
  ASSUME Inv, Filed, MaxVersion = 1, Reconcile
  PROVE  Filed'
<1>1. /\ mode = "up" /\ mode' = "up"
      /\ listed' = [p \in Probe |-> IF NeedsSpawn(p) THEN table[p] ELSE 0]
      /\ aborted' = aborted \cup {active[p] : p \in Removed}
      /\ active' = [p \in Probe |-> IF p \in Removed THEN NoTask ELSE active[p]]
      /\ UNCHANGED <<table, issued, nextRun, cascade, loop>>
  BY DEF Reconcile, Abort, Untrack, store, handlers
<1>2. Live' = Live
  BY <1>1 DEF Live
<1>3. \A p \in Probe : active[p] # NoTask =>
        active[p] \in Live /\ loop[active[p]].probe = p /\ loop[active[p]].ver = 1
  BY DEF Inv, TypeOK, HandlesAreLive, Version
<1>4. \A p \in Probe : listed'[p] # 0 => Stored(p) /\ active[p] = NoTask
  BY <1>1, <1>3 DEF NeedsSpawn, Stored, Inv, TypeOK
<1>5. Ids'
  BY <1>1, <1>2, <1>4 DEF Filed, Ids, Stored
<1>6. Unreplaced'
  BY <1>1, <1>3, <1>4 DEF Filed, Unreplaced, Removed, Stored
<1>7. SleepIsPersisted'
  BY <1>1 DEF Filed, SleepIsPersisted, Stored
<1>. QED
  BY <1>5, <1>6, <1>7 DEF Filed

(* A new loop has its probe to itself. *)
LEMMA SpawnFiled ==
  ASSUME Inv, Filed, NEW p \in Probe, SpawnNew(p) \/ Respawn(p)
  PROVE  Filed'
<1>1. /\ active[p] = NoTask /\ mode = "up" /\ Spawn(p) /\ listed[p] # 0
      /\ UNCHANGED <<table, issued, nextRun, cascade, mode, aborted>>
  BY DEF Filed, Unreplaced, SpawnNew, Respawn, store, handlers
<1>2. PICK t \in Task \ Live :
        /\ loop' = [loop EXCEPT ![t] =
                      [pc |-> "spawned", probe |-> p, ver |-> listed[p], wait |-> 0]]
        /\ active' = [active EXCEPT ![p] = t]
        /\ listed' = [listed EXCEPT ![p] = 0]
  BY <1>1 DEF Spawn
<1>3. /\ loop \in [Task -> Loop] /\ active \in [Probe -> Task \cup {NoTask}]
      /\ listed \in [Probe -> 0..MaxVersion] /\ aborted \subseteq Live
  BY DEF Inv, TypeOK
<1>4. /\ loop'[t].pc = "spawned" /\ loop'[t].probe = p
      /\ \A u \in Task \ {t} : loop'[u] = loop[u]
      /\ \A q \in Probe : active'[q] = IF q = p THEN t ELSE active[q]
      /\ \A q \in Probe : listed'[q] = IF q = p THEN 0 ELSE listed[q]
  BY <1>2, <1>3
<1>5. Live' = Live \cup {t} /\ Live \subseteq Task
  BY <1>2, <1>4 DEF Live
<1>6. \A q \in Probe : active[q] # NoTask => active[q] \in Live
  BY DEF Inv, HandlesAreLive
<1>7. Ids'
  BY <1>1, <1>2, <1>4, <1>5 DEF Filed, Ids, Stored
<1>8. Unreplaced'
  BY <1>1, <1>2, <1>3, <1>4, <1>5 DEF Filed, Unreplaced, Stored
<1>9. SleepIsPersisted'
  BY <1>1, <1>2, <1>4, <1>5, <1>6 DEF Filed, SleepIsPersisted, Stored
<1>. QED
  BY <1>7, <1>8, <1>9 DEF Filed

(* What a loop's step does to the other loops and to the store. *)
LEMMA LoopStepTouches ==
  ASSUME Inv, NEW t \in Task, LoopStep(t)
  PROVE  /\ t \in Live
         /\ \A u \in Task \ {t} :
              loop'[u] = loop[u] \/ loop'[u] = [loop[u] EXCEPT !.pc = "run"]
         /\ \A q \in Probe : q # loop[t].probe => nextRun'[q] = nextRun[q]
         /\ aborted' \subseteq aborted
         /\ UNCHANGED <<table, issued, cascade, mode, listed, active>>
<1>1. loop \in [Task -> Loop] /\ nextRun \in [Probe -> Nat \cup {NoNext}]
  BY DEF Inv, TypeOK
<1>2. t \in Live
  BY DEF LoopStep, ScheduledNextRun, PersistNextRun, Attempt, Ready, FinishRun, StoreRun,
         AdvanceSchedule, Drop, Await, Live
<1>3. loop[t].probe \in Probe
  BY <1>2, LiveLoop
<1>4. [loop[t] EXCEPT !.pc = "advance"] \in Loop /\ NoLoop \in Loop
  BY <1>2, LiveLoop, ConstantsAssumption DEF Loop, Place, NoLoop
<1>5. \A u \in Task \ {t} :
        loop'[u] = loop[u] \/ loop'[u] = [loop[u] EXCEPT !.pc = "run"]
  <2>1. CASE StoreRun(t) \/ FinishRun(t) \/ Drop(t)
    BY <1>1, <1>4, <2>1, ReleaseTouches DEF StoreRun, FinishRun, Drop, MoveTo
  <2>2. CASE ScheduledNextRun(t) \/ PersistNextRun(t) \/ Attempt(t) \/ AdvanceSchedule(t)
    BY <1>1, <2>2 DEF ScheduledNextRun, PersistNextRun, Attempt, AdvanceSchedule, MoveTo
  <2>. QED
    BY <2>1, <2>2 DEF LoopStep
<1>6. \A q \in Probe : q # loop[t].probe => nextRun'[q] = nextRun[q]
  BY <1>1, <1>3 DEF LoopStep, ScheduledNextRun, PersistNextRun, Attempt, FinishRun, StoreRun,
         AdvanceSchedule, Drop, AdvanceScheduleTo, store
<1>7. /\ aborted' \subseteq aborted
      /\ UNCHANGED <<table, issued, cascade, mode, listed, active>>
  BY DEF LoopStep, ScheduledNextRun, PersistNextRun, Attempt, FinishRun, StoreRun,
         AdvanceSchedule, Drop, store, handlers, scheduler
<1>. QED
  BY <1>2, <1>5, <1>6, <1>7

(* A loop goes to sleep until what it has read, or what it has just written. *)
LEMMA SleeperFiled ==
  ASSUME Inv, SleepIsPersisted, NEW t \in Live, LoopStep(t), loop'[t].pc = "sleep",
         active[loop[t].probe] = t, Stored(loop[t].probe), loop[t].probe \notin Faulty
  PROVE  nextRun'[loop[t].probe] = loop'[t].wait
<1>1. /\ loop \in [Task -> Loop] /\ nextRun \in [Probe -> Nat \cup {NoNext}]
      /\ t \in Task /\ loop[t] \in Loop /\ loop[t].probe \in Probe
  BY LiveLoop DEF Inv, TypeOK, Live
<1> DEFINE p == loop[t].probe
<1>2. CASE ScheduledNextRun(t)
  <2>1. nextRun' = nextRun
    BY <1>2 DEF ScheduledNextRun, store
  <2>2. loop'[t].pc = "persist" \/ loop'[t] = [loop[t] EXCEPT !.pc = "sleep", !.wait = nextRun[p]]
    BY <1>1, <1>2 DEF ScheduledNextRun, MoveTo, Loop
  <2>. QED
    BY <1>1, <2>1, <2>2 DEF Loop
<1>3. CASE PersistNextRun(t)
  <2> DEFINE next == NextRunAfter(LoopSchedule(t), phase)
  <2>1. /\ nextRun' = [nextRun EXCEPT ![p] = next]
        /\ loop' = [loop EXCEPT ![t].pc = "sleep", ![t].wait = next]
    BY <1>3 DEF PersistNextRun, AdvanceScheduleTo
  <2> HIDE DEF next
  <2>2. loop'[t] = [loop[t] EXCEPT !.pc = "sleep", !.wait = next]
    BY <1>1, <2>1
  <2>. QED
    BY <1>1, <2>1, <2>2 DEF Loop
<1>4. CASE Attempt(t) \/ AdvanceSchedule(t)
  BY <1>1, <1>4 DEF Attempt, AdvanceSchedule, MoveTo, Loop
<1>5. CASE FinishRun(t) \/ StoreRun(t)
  <2>1. loop[t].pc # "queued" /\ [loop[t] EXCEPT !.pc = "advance"] \in Loop
    BY <1>1, <1>5 DEF FinishRun, StoreRun, Loop, Place
  <2>2. \E pc \in {"advance", "store"} : loop'[t] = [loop[t] EXCEPT !.pc = pc]
    BY <1>1, <1>5, <2>1, ReleaseTouches DEF FinishRun, StoreRun, MoveTo
  <2>. QED
    BY <1>1, <2>2 DEF Loop
<1>6. CASE Drop(t)
  <2>1. loop[active[p]].probe = p /\ t \notin aborted
    BY <1>1, ConstantsAssumption DEF Inv, TypeOK, HandlesAreLive, Live
  <2>. QED
    BY <1>6, <2>1 DEF Drop
<1>. QED
  BY <1>2, <1>3, <1>4, <1>5, <1>6 DEF LoopStep

(* A permit that is released goes to a waiter, which is a loop. *)
LEMMA HandedToWaiter ==
  ASSUME Inv, NEW t \in Task, LoopStep(t), NEW u \in Task \ {t}, loop[u].pc = "none"
  PROVE  loop'[u] = loop[u]
<1>1. loop \in [Task -> Loop] /\ queue \in Seq(Task)
  BY DEF Inv, TypeOK
<1>2. ASSUME NEW new, ReleaseAndMoveTo(t, new)
      PROVE  loop'[u] = loop[u]
  <2>1. CASE queue = <<>>
    BY <1>1, <1>2, <2>1 DEF ReleaseAndMoveTo
  <2>2. CASE queue # <<>>
    <3>1. Head(queue) \in Task /\ \E j \in DOMAIN queue : queue[j] = Head(queue)
      BY <1>1, <2>2, ServeFirst DEF Inv, WaitersAreQueued
    <3>2. Head(queue) # u
      BY <3>1 DEF Inv, WaitersAreQueued
    <3>3. loop' = [loop EXCEPT ![t] = new, ![Head(queue)].pc = "run"]
      BY <1>2, <2>2 DEF ReleaseAndMoveTo
    <3>. QED
      BY <1>1, <3>1, <3>2, <3>3
  <2>. QED
    BY <2>1, <2>2
<1>3. CASE StoreRun(t) \/ FinishRun(t) \/ Drop(t)
  BY <1>1, <1>2, <1>3 DEF StoreRun, FinishRun, Drop, MoveTo
<1>4. CASE ScheduledNextRun(t) \/ PersistNextRun(t) \/ Attempt(t) \/ AdvanceSchedule(t)
  BY <1>1, <1>4 DEF ScheduledNextRun, PersistNextRun, Attempt, AdvanceSchedule, MoveTo
<1>. QED
  BY <1>3, <1>4 DEF LoopStep

(* A loop's own step ends it or leaves it to its probe. *)
LEMMA StepperLivesOn ==
  ASSUME Inv, NEW t \in Task, LoopStep(t), t \in Live'
  PROVE  loop'[t].probe = loop[t].probe
<1>1. loop \in [Task -> Loop] /\ loop[t] \in Loop /\ NoLoop \in Loop
  BY ConstantsAssumption DEF Inv, TypeOK, Loop, Place, NoLoop
<1>2. CASE ScheduledNextRun(t) \/ PersistNextRun(t) \/ AdvanceSchedule(t) \/ Attempt(t)
  BY <1>1, <1>2 DEF ScheduledNextRun, PersistNextRun, AdvanceSchedule, Attempt, MoveTo, Loop
<1>3. CASE FinishRun(t) \/ StoreRun(t)
  <2>1. loop[t].pc # "queued" /\ [loop[t] EXCEPT !.pc = "advance"] \in Loop
    BY <1>1, <1>3 DEF FinishRun, StoreRun, Loop, Place
  <2>2. \E pc \in {"advance", "store"} : loop'[t] = [loop[t] EXCEPT !.pc = pc]
    BY <1>1, <1>3, <2>1, ReleaseTouches DEF FinishRun, StoreRun, MoveTo
  <2>. QED
    BY <1>1, <2>2 DEF Loop
<1>4. CASE Drop(t)
  <2>1. loop'[t] = NoLoop
    BY <1>1, <1>4, ReleaseTouches DEF Drop
  <2>. QED
    BY <2>1 DEF Live, NoLoop
<1>. QED
  BY <1>2, <1>3, <1>4 DEF LoopStep

(* A run is tried by its own loop, from its sleep. *)
LEMMA OnlyAttemptsAttempt ==
  ASSUME [Next]_vars, NEW t, t \notin attempted, t \in attempted'
  PROVE  Attempt(t)
<1>1. ~ UNCHANGED vars
  BY DEF vars, tasks
<1>2. \A p \in Probe : ~ApiStep(p) /\ ~HandlerStep(p)
  BY DEF ApiStep, HandlerStep, CreateProbe, EditProbe, DeleteProbe, TriggerRun, DeleteRuns,
         DeleteSchedule, CascadeFails, FinishTrigger, tasks
<1>3. ~SchedulerStep /\ ~Shutdown
  BY DEF SchedulerStep, Reconcile, SpawnNew, Respawn, Shutdown
<1>4. ~Tick /\ ~Restart
  BY DEF Tick, Restart
<1>5. PICK u \in Task : LoopStep(u)
  BY <1>1, <1>2, <1>3, <1>4 DEF Next
<1>. QED
  BY <1>5 DEF LoopStep, ScheduledNextRun, PersistNextRun, Attempt, FinishRun, StoreRun,
              AdvanceSchedule, Drop

(* The loop of a stored probe is alone in writing its schedule: any other loop of the
   probe is an aborted one. *)
LEMMA LoopFiled ==
  ASSUME Inv, Filed, NEW t \in Task, LoopStep(t)
  PROVE  Filed'
<1>1. loop \in [Task -> Loop] /\ t \in Live /\ loop[t] \in Loop /\ loop[t].probe \in Probe
  BY LoopStepTouches, LiveLoop DEF Inv, TypeOK
<1>2. /\ aborted' \subseteq aborted /\ aborted \subseteq Live
      /\ UNCHANGED <<table, issued, cascade, mode, listed, active>>
  BY LoopStepTouches DEF Inv, TypeOK
<1>3. ASSUME NEW u \in Task \ {t}
      PROVE  /\ loop'[u].probe = loop[u].probe
             /\ loop'[u].pc = "sleep" => loop'[u] = loop[u]
  <2>1. loop[u] \in Loop
    BY <1>1
  <2>2. loop'[u] = loop[u] \/ loop'[u] = [loop[u] EXCEPT !.pc = "run"]
    BY LoopStepTouches
  <2>. QED
    BY <2>1, <2>2 DEF Loop
<1>4. ASSUME NEW u \in Task \ {t}, loop'[u].pc # "none"
      PROVE  u \in Live
  <2>1. CASE loop'[u] = loop[u]
    BY <1>4, <2>1 DEF Live
  <2>2. CASE loop'[u] # loop[u]
    BY <1>1, <1>4, <2>2, HandedToWaiter DEF Live
  <2>. QED
    BY <2>1, <2>2
<1>5. t \in Live' => loop'[t].probe = loop[t].probe
  BY StepperLivesOn
<1>6. \A u \in Live' : u \in Live /\ loop'[u].probe = loop[u].probe
  BY <1>1, <1>3, <1>4, <1>5 DEF Live
<1>7. \A u \in aborted' : u \in Live'
  BY NextInv DEF Next, Inv, TypeOK
<1>8. Ids'
  BY <1>2, <1>6 DEF Filed, Ids, Stored
<1>9. Unreplaced'
  BY <1>2, <1>6, <1>7 DEF Filed, Unreplaced, Stored
<1>10. SleepIsPersisted'
  <2> SUFFICES ASSUME NEW p \in Probe, Stored(p), p \notin Faulty, active[p] # NoTask,
                      loop'[active[p]].pc = "sleep"
               PROVE  nextRun'[p] = loop'[active[p]].wait
    BY <1>2 DEF SleepIsPersisted, Stored
  <2>1. active[p] \in Live \ aborted /\ loop[active[p]].probe = p /\ active[p] \in Task
    BY DEF Inv, HandlesAreLive, Live
  <2>2. CASE active[p] = t
    BY <1>1, <2>1, <2>2, SleeperFiled DEF Filed
  <2>3. CASE active[p] # t
    <3>1. loop'[active[p]] = loop[active[p]] /\ nextRun[p] = loop[active[p]].wait
      BY <1>3, <2>1, <2>3 DEF Filed, SleepIsPersisted
    <3>2. loop[t].probe # p
      <4>1. ASSUME loop[t].probe = p
            PROVE  FALSE
        <5>1. t \in aborted
          BY <1>1, <2>3, <4>1 DEF Inv, LoopsAreTracked
        <5>. QED
          BY <4>1, <5>1 DEF Filed, Unreplaced
      <4>. QED
        BY <4>1
    <3>. QED
      BY <3>1, <3>2, LoopStepTouches
  <2>. QED
    BY <2>2, <2>3
<1>. QED
  BY <1>8, <1>9, <1>10 DEF Filed

LEMMA FiledStep ==
  ASSUME Inv, Filed, MaxVersion = 1, [Next]_vars
  PROVE  Filed'
<1>1. CASE UNCHANGED vars
  BY <1>1 DEF vars, store, handlers, scheduler, tasks, Filed, Ids, Unreplaced,
              SleepIsPersisted, Stored, Live
<1>2. CASE Shutdown
  <2>1. /\ mode' = "stopped"
        /\ \A p \in Probe : active'[p] = NoTask /\ listed'[p] = 0
        /\ UNCHANGED <<table, issued, cascade, loop>>
    BY <1>2 DEF Shutdown, Untrack, Idle, store, handlers
  <2>. QED
    BY <2>1 DEF Filed, Ids, Unreplaced, SleepIsPersisted, Stored, Live
<1>3. CASE Tick
  <2>1. /\ UNCHANGED <<table, issued, cascade, mode, listed, active, aborted>>
        /\ nextRun' = [p \in Probe |-> Elapse(nextRun[p])]
        /\ loop' = [t \in Task |-> [loop[t] EXCEPT !.wait = Elapse(loop[t].wait)]]
    BY <1>3 DEF Tick, handlers, scheduler
  <2>2. \A t \in Task : /\ loop'[t].pc = loop[t].pc /\ loop'[t].probe = loop[t].probe
                        /\ loop'[t].wait = Elapse(loop[t].wait)
    BY <2>1 DEF Inv, TypeOK, Loop
  <2>3. Live' = Live /\ Live \subseteq Task /\ aborted \subseteq Live
    BY <2>2 DEF Live, Inv, TypeOK
  <2>4. Ids' /\ Unreplaced'
    BY <2>1, <2>2, <2>3 DEF Filed, Ids, Unreplaced, Stored
  <2>5. \A p \in Probe : active[p] # NoTask => active[p] \in Task
    BY DEF Inv, TypeOK
  <2>6. SleepIsPersisted'
    BY <2>1, <2>2, <2>5 DEF Filed, SleepIsPersisted, Stored
  <2>. QED
    BY <2>4, <2>6 DEF Filed
<1>4. CASE Restart
  <2>1. /\ \A p \in Probe : cascade'[p] = "none" /\ listed'[p] = 0 /\ active'[p] = NoTask
        /\ \A t \in Task : loop'[t].pc = "none"
        /\ aborted' = {} /\ UNCHANGED <<table, issued>>
    BY <1>4 DEF Restart, NoLoop, store
  <2>2. Live' = {}
    BY <2>1 DEF Live
  <2>. QED
    BY <2>1, <2>2 DEF Filed, Ids, Unreplaced, SleepIsPersisted, Stored
<1>. QED
  BY <1>1, <1>2, <1>3, <1>4, ApiFiled, ReconcileFiled, SpawnFiled, LoopFiled
     DEF Next, SchedulerStep

(* Where probes are not edited, the loop of a stored probe is the only one to write its
   schedule. *)
THEOREM Filing == ASSUME MaxVersion = 1 PROVE Spec => []Filed
<1>1. Init => Filed
  BY DEF Init, Filed, Ids, Unreplaced, SleepIsPersisted, Stored, Live, NoLoop
<1>2. Inv /\ Filed /\ [Next]_vars => Filed'
  BY FiledStep
<1>. QED
  BY <1>1, <1>2, Invariance, PTL DEF Spec

(* Where probes are not edited, a daemon killed at any time resumes every stored probe
   at the time its loop slept until, if the store takes the probe's writes: whatever it
   refuses to others, and whatever is deleted, restarted or fails. *)
THEOREM SleepsAreOnDisk == ASSUME MaxVersion = 1 PROVE Spec => []SleepIsPersisted
<1>1. Filed => SleepIsPersisted
  BY DEF Filed
<1>. QED
  BY <1>1, Filing, PTL

(* Nor does such a loop ever run its probe before the persisted time has come. *)
THEOREM NoRunBeforeItsTime == ASSUME MaxVersion = 1 PROVE Spec => NeverEarly
<1>1. ASSUME Inv, Filed, [Next]_vars, NEW p \in Probe, Stored(p), p \notin Faulty,
             active[p] # NoTask, active[p] \notin attempted, active[p] \in attempted'
      PROVE  nextRun[p] = 0
  <2>1. active[p] \in Task /\ loop[active[p]].probe = p
    BY <1>1 DEF Inv, TypeOK, HandlesAreLive
  <2>2. Attempt(active[p])
    BY <1>1, OnlyAttemptsAttempt
  <2>3. loop[active[p]].pc = "sleep" /\ loop[active[p]].wait = 0
    BY <2>2 DEF Attempt, Ready
  <2>. QED
    BY <1>1, <2>3 DEF Filed, SleepIsPersisted
<1>2. Inv /\ Filed /\ [Next]_vars =>
        [\A p \in Probe :
           LET t == active[p]
           IN (Stored(p) /\ p \notin Faulty /\ t # NoTask /\ t \notin attempted /\ t \in attempted') =>
                nextRun[p] = 0]_vars
  BY <1>1
<1>. QED
  BY <1>2, Invariance, Filing, PTL DEF Spec, NeverEarly

=============================================================================
