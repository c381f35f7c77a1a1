----------------------------- MODULE AlertProofs -----------------------------
(* Theorems about AlertPipeline, for every value of its constants, in three layers: what
   is stored and read (AInv), what becomes of notifications when evaluations are cut
   short (RInv), and what is tested and debited (BInv), with sums from SumTheorems. *)
EXTENDS AlertPipeline, SumTheorems

Phase == {"idle", "history", "evaluate", "notify", "record"}

(* The ranges of what is stored and sent. *)
Shape ==
  /\ now \in Time
  /\ issued \subseteq Rule /\ rules \subseteq issued
  /\ events \subseteq Event
  /\ \A e \in events : e.rule \in issued /\ e.at <= now
  /\ lastFired \in [Rule -> Time \cup {Never}]
  /\ sent \subseteq Rule \X Channel \X Time
  /\ \A n \in sent : n[1] \in issued

JobShape ==
  /\ job = [pc |-> job.pc, p |-> job.p, rules |-> job.rules, fired |-> job.fired,
            spent |-> job.spent, at |-> job.at, toSend |-> job.toSend,
            toInsert |-> job.toInsert, toRecord |-> job.toRecord]
  /\ job.pc \in Phase
  /\ job.rules \subseteq issued
  /\ job.fired \in [Rule -> Time \cup {Never}]
  /\ job.at \in Time /\ job.at <= now
  /\ job.toSend \subseteq Rule \X Channel
  /\ \A rc \in job.toSend : rc[1] \in job.rules
  /\ job.toInsert \subseteq job.rules
  /\ job.pc # "notify" => job.toSend = {} /\ job.toInsert = {}

(* The last-fired index is no older than any event of a stored rule. *)
IndexIsNewest ==
  \A e \in events : e.rule \in rules =>
    lastFired[e.rule] # Never /\ e.at <= lastFired[e.rule]

(* What the evaluation has read of a rule that is still stored is not stale. *)
ReadIsFresh ==
  job.pc = "evaluate" =>
    \A r \in job.rules \cap rules : job.fired[r] = lastFired[r]

(* An event about to be inserted keeps its distance to those recorded. *)
NextIsApart ==
  \A r \in job.toInsert \cap rules : \A e \in events :
    e.rule = r => job.at - e.at >= Cooldown

(* Channels of an event about to be inserted that are not left to try were tried. *)
NextIsSent ==
  \A r \in job.toInsert : \A c \in ChannelsOf[r] :
    <<r, c>> \in job.toSend \/ <<r, c, job.at>> \in sent

AInv ==
  /\ Shape /\ JobShape
  /\ IndexIsNewest /\ ReadIsFresh /\ NextIsApart /\ NextIsSent
  /\ EventsApart /\ EventsWereSent

USE DEF Time

LEMMA NoJobShape ==
  ASSUME Shape, NEW j, j = NoJob
  PROVE  /\ j = [pc |-> j.pc, p |-> j.p, rules |-> j.rules, fired |-> j.fired,
                 spent |-> j.spent, at |-> j.at, toSend |-> j.toSend,
                 toInsert |-> j.toInsert, toRecord |-> j.toRecord]
         /\ j.pc = "idle" /\ j.rules = {} /\ j.fired \in [Rule -> Time \cup {Never}]
         /\ j.at = 0 /\ j.toSend = {} /\ j.toInsert = {}
BY DEF NoJob, Never

LEMMA AlertInit == Init => AInv
<1> SUFFICES ASSUME Init PROVE AInv
  OBVIOUS
<1>1. Shape
  BY DEF Init, Shape, Never
<1>2. JobShape /\ job.pc = "idle" /\ job.toInsert = {}
  BY <1>1, NoJobShape DEF Init, JobShape, Phase
<1>. QED
  BY <1>1, <1>2 DEF Init, AInv, IndexIsNewest, ReadIsFresh, NextIsApart, NextIsSent,
                    EventsApart, EventsWereSent

(* An evaluation that begins, or one that ends, has nothing to write. *)
LEMMA FreshJobInv ==
  ASSUME AInv, UNCHANGED <<now, table, sent>>,
         Finish \/ CutShort \/ \E p \in PValue : Begin(p)
  PROVE  AInv'
<1>1. Shape'
  BY DEF AInv, Shape, table
<1>2. /\ JobShape' /\ job'.pc \in {"idle", "history"} /\ job'.toInsert = {}
  <2>1. CASE Finish \/ CutShort
    <3>1. job' = NoJob
      BY <2>1 DEF Finish, CutShort
    <3>2. /\ job' = [pc |-> job'.pc, p |-> job'.p, rules |-> job'.rules,
                     fired |-> job'.fired, spent |-> job'.spent, at |-> job'.at,
                     toSend |-> job'.toSend, toInsert |-> job'.toInsert,
                     toRecord |-> job'.toRecord]
          /\ job'.pc = "idle" /\ job'.rules = {}
          /\ job'.fired \in [Rule -> Time \cup {Never}]
          /\ job'.at = 0 /\ job'.toSend = {} /\ job'.toInsert = {}
      BY <3>1, NoJobShape DEF AInv
    <3>3. 0 <= now'
      BY DEF AInv, Shape
    <3>4. job'.rules \subseteq issued' /\ job'.at \in Time /\ job'.at <= now'
      BY <3>2, <3>3
    <3>5. job'.pc \in Phase
      BY <3>2 DEF Phase
    <3>6. /\ job'.toSend \subseteq Rule \X Channel
          /\ \A rc \in job'.toSend : rc[1] \in job'.rules
          /\ job'.toInsert \subseteq job'.rules
      BY <3>2
    <3>7. JobShape'
      BY <3>2, <3>4, <3>5, <3>6, Zenon DEF JobShape
    <3>8. job'.pc \in {"idle", "history"} /\ job'.toInsert = {}
      BY <3>2
    <3>. QED
      BY <3>7, <3>8, Zenon
  <2>2. CASE \E p \in PValue : Begin(p)
    <3>1. PICK p \in PValue : job' = [NoJob EXCEPT !.pc = "history", !.p = p, !.rules = rules]
      BY <2>2 DEF Begin
    <3>2. NoJob = [pc |-> NoJob.pc, p |-> NoJob.p, rules |-> NoJob.rules,
                   fired |-> NoJob.fired, spent |-> NoJob.spent, at |-> NoJob.at,
                   toSend |-> NoJob.toSend, toInsert |-> NoJob.toInsert,
                   toRecord |-> NoJob.toRecord]
          /\ NoJob.fired \in [Rule -> Time \cup {Never}] /\ NoJob.at = 0
          /\ NoJob.toSend = {} /\ NoJob.toInsert = {}
      BY NoJobShape DEF AInv
    <3>3. /\ job' = [pc |-> job'.pc, p |-> job'.p, rules |-> job'.rules,
                     fired |-> job'.fired, spent |-> job'.spent, at |-> job'.at,
                     toSend |-> job'.toSend, toInsert |-> job'.toInsert,
                     toRecord |-> job'.toRecord]
          /\ job'.pc = "history" /\ job'.rules = rules
          /\ job'.fired \in [Rule -> Time \cup {Never}] /\ job'.at = 0
          /\ job'.toSend = {} /\ job'.toInsert = {}
      BY <3>1, <3>2
    <3>4. job'.rules \subseteq issued' /\ 0 <= now' /\ job'.pc \in Phase
      BY <3>3 DEF AInv, Shape, table, Phase
    <3>5. JobShape'
      BY <3>3, <3>4 DEF JobShape
    <3>6. job'.pc \in {"idle", "history"} /\ job'.toInsert = {}
      BY <3>3
    <3>. QED
      BY <3>5, <3>6, Zenon
  <2>. QED
    BY <2>1, <2>2
<1>3. IndexIsNewest' /\ EventsApart' /\ EventsWereSent'
  BY DEF AInv, IndexIsNewest, EventsApart, EventsWereSent, table
<1>4. ReadIsFresh' /\ NextIsApart' /\ NextIsSent'
  BY <1>2 DEF ReadIsFresh, NextIsApart, NextIsSent
<1>. QED
  BY <1>1, <1>2, <1>3, <1>4 DEF AInv

LEMMA ReadHistoryInv ==
  ASSUME AInv, ReadHistory
  PROVE  AInv'
<1>1. Shape' /\ UNCHANGED <<now, rules, issued, events, lastFired, sent>>
  BY DEF AInv, Shape, ReadHistory, table
<1>2. /\ job'.pc = "evaluate" /\ job'.rules = job.rules
      /\ job'.fired = [r \in Rule |-> IF r \in job.rules THEN lastFired[r] ELSE Never]
      /\ job'.at = job.at /\ job'.toSend = {} /\ job'.toInsert = {}
      /\ job' = [pc |-> job'.pc, p |-> job'.p, rules |-> job'.rules, fired |-> job'.fired,
                 spent |-> job'.spent, at |-> job'.at, toSend |-> job'.toSend,
                 toInsert |-> job'.toInsert, toRecord |-> job'.toRecord]
  BY DEF AInv, JobShape, ReadHistory
<1>3. JobShape'
  BY <1>1, <1>2 DEF AInv, Shape, JobShape, Phase
<1>4. ReadIsFresh'
  BY <1>1, <1>2 DEF AInv, Shape, ReadIsFresh
<1>5. NextIsApart' /\ NextIsSent'
  BY <1>2 DEF NextIsApart, NextIsSent
<1>6. IndexIsNewest' /\ EventsApart' /\ EventsWereSent'
  BY <1>1 DEF AInv, IndexIsNewest, EventsApart, EventsWereSent
<1>. QED
  BY <1>1, <1>3, <1>4, <1>5, <1>6 DEF AInv

(* The decision: a rule that fires and is stored last fired a cooldown ago or more. *)
LEMMA EvaluateInv ==
  ASSUME AInv, Evaluate
  PROVE  AInv'
<1>1. Shape' /\ UNCHANGED <<now, rules, issued, events, lastFired, sent>>
  BY DEF AInv, Shape, Evaluate, table
<1> DEFINE send == {rc \in Firing \X Channel : rc[2] \in ChannelsOf[rc[1]]}
<1>2. /\ job.pc = "evaluate" /\ job'.pc = "notify" /\ job'.rules = job.rules
      /\ job'.fired = job.fired /\ job'.at = now
      /\ job'.toSend = send /\ job'.toInsert = Firing
      /\ job' = [pc |-> job'.pc, p |-> job'.p, rules |-> job'.rules, fired |-> job'.fired,
                 spent |-> job'.spent, at |-> job'.at, toSend |-> job'.toSend,
                 toInsert |-> job'.toInsert, toRecord |-> job'.toRecord]
  BY DEF AInv, JobShape, Evaluate
<1>3. Firing \subseteq job.rules /\ job.rules \subseteq Rule
  BY DEF Firing, Looked, AInv, Shape, JobShape
<1>4. JobShape'
  <2>1. send \subseteq Rule \X Channel /\ \A rc \in send : rc[1] \in job.rules
    BY <1>3
  <2>. HIDE DEF send
  <2>. QED
    BY <1>1, <1>2, <1>3, <2>1 DEF AInv, Shape, JobShape, Phase
<1>5. NextIsApart'
  <2> SUFFICES ASSUME NEW r \in Firing \cap rules, NEW e \in events, e.rule = r
               PROVE  now - e.at >= Cooldown
    BY <1>1, <1>2 DEF NextIsApart
  <2>1. job.fired[r] = lastFired[r] /\ lastFired[r] # Never /\ e.at <= lastFired[r]
    BY <1>2, <1>3 DEF AInv, ReadIsFresh, IndexIsNewest
  <2>2. ~InCooldown(r)
    BY DEF Firing
  <2>3. /\ now \in Nat /\ e.at \in Nat /\ e.at <= now /\ lastFired[r] \in Nat
        /\ Cooldown \in Nat
    BY <1>3, <2>1, AlertAssumption DEF AInv, Shape, Event
  <2>. QED
    BY <2>1, <2>2, <2>3 DEF InCooldown
<1>6. NextIsSent'
  <2> SUFFICES ASSUME NEW r \in Firing, NEW c \in ChannelsOf[r]
               PROVE  <<r, c>> \in send
    BY <1>2 DEF NextIsSent
  <2>. QED
    BY <1>3, AlertAssumption
<1>7. IndexIsNewest' /\ EventsApart' /\ EventsWereSent' /\ ReadIsFresh'
  BY <1>1, <1>2 DEF AInv, IndexIsNewest, EventsApart, EventsWereSent, ReadIsFresh
<1>. QED
  BY <1>1, <1>4, <1>5, <1>6, <1>7 DEF AInv

LEMMA NotifyInv ==
  ASSUME AInv, NEW r \in Rule, NEW c \in Channel, Notify(r, c)
  PROVE  AInv'
<1>1. /\ job.pc = "notify" /\ <<r, c>> \in job.toSend
      /\ sent' = sent \cup {<<r, c, job.at>>}
      /\ UNCHANGED <<now, rules, issued, events, lastFired>>
  BY DEF Notify, table
<1>2. /\ job'.pc = job.pc /\ job'.rules = job.rules /\ job'.fired = job.fired
      /\ job'.at = job.at /\ job'.toSend = job.toSend \ {<<r, c>>}
      /\ job'.toInsert = job.toInsert
      /\ job' = [pc |-> job'.pc, p |-> job'.p, rules |-> job'.rules, fired |-> job'.fired,
                 spent |-> job'.spent, at |-> job'.at, toSend |-> job'.toSend,
                 toInsert |-> job'.toInsert, toRecord |-> job'.toRecord]
  BY DEF AInv, JobShape, Notify, Tried
<1>3. Shape'
  <2>1. r \in issued /\ job.at \in Time
    BY <1>1 DEF AInv, JobShape
  <2>. QED
    BY <1>1, <2>1 DEF AInv, Shape
<1>4. JobShape'
  BY <1>1, <1>2 DEF AInv, JobShape
<1>5. NextIsSent' /\ EventsWereSent'
  BY <1>1, <1>2 DEF AInv, NextIsSent, EventsWereSent
<1>6. IndexIsNewest' /\ ReadIsFresh' /\ NextIsApart' /\ EventsApart'
  BY <1>1, <1>2 DEF AInv, IndexIsNewest, ReadIsFresh, NextIsApart, EventsApart
<1>. QED
  BY <1>3, <1>4, <1>5, <1>6 DEF AInv

(* The event inserted is apart from the recorded ones, becomes the newest of its rule,
   and was sent on every channel. *)
LEMMA InsertEventInv ==
  ASSUME AInv, NEW r \in Rule, InsertEvent(r)
  PROVE  AInv'
<1> DEFINE new == [rule |-> r, at |-> job.at, acknowledged |-> FALSE]
<1>1. /\ job.pc = "notify" /\ job.toSend = {} /\ r \in job.toInsert
      /\ events' = events \cup {new}
      /\ lastFired' = [lastFired EXCEPT ![r] = Newest(lastFired[r], job.at)]
      /\ UNCHANGED <<now, rules, issued, sent>>
  BY DEF InsertEvent
<1>2. /\ job'.pc = job.pc /\ job'.rules = job.rules /\ job'.fired = job.fired
      /\ job'.at = job.at /\ job'.toSend = job.toSend
      /\ job'.toInsert = job.toInsert \ {r}
      /\ job' = [pc |-> job'.pc, p |-> job'.p, rules |-> job'.rules, fired |-> job'.fired,
                 spent |-> job'.spent, at |-> job'.at, toSend |-> job'.toSend,
                 toInsert |-> job'.toInsert, toRecord |-> job'.toRecord]
  BY DEF AInv, JobShape, InsertEvent
<1>3. /\ r \in issued /\ job.at \in Nat /\ job.at <= now /\ now \in Nat
      /\ lastFired \in [Rule -> Nat \cup {-1}] /\ Cooldown \in Nat
      /\ \A e \in events : e \in Event /\ e.at \in Nat /\ e.rule \in Rule
  BY <1>1, AlertAssumption DEF AInv, Shape, JobShape, Never, Event
<1>4. new \in Event /\ new.rule = r /\ new.at = job.at
  BY <1>3 DEF Event
<1>5. \A q \in Rule : /\ lastFired'[q] \in Nat \cup {-1}
                      /\ q # r => lastFired'[q] = lastFired[q]
                      /\ lastFired[q] <= lastFired'[q]
  BY <1>1, <1>3 DEF Newest
<1>6. lastFired'[r] \in Nat /\ job.at <= lastFired'[r]
  BY <1>1, <1>3 DEF Newest
<1> HIDE DEF new
<1>7. Shape'
  <2>1. lastFired' \in [Rule -> Nat \cup {-1}]
    BY <1>1, <1>5, <1>3
  <2>. QED
    BY <1>1, <1>3, <1>4, <2>1 DEF AInv, Shape, Never
<1>8. JobShape'
  BY <1>1, <1>2 DEF AInv, JobShape
<1>9. IndexIsNewest'
  <2> SUFFICES ASSUME NEW e \in events', e.rule \in rules
               PROVE  lastFired'[e.rule] # -1 /\ e.at <= lastFired'[e.rule]
    BY <1>1 DEF IndexIsNewest, Never
  <2>1. CASE e = new
    BY <1>4, <1>6, <2>1
  <2>2. CASE e \in events
    <3>1. lastFired[e.rule] # -1 /\ e.at <= lastFired[e.rule] /\ e.rule \in Rule
      BY <1>3, <2>2 DEF AInv, IndexIsNewest, Never
    <3>. QED
      BY <1>3, <1>5, <2>2, <3>1
  <2>. QED
    BY <1>1, <2>1, <2>2
<1>10. EventsApart'
  <2> SUFFICES ASSUME NEW e \in events', NEW f \in events', e.rule = f.rule,
                      e.rule \in rules, e.at < f.at
               PROVE  f.at - e.at >= Cooldown
    BY <1>1 DEF EventsApart
  <2>1. CASE e \in events /\ f \in events
    BY <2>1 DEF AInv, EventsApart
  <2>2. CASE f = new /\ e \in events
    BY <1>1, <1>4, <2>2 DEF AInv, NextIsApart
  <2>3. CASE e = new /\ f \in events
    <3>1. job.at - f.at >= Cooldown
      BY <1>1, <1>4, <2>3 DEF AInv, NextIsApart
    <3>. QED
      BY <1>3, <1>4, <2>3, <3>1
  <2>. QED
    BY <1>1, <1>3, <1>4, <2>1, <2>2, <2>3
<1>11. NextIsApart'
  <2> SUFFICES ASSUME NEW q \in (job.toInsert \ {r}) \cap rules, NEW e \in events',
                      e.rule = q
               PROVE  job.at - e.at >= Cooldown
    BY <1>1, <1>2 DEF NextIsApart
  <2>1. e \in events
    BY <1>1, <1>4
  <2>. QED
    BY <2>1 DEF AInv, NextIsApart
<1>12. EventsWereSent' /\ NextIsSent' /\ ReadIsFresh'
  BY <1>1, <1>2, <1>4 DEF AInv, EventsWereSent, NextIsSent, ReadIsFresh
<1>. QED
  BY <1>7, <1>8, <1>9, <1>10, <1>11, <1>12 DEF AInv

LEMMA RecordInv ==
  ASSUME AInv, StartRecording \/ \E r \in Rule : RecordSpend(r)
  PROVE  AInv'
<1>1. UNCHANGED <<now, rules, issued, events, lastFired, sent>>
  BY DEF StartRecording, RecordSpend, table
<1>2. /\ job'.pc = "record" /\ job'.rules = job.rules /\ job'.fired = job.fired
      /\ job'.at \in {now, job.at} /\ job'.toSend = {} /\ job'.toInsert = {}
      /\ job' = [pc |-> job'.pc, p |-> job'.p, rules |-> job'.rules, fired |-> job'.fired,
                 spent |-> job'.spent, at |-> job'.at, toSend |-> job'.toSend,
                 toInsert |-> job'.toInsert, toRecord |-> job'.toRecord]
  BY DEF AInv, JobShape, StartRecording, Settled, RecordSpend
<1>3. Shape' /\ JobShape'
  BY <1>1, <1>2 DEF AInv, Shape, JobShape, Phase
<1>4. NextIsApart' /\ NextIsSent' /\ ReadIsFresh'
  BY <1>2 DEF NextIsApart, NextIsSent, ReadIsFresh
<1>5. IndexIsNewest' /\ EventsApart' /\ EventsWereSent'
  BY <1>1 DEF AInv, IndexIsNewest, EventsApart, EventsWereSent
<1>. QED
  BY <1>3, <1>4, <1>5 DEF AInv

(* Handlers and the clock leave the evaluation alone; a rule that goes never returns. *)
LEMMA HandlerInv ==
  ASSUME AInv, \/ \E r \in Rule : CreateRule(r) \/ DeleteRule(r)
               \/ Tick
               \/ UNCHANGED vars
  PROVE  AInv'
<1>1. /\ UNCHANGED <<events, job, sent>>
      /\ rules' \cap issued \subseteq rules /\ rules' \subseteq issued'
      /\ issued \subseteq issued' /\ issued' \subseteq Rule
      /\ now <= now' /\ now' \in Nat
      /\ lastFired' \in [Rule -> Time \cup {Never}]
      /\ \A r \in rules' \cap issued : lastFired'[r] = lastFired[r]
  BY DEF AInv, Shape, CreateRule, DeleteRule, Tick, vars, table
<1>2. Shape' /\ JobShape'
  BY <1>1 DEF AInv, Shape, JobShape, Event
<1>3. IndexIsNewest' /\ ReadIsFresh' /\ NextIsApart' /\ EventsApart'
  BY <1>1 DEF AInv, Shape, JobShape, IndexIsNewest, ReadIsFresh, NextIsApart, EventsApart
<1>4. NextIsSent' /\ EventsWereSent'
  BY <1>1 DEF AInv, NextIsSent, EventsWereSent
<1>. QED
  BY <1>2, <1>3, <1>4 DEF AInv

LEMMA AcknowledgeInv ==
  ASSUME AInv, NEW e \in events, AcknowledgeEvent(e)
  PROVE  AInv'
<1>1. UNCHANGED <<now, rules, issued, lastFired, job, sent>>
  BY DEF AcknowledgeEvent
<1>2. \A f \in events' : f \in Event /\ \E g \in events : f.rule = g.rule /\ f.at = g.at
  BY DEF AcknowledgeEvent, AInv, Shape, Event
<1>3. Shape' /\ JobShape'
  BY <1>1, <1>2 DEF AInv, Shape, JobShape
<1>4. IndexIsNewest' /\ NextIsApart' /\ EventsApart' /\ EventsWereSent'
  BY <1>1, <1>2 DEF AInv, IndexIsNewest, NextIsApart, EventsApart, EventsWereSent
<1>5. ReadIsFresh' /\ NextIsSent'
  BY <1>1 DEF AInv, ReadIsFresh, NextIsSent
<1>. QED
  BY <1>3, <1>4, <1>5 DEF AInv

LEMMA AlertStep == AInv /\ [Next]_vars => AInv'
<1> SUFFICES ASSUME AInv, [Next]_vars PROVE AInv'
  OBVIOUS
<1>1. CASE Finish \/ CutShort \/ \E p \in PValue : Begin(p)
  BY <1>1, FreshJobInv DEF Finish, CutShort, Begin, table
<1>2. CASE ReadHistory
  BY <1>2, ReadHistoryInv
<1>3. CASE Evaluate
  BY <1>3, EvaluateInv
<1>4. CASE \E r \in Rule, c \in Channel : Notify(r, c)
  BY <1>4, NotifyInv
<1>5. CASE \E r \in Rule : InsertEvent(r)
  BY <1>5, InsertEventInv
<1>6. CASE StartRecording \/ \E r \in Rule : RecordSpend(r)
  BY <1>6, RecordInv
<1>7. CASE \E e \in events : AcknowledgeEvent(e)
  BY <1>7, AcknowledgeInv
<1>8. CASE \/ \E r \in Rule : CreateRule(r) \/ DeleteRule(r)
           \/ Tick
           \/ UNCHANGED vars
  BY <1>8, HandlerInv
<1>. QED
  BY <1>1, <1>2, <1>3, <1>4, <1>5, <1>6, <1>7, <1>8 DEF Next

(* The last-fired index, what evaluations have read and the events agree at all times. *)
THEOREM AlertInvariance == Spec => []AInv
  BY AlertInit, AlertStep, PTL DEF Spec

-----------------------------------------------------------------------------
(* Notifications and the evaluations cut short *)

(* A notification of an evaluation that was not cut short has its event, or the
   evaluation is under way and about to insert it. *)
SentIsRecorded ==
  \A n \in sent : n[3] \notin cut =>
    \/ \E e \in events : e.rule = n[1] /\ e.at = n[3]
    \/ n[1] \in job.toInsert /\ n[3] = job.at

SendIsPending == \A rc \in job.toSend : rc[1] \in job.toInsert

(* An evaluation is later than the end of the one before it, and no notification is
   later than the evaluation that is notifying. *)
JobIsNew ==
  /\ done \in Nat
  /\ job.pc \in {"history", "evaluate"} => done < now
  /\ job.pc = "notify" => done < job.at
  /\ \A n \in sent : n[3] <= now /\ (job.pc = "notify" => n[3] <= job.at)

(* A notification keeps its distance to the events recorded before it. *)
SentIsApart ==
  \A n \in sent : \A e \in events :
    (e.rule = n[1] /\ e.rule \in rules /\ e.at < n[3]) => n[3] - e.at >= Cooldown

RInv == SentIsRecorded /\ SendIsPending /\ JobIsNew /\ SentIsApart

LEMMA RecordedInit == Init => RInv
<1> SUFFICES ASSUME Init PROVE RInv
  OBVIOUS
<1>1. job.pc = "idle" /\ job.toSend = {} /\ done \in Nat /\ sent = {} /\ events = {}
  BY DEF Init, NoJob
<1>. QED
  BY <1>1 DEF RInv, SentIsRecorded, SendIsPending, JobIsNew, SentIsApart

(* Steps that neither notify nor insert, taken with nothing left to insert. *)
LEMMA SettledStep ==
  ASSUME AInv, RInv, job.toInsert = {}, UNCHANGED <<now, table, sent, cut>>,
         \A rc \in job'.toSend : rc[1] \in job'.toInsert,
         done' \in Nat,
         job'.pc \in {"history", "evaluate"} => done' < now,
         job'.pc = "notify" => done' < job'.at /\ job'.at = now
  PROVE  RInv'
<1>1. SentIsRecorded' /\ SendIsPending' /\ SentIsApart'
  BY DEF RInv, SentIsRecorded, SendIsPending, SentIsApart, table
<1>2. JobIsNew'
  BY DEF RInv, JobIsNew
<1>. QED
  BY <1>1, <1>2 DEF RInv

LEMMA NotifyRecorded ==
  ASSUME AInv, RInv, NEW r \in Rule, NEW c \in Channel, Notify(r, c)
  PROVE  RInv'
<1>1. /\ sent' = sent \cup {<<r, c, job.at>>} /\ UNCHANGED <<now, rules, events, done, cut>>
      /\ job'.pc = "notify" /\ job.pc = "notify" /\ job'.at = job.at
      /\ job'.toInsert = job.toInsert
      /\ job'.toSend \subseteq job.toSend /\ r \in job.toInsert
      /\ job.at <= now /\ job.at \in Nat /\ now \in Nat
  BY DEF Notify, table, AInv, Shape, JobShape, RInv, SendIsPending
<1>2. SentIsRecorded' /\ SendIsPending'
  BY <1>1 DEF RInv, SentIsRecorded, SendIsPending
<1>3. JobIsNew'
  BY <1>1 DEF RInv, JobIsNew
<1>4. SentIsApart'
  BY <1>1 DEF RInv, SentIsApart, AInv, NextIsApart
<1>. QED
  BY <1>2, <1>3, <1>4 DEF RInv

LEMMA InsertRecorded ==
  ASSUME AInv, RInv, NEW r \in Rule, InsertEvent(r)
  PROVE  RInv'
<1> DEFINE new == [rule |-> r, at |-> job.at, acknowledged |-> FALSE]
<1>1. /\ events' = events \cup {new} /\ UNCHANGED <<now, rules, sent, done, cut>>
      /\ job'.pc = "notify" /\ job.pc = "notify" /\ job'.at = job.at
      /\ job'.toInsert = job.toInsert \ {r} /\ job'.toSend = {}
      /\ job.at \in Nat /\ now \in Nat
      /\ \A n \in sent : n[3] \in Nat
  BY DEF InsertEvent, AInv, Shape, JobShape
<1>2. new.rule = r /\ new.at = job.at
  OBVIOUS
<1> HIDE DEF new
<1>3. SentIsRecorded'
  <2>1. ASSUME NEW n \in sent, n[3] \notin cut
        PROVE  \/ \E e \in events' : e.rule = n[1] /\ e.at = n[3]
               \/ n[1] \in job'.toInsert /\ n[3] = job'.at
    BY <1>1, <1>2, <2>1 DEF RInv, SentIsRecorded
  <2>. QED
    BY <1>1, <2>1 DEF SentIsRecorded
<1>4. SendIsPending' /\ JobIsNew'
  BY <1>1 DEF RInv, SendIsPending, JobIsNew
<1>5. SentIsApart'
  <2>1. \A n \in sent : n[3] <= new.at
    BY <1>1, <1>2 DEF RInv, JobIsNew
  <2>2. ASSUME NEW n \in sent, NEW e \in events', e.rule = n[1], e.rule \in rules,
               e.at < n[3]
        PROVE  n[3] - e.at >= Cooldown
    <3>1. e # new
      BY <1>1, <1>2, <2>1, <2>2
    <3>. QED
      BY <1>1, <2>2, <3>1 DEF RInv, SentIsApart
  <2>. QED
    BY <1>1, <2>2 DEF SentIsApart
<1>. QED
  BY <1>3, <1>4, <1>5 DEF RInv

(* What an evaluation cut short has not recorded is counted with the cut. *)
LEMMA CutRecorded ==
  ASSUME AInv, RInv, CutShort
  PROVE  RInv'
<1>1. /\ cut' = cut \cup (done + 1 .. now) /\ UNCHANGED <<now, rules, events, sent>>
      /\ job' = NoJob /\ done' = now /\ now \in Nat /\ job.at \in Nat /\ done \in Nat
      /\ job.at <= now
  BY DEF CutShort, table, AInv, Shape, JobShape, RInv, JobIsNew
<1>2. job'.pc = "idle" /\ job'.toSend = {}
  BY <1>1 DEF NoJob
<1>3. SentIsRecorded'
  <2>1. ASSUME NEW n \in sent, n[3] \notin cut'
        PROVE  \E e \in events : e.rule = n[1] /\ e.at = n[3]
    <3>1. CASE n[1] \in job.toInsert /\ n[3] = job.at
      <4>1. job.pc = "notify"
        BY <3>1 DEF AInv, JobShape
      <4>2. n[3] \in done + 1 .. now
        BY <1>1, <3>1, <4>1 DEF RInv, JobIsNew
      <4>. QED
        BY <1>1, <2>1, <4>2
    <3>. QED
      BY <1>1, <2>1, <3>1 DEF RInv, SentIsRecorded
  <2>. QED
    BY <1>1, <2>1 DEF SentIsRecorded
<1>4. SendIsPending' /\ JobIsNew' /\ SentIsApart'
  BY <1>1, <1>2 DEF RInv, SendIsPending, JobIsNew, SentIsApart
<1>. QED
  BY <1>3, <1>4 DEF RInv

LEMMA OutsideRecorded ==
  ASSUME AInv, RInv, \/ \E r \in Rule : CreateRule(r) \/ DeleteRule(r)
                     \/ \E e \in events : AcknowledgeEvent(e)
                     \/ Tick
                     \/ UNCHANGED vars
  PROVE  RInv'
<1>1. /\ UNCHANGED <<job, sent, done, cut>> /\ now <= now' /\ now \in Nat /\ now' \in Nat
      /\ rules' \cap issued \subseteq rules
      /\ \A n \in sent : n[1] \in issued /\ n[3] \in Nat
  BY DEF AInv, Shape, CreateRule, DeleteRule, AcknowledgeEvent, Tick, vars, table
<1>2. /\ \A e \in events : \E f \in events' : f.rule = e.rule /\ f.at = e.at
      /\ \A f \in events' : \E e \in events : f.rule = e.rule /\ f.at = e.at
  <2>1. CASE events' = events
    BY <2>1
  <2>2. CASE \E g \in events : AcknowledgeEvent(g)
    <3>1. PICK g \in events :
            events' = (events \ {g}) \cup {[g EXCEPT !.acknowledged = TRUE]}
      BY <2>2 DEF AcknowledgeEvent
    <3>2. [g EXCEPT !.acknowledged = TRUE].rule = g.rule
          /\ [g EXCEPT !.acknowledged = TRUE].at = g.at
      BY DEF AInv, Shape, Event
    <3>. QED
      BY <3>1, <3>2
  <2>. QED
    BY <2>1, <2>2 DEF CreateRule, DeleteRule, Tick, vars, table
<1>3. SentIsRecorded'
  BY <1>1, <1>2 DEF RInv, SentIsRecorded
<1>4. SendIsPending'
  BY <1>1 DEF RInv, SendIsPending
<1>5. JobIsNew'
  BY <1>1 DEF RInv, JobIsNew
<1>6. SentIsApart'
  BY <1>1, <1>2 DEF RInv, SentIsApart
<1>. QED
  BY <1>3, <1>4, <1>5, <1>6 DEF RInv

LEMMA RecordedStep == AInv /\ RInv /\ [Next]_vars => RInv'
<1> SUFFICES ASSUME AInv, RInv, [Next]_vars PROVE RInv'
  OBVIOUS
<1>1. job = [pc |-> job.pc, p |-> job.p, rules |-> job.rules, fired |-> job.fired,
             spent |-> job.spent, at |-> job.at, toSend |-> job.toSend,
             toInsert |-> job.toInsert, toRecord |-> job.toRecord]
      /\ now \in Nat /\ done \in Nat
  BY DEF AInv, Shape, JobShape, RInv, JobIsNew
<1>2. CASE \E p \in PValue : Begin(p)
  <2>1. /\ job.toInsert = {} /\ UNCHANGED <<now, table, sent, cut, done>> /\ done < now
        /\ job'.toSend = {} /\ job'.pc = "history"
    BY <1>2 DEF Begin, NoJob, AInv, JobShape
  <2>. QED
    BY <1>1, <2>1, SettledStep
<1>3. CASE ReadHistory
  <2>1. /\ job.toInsert = {} /\ UNCHANGED <<now, table, sent, cut, done>> /\ done < now
        /\ job'.toSend = {} /\ job'.pc = "evaluate"
    BY <1>1, <1>3 DEF ReadHistory, AInv, JobShape, RInv, JobIsNew
  <2>. QED
    BY <1>1, <2>1, SettledStep
<1>4. CASE Evaluate
  <2>1. /\ job.toInsert = {} /\ UNCHANGED <<now, table, sent, cut, done>> /\ done < now
        /\ job'.pc = "notify" /\ job'.at = now /\ job'.toInsert = Firing
        /\ job'.toSend = {rc \in Firing \X Channel : rc[2] \in ChannelsOf[rc[1]]}
    BY <1>1, <1>4 DEF Evaluate, AInv, JobShape, RInv, JobIsNew
  <2>2. \A rc \in job'.toSend : rc[1] \in job'.toInsert
    BY <2>1
  <2>. QED
    BY <1>1, <2>1, <2>2, SettledStep
<1>5. CASE \E r \in Rule, c \in Channel : Notify(r, c)
  BY <1>5, NotifyRecorded
<1>6. CASE \E r \in Rule : InsertEvent(r)
  BY <1>6, InsertRecorded
<1>7. CASE StartRecording
  <2>1. /\ job.toInsert = {} /\ UNCHANGED <<now, table, sent, cut, done>>
        /\ job'.toSend = {} /\ job'.pc = "record"
    BY <1>1, <1>7 DEF StartRecording, Settled
  <2>. QED
    BY <1>1, <2>1, SettledStep
<1>8. CASE \E r \in Rule : RecordSpend(r)
  <2>1. /\ UNCHANGED <<now, rules, events, sent, cut, done>>
        /\ job'.toSend = job.toSend /\ job'.toInsert = job.toInsert /\ job'.at = job.at
        /\ job'.pc = job.pc
    BY <1>1, <1>8 DEF RecordSpend
  <2>. QED
    BY <2>1 DEF RInv, SentIsRecorded, SendIsPending, JobIsNew, SentIsApart
<1>9. CASE Finish
  <2>1. /\ job.toInsert = {} /\ UNCHANGED <<now, table, sent, cut>> /\ done' \in Nat
        /\ job'.toSend = {} /\ job'.pc = "idle"
    BY <1>1, <1>9 DEF Finish, NoJob, AInv, JobShape
  <2>. QED
    BY <2>1, SettledStep
<1>10. CASE CutShort
  BY <1>10, CutRecorded
<1>11. CASE \/ \E r \in Rule : CreateRule(r) \/ DeleteRule(r)
            \/ \E e \in events : AcknowledgeEvent(e)
            \/ Tick
            \/ UNCHANGED vars
  BY <1>11, OutsideRecorded
<1>. QED
  BY <1>2, <1>3, <1>4, <1>5, <1>6, <1>7, <1>8, <1>9, <1>10, <1>11 DEF Next

(* A notification has its event, or is about to, unless its evaluation was cut short. *)
THEOREM NotificationInvariance == Spec => []RInv
  BY RecordedInit, RecordedStep, AlertInvariance, PTL DEF Spec

(* The cooldown separates the recorded events of a stored rule, whatever evaluations
   are cut short, however rules come and go; and it separates a notification from the
   next, unless the event of the first was lost with its evaluation. *)
THEOREM CooldownHolds == Spec => []CooldownKept
<1>1. AInv /\ RInv => CooldownKept
  <2> SUFFICES ASSUME AInv, RInv, NEW m \in sent, NEW n \in sent, m[1] = n[1],
                      m[1] \in rules, m[3] \notin cut, m[3] < n[3]
               PROVE  n[3] - m[3] >= Cooldown
    BY DEF AInv, CooldownKept, NotificationsApart
  <2>1. m[3] \in Nat /\ n[3] \in Nat
    BY DEF AInv, Shape
  <2>2. CASE \E e \in events : e.rule = m[1] /\ e.at = m[3]
    BY <2>1, <2>2 DEF RInv, SentIsApart
  <2>3. CASE m[1] \in job.toInsert /\ m[3] = job.at
    <3>1. job.pc = "notify"
      BY <2>3 DEF AInv, JobShape
    <3>2. n[3] <= job.at
      BY <3>1 DEF RInv, JobIsNew
    <3>. QED
      BY <2>1, <2>3, <3>2
  <2>. QED
    BY <2>2, <2>3 DEF RInv, SentIsRecorded
<1>. QED
  BY <1>1, AlertInvariance, NotificationInvariance, PTL

(* Every recorded event was tried on every channel of its rule, and every notification
   of an evaluation that was not cut short is recorded once it is over. *)
THEOREM EventsAndNotificationsMatch == Spec => []EventsMatchNotifications
<1>1. AInv /\ RInv => EventsMatchNotifications
  BY DEF AInv, JobShape, RInv, SentIsRecorded, NotificationsAreRecorded,
         EventsMatchNotifications
<1>. QED
  BY <1>1, AlertInvariance, NotificationInvariance, PTL
-----------------------------------------------------------------------------
(* Sums of levels *)

Levels(S) == IsFiniteSet(S) /\ \A x \in S : x.alpha \in Nat

(* A part of a set of debits has levels as the set has. *)
LEMMA LevelsOfPart ==
  ASSUME NEW T, Levels(T), NEW S \in SUBSET T
  PROVE  Levels(S)
BY FS_Subset DEF Levels

(* The total of a part, by the weights of the whole. *)
LEMMA AlphaOfPart ==
  ASSUME NEW T, Levels(T), NEW S \in SUBSET T
  PROVE  Alpha(S) = SumFunctionOnSet([x \in T |-> x.alpha], S)
<1> DEFINE v == [x \in S |-> x.alpha]
           w == [x \in T |-> x.alpha]
<1>1. IsFiniteSet(S) /\ Weights(v, S) /\ Weights(w, S) /\ \A x \in S : v[x] = w[x]
  BY FS_Subset DEF Levels, Weights
<1>2. Alpha(S) = SumFunctionOnSet(v, S)
  <2>1. DOMAIN v = S
    OBVIOUS
  <2>2. Alpha(S) = SumFunction(v)
    BY DEF Alpha
  <2> HIDE DEF v
  <2>. QED BY <2>1, <2>2 DEF SumFunction
<1> HIDE DEF v, w
<1>3. SumFunctionOnSet(v, S) = SumFunctionOnSet(w, S)
  BY <1>1, SumEqual
<1>. QED BY <1>2, <1>3 DEF w

(* No debits, nothing spent. *)
LEMMA AlphaEmpty == Alpha({}) = 0
<1>1. Levels({})
  BY FS_EmptySet DEF Levels
<1>. QED BY <1>1, AlphaOfPart, SumEmpty

(* A level that is spent is not negative, and a part spends no more than the whole. *)
LEMMA AlphaBounds ==
  ASSUME NEW T, Levels(T), NEW S \in SUBSET T
  PROVE  Alpha(S) \in Nat /\ Alpha(T) \in Nat /\ Alpha(S) <= Alpha(T)
<1> DEFINE w == [x \in T |-> x.alpha]
<1>1. IsFiniteSet(T) /\ IsFiniteSet(S) /\ Weights(w, T) /\ Weights(w, S)
      /\ \A x \in T : w[x] \in Nat
  BY FS_Subset DEF Levels, Weights
<1>2. Alpha(S) = SumFunctionOnSet(w, S) /\ Alpha(T) = SumFunctionOnSet(w, T)
  BY AlphaOfPart
<1> HIDE DEF w
<1>3. /\ SumFunctionOnSet(w, S) \in Int /\ SumFunctionOnSet(w, T) \in Int
      /\ 0 <= SumFunctionOnSet(w, S) /\ SumFunctionOnSet(w, S) <= SumFunctionOnSet(w, T)
  BY <1>1, SumType, SumOfSubset
<1>. QED BY <1>2, <1>3

(* One more level adds no more than itself: nothing if it is there already. *)
LEMMA AlphaAdd ==
  ASSUME NEW S, NEW x, Levels(S \cup {x})
  PROVE  Alpha(S \cup {x}) <= x.alpha + Alpha(S)
<1> DEFINE T == S \cup {x}
           w == [y \in T |-> y.alpha]
<1>1. IsFiniteSet(T) /\ IsFiniteSet(S) /\ Weights(w, T) /\ x.alpha \in Nat /\ w[x] = x.alpha
  <2>1. IsFiniteSet(S)
    BY FS_Subset DEF Levels
  <2>. QED BY <2>1 DEF Levels, Weights
<1>2. Alpha(S) = SumFunctionOnSet(w, S) /\ Alpha(T) = SumFunctionOnSet(w, T)
  BY AlphaOfPart
<1>3. Alpha(S) \in Nat
  BY AlphaBounds
<1>4. CASE x \notin S
  <2> HIDE DEF w
  <2>1. SumFunctionOnSet(w, T) = w[x] + SumFunctionOnSet(w, S)
    BY <1>1, <1>4, SumAdd
  <2>. QED BY <1>1, <1>2, <1>3, <2>1
<1>5. CASE x \in S
  <2>1. S \cup {x} = S
    BY <1>5
  <2>2. x.alpha \in Nat
    BY <1>1
  <2>3. Alpha(S) <= x.alpha + Alpha(S)
    BY <1>3, <2>2
  <2> HIDE DEF T, w
  <2>. QED BY <2>1, <2>3
<1>. QED BY <1>4, <1>5

(* Debits with counterparts of their own at the same level spend no more than those. *)
LEMMA AlphaInjection ==
  ASSUME NEW S, NEW T, Levels(S), Levels(T), NEW f \in Injection(S, T),
         \A x \in S : x.alpha = f[x].alpha
  PROVE  Alpha(S) <= Alpha(T)
<1> DEFINE v == [x \in S |-> x.alpha]
           w == [y \in T |-> y.alpha]
<1>1. f \in [S -> T]
  BY DEF Injection
<1>2. /\ IsFiniteSet(S) /\ IsFiniteSet(T) /\ Weights(v, S) /\ \A y \in T : w[y] \in Nat
      /\ \A x \in S : v[x] <= w[f[x]]
  BY <1>1 DEF Levels, Weights
<1>3. Alpha(S) = SumFunctionOnSet(v, S) /\ Alpha(T) = SumFunctionOnSet(w, T)
  BY AlphaOfPart
<1> HIDE DEF v, w
<1>. QED BY <1>2, <1>3, SumInjection
-----------------------------------------------------------------------------
(* The budget *)

(* The ranges of what is tested and debited. *)
BudgetShape ==
  /\ IsFiniteSet(rules) /\ IsFiniteSet(job.rules)
  /\ \A r \in Rule : ledger[r] \subseteq Debit /\ IsFiniteSet(ledger[r])
  /\ ledger \in [Rule -> SUBSET Debit]
  /\ looks \subseteq Look /\ IsFiniteSet(looks)
  /\ \A l \in looks : l.alpha > 0
  /\ job.spent \in [Rule -> Nat] /\ job.toRecord \in [Rule -> Nat]
  /\ job.pc \notin {"notify", "record"} => \A r \in Rule : job.toRecord[r] = 0

(* An evaluation is later than what those before it have tested and debited, and tests
   each rule once. *)
Times ==
  /\ done \in Nat /\ done <= now
  /\ job.pc \in {"history", "evaluate"} => done < now
  /\ job.pc \in {"notify", "record"} => done < job.at
  /\ \A r \in Rule : \A d \in ledger[r] : d.at <= now /\ (job.pc # "record" => d.at <= done)
  /\ \A l \in looks : l.at <= done \/ (job.pc \in {"notify", "record"} /\ l.at <= job.at)
  /\ \A k, l \in looks : k.rule = l.rule /\ k.at = l.at => k = l
  /\ \A k, l \in looks : k.at > done /\ l.at > done => k.at = l.at

Recent(r, t) == {d \in ledger[r] : d.at >= t - Window}

(* No debit that counts at the decision is missing from what was read. *)
SpentIsFresh ==
  job.pc = "evaluate" => \A r \in job.rules : Alpha(Recent(r, now)) <= job.spent[r]

(* A debit yet to be recorded fits in with those in the window at its time. *)
RoomIsLeft ==
  \A r \in Rule : job.toRecord[r] > 0 =>
    job.toRecord[r] + Alpha(Recent(r, IF job.pc = "record" THEN job.at ELSE now))
      <= AlphaBudget

(* The debit of a look is recorded after it and before the next look at its rule. *)
DebitOf(l, d) ==
  /\ d.alpha = l.alpha /\ l.at <= d.at
  /\ \A m \in looks : m.rule = l.rule /\ m.at > l.at => m.at > d.at

(* A look of an evaluation not cut short is yet to be debited, has left the window, or
   has a debit of its own. *)
LooksAreDebited ==
  AlphaBudget > 0 =>
    \A l \in looks : l.at \notin cut =>
      \/ l.at > done /\ job.toRecord[l.rule] = l.alpha
      \/ l.at < now - Window
      \/ \E d \in ledger[l.rule] : DebitOf(l, d)

BInv ==
  /\ BudgetShape /\ Times
  /\ SpentIsFresh /\ RoomIsLeft /\ LooksAreDebited
  /\ LooksWithinBudget /\ LedgerWithinBudget

\* The looks that count with l: those of its rule in the window that ends with it.
InWindow(l) ==
  {k \in looks : /\ k.rule = l.rule /\ k.at \notin cut
                 /\ k.at <= l.at /\ k.at >= l.at - Window}

(* All looks have a level ... *)
LEMMA LookLevels == ASSUME BudgetShape PROVE Levels(looks)
BY DEF BudgetShape, Levels, Look

(* ... and all debits. *)
LEMMA LedgerLevels == ASSUME BudgetShape, NEW r \in Rule PROVE Levels(ledger[r])
BY DEF BudgetShape, Levels, Debit

(* At first nothing is debited. *)
LEMMA BudgetInit == Init => BInv
<1> SUFFICES ASSUME Init PROVE BInv
  OBVIOUS
<1>1. /\ \A r \in Rule : ledger[r] = {}
      /\ rules = {} /\ job.rules = {} /\ ledger = [r \in Rule |-> {}] /\ looks = {} /\ done = 0 /\ now = 1
      /\ job.pc = "idle" /\ job.spent = [r \in Rule |-> 0]
      /\ job.toRecord = [r \in Rule |-> 0]
  BY DEF Init, NoJob
<1>2. BudgetShape /\ Times
  BY <1>1, FS_EmptySet DEF BudgetShape, Times
<1>3. SpentIsFresh /\ RoomIsLeft /\ LooksAreDebited /\ LooksWithinBudget
  BY <1>1 DEF SpentIsFresh, RoomIsLeft, LooksAreDebited, LooksWithinBudget
<1>4. LedgerWithinBudget
  BY <1>1, AlphaEmpty, AlertAssumption DEF LedgerWithinBudget
<1>. QED BY <1>2, <1>3, <1>4 DEF BInv

(* Rules stay tested within the budget in a step that tests none. *)
LEMMA SameLooks ==
  ASSUME BInv, UNCHANGED looks, cut \subseteq cut'
  PROVE  LooksWithinBudget'
<1>1. ASSUME AlphaBudget > 0, NEW l \in looks PROVE Alpha(InWindow(l)') <= AlphaBudget
  <2>1. Alpha(InWindow(l)) <= AlphaBudget
    BY <1>1 DEF BInv, LooksWithinBudget, InWindow
  <2>2. InWindow(l)' \subseteq InWindow(l) /\ InWindow(l) \subseteq looks
    BY DEF InWindow
  <2>3. Levels(InWindow(l))
    BY <2>2, LookLevels, LevelsOfPart DEF BInv
  <2>4. Alpha(InWindow(l)') <= Alpha(InWindow(l)) /\ Alpha(InWindow(l)') \in Nat
        /\ Alpha(InWindow(l)) \in Nat
    BY <2>2, <2>3, AlphaBounds
  <2>. QED BY <2>1, <2>4, AlertAssumption
<1>. QED BY <1>1 DEF LooksWithinBudget, InWindow

(* A step that neither looks nor debits keeps the budget. *)
LEMMA BudgetUnchanged ==
  ASSUME BInv, UNCHANGED <<ledger, looks>>, cut \subseteq cut'
  PROVE  LooksWithinBudget' /\ LedgerWithinBudget'
<1>1. LedgerWithinBudget'
  BY DEF BInv, LedgerWithinBudget
<1>. QED BY <1>1, SameLooks

(* What counts of the ledger at a time is finite, and no more later than earlier. *)
LEMMA RecentShrinks ==
  ASSUME BInv, NEW r \in Rule, NEW s \in Int, NEW t \in Int, s <= t
  PROVE  /\ Alpha(Recent(r, s)) \in Nat /\ Alpha(Recent(r, t)) \in Nat
         /\ Alpha(Recent(r, t)) <= Alpha(Recent(r, s))
         /\ Levels(Recent(r, s))
<1>1. Recent(r, s) \subseteq ledger[r] /\ Recent(r, t) \subseteq Recent(r, s)
  <2>1. \A d \in ledger[r] : d.at \in Int
    BY DEF BInv, BudgetShape, Debit
  <2>2. Window \in Int
    BY AlertAssumption
  <2>. QED BY <2>1, <2>2 DEF Recent
<1>2. Levels(Recent(r, s))
  BY <1>1, LedgerLevels, LevelsOfPart DEF BInv
<1>. QED BY <1>1, <1>2, AlphaBounds
(* An evaluation that begins or reads has tested nothing yet. *)
LEMMA BeginBudget ==
  ASSUME AInv, BInv, ReadHistory \/ \E p \in PValue : Begin(p)
  PROVE  BInv'
<1>1. /\ UNCHANGED <<rules, ledger, looks, done, cut, now>> /\ done < now
      /\ job'.rules \in {rules, job.rules}
      /\ job.pc \in {"idle", "history"} /\ job'.pc \in {"history", "evaluate"}
  BY DEF ReadHistory, Begin, NoJob, table, AInv, JobShape, BInv, Times
<1>2. /\ job'.spent \in [Rule -> Nat] /\ job'.toRecord \in [Rule -> Nat]
      /\ \A r \in Rule : job'.toRecord[r] = 0
      /\ job'.pc = "evaluate" => \A r \in job'.rules : Alpha(Recent(r, now)) <= job'.spent[r]
  <2>1. CASE ReadHistory
    <3>1. /\ job'.toRecord = job.toRecord /\ job'.rules = job.rules
          /\ job'.spent = [r \in Rule |-> IF AlphaBudget > 0 /\ r \in job.rules
                                          THEN SpentInWindow(r) ELSE 0]
      BY <2>1 DEF ReadHistory, AInv, JobShape
    <3>2. \A r \in Rule : SpentInWindow(r) = Alpha(Recent(r, now)) /\ SpentInWindow(r) \in Nat
      <4>1. \A r \in Rule : Alpha(Recent(r, now)) \in Nat
        BY RecentShrinks DEF AInv, Shape
      <4>. QED BY <4>1 DEF SpentInWindow, Recent
    <3>3. ASSUME NEW r \in job.rules PROVE Alpha(Recent(r, now)) <= job'.spent[r]
      <4>1. r \in Rule
        BY DEF AInv, Shape, JobShape
      <4>2. CASE AlphaBudget > 0
        BY <3>1, <3>2, <4>1, <4>2
      <4>3. CASE AlphaBudget = 0
        <5>1. Recent(r, now) \in SUBSET ledger[r] /\ Levels(ledger[r])
          BY <4>1, LedgerLevels DEF Recent, BInv
        <5>2. Alpha(Recent(r, now)) \in Nat /\ Alpha(ledger[r]) \in Nat
              /\ Alpha(Recent(r, now)) <= Alpha(ledger[r])
          BY <5>1, AlphaBounds
        <5>3. Alpha(ledger[r]) <= 0
          BY <4>1, <4>3 DEF BInv, LedgerWithinBudget
        <5>4. job'.spent[r] = 0
          BY <3>1, <4>1, <4>3
        <5>. QED BY <5>2, <5>3, <5>4
      <4>. QED BY <4>2, <4>3, AlertAssumption
    <3>4. \A r \in Rule : job'.toRecord[r] = 0
      BY <1>1, <3>1 DEF BInv, BudgetShape
    <3>. QED BY <3>1, <3>2, <3>3, <3>4 DEF BInv, BudgetShape
  <2>2. CASE \E p \in PValue : Begin(p)
    <3>1. /\ job'.spent = [r \in Rule |-> 0] /\ job'.toRecord = [r \in Rule |-> 0]
          /\ job'.pc = "history"
      BY <2>2 DEF Begin, NoJob
    <3>. QED BY <3>1
  <2>. QED BY <2>1, <2>2
<1>3. BudgetShape' /\ Times'
  BY <1>1, <1>2 DEF BInv, BudgetShape, Times
<1>4. SpentIsFresh' /\ RoomIsLeft'
  BY <1>1, <1>2 DEF SpentIsFresh, RoomIsLeft, Recent
<1>5. LooksAreDebited'
  BY <1>1 DEF BInv, Times, BudgetShape, Look, LooksAreDebited, DebitOf
<1>. QED BY <1>1, <1>3, <1>4, <1>5, BudgetUnchanged DEF BInv

(* What a rule is tested at now and what its other looks in the window were tested at
   is within the budget: they have debits of their own among those that were read. *)
LEMMA LevelFits ==
  ASSUME AInv, BInv, Evaluate, AlphaBudget > 0, NEW r \in Looked, EffectiveAlpha(r) > 0,
         NEW K, K = {k \in looks : k.rule = r /\ k.at \notin cut /\ k.at >= now - Window}
  PROVE  /\ Alpha(K) + EffectiveAlpha(r) <= AlphaBudget
         /\ Alpha(Recent(r, now)) + EffectiveAlpha(r) <= AlphaBudget
         /\ Alpha(K) \in Nat /\ Alpha(Recent(r, now)) \in Nat
<1>1. /\ r \in Rule /\ r \in job.rules /\ job.pc = "evaluate"
      /\ now \in Nat /\ done \in Nat /\ done < now /\ AlphaBudget \in Nat /\ Window \in Nat
  BY AlertAssumption DEF Looked, Evaluate, AInv, Shape, JobShape, BInv, Times
<1>2. /\ Alpha(Recent(r, now)) \in Nat /\ Levels(Recent(r, now))
      /\ Alpha(Recent(r, now)) <= job.spent[r] /\ job.spent[r] \in Nat
  <2>1. Alpha(Recent(r, now)) \in Nat /\ Levels(Recent(r, now))
    BY <1>1, RecentShrinks
  <2>2. Alpha(Recent(r, now)) <= job.spent[r]
    BY <1>1 DEF BInv, SpentIsFresh
  <2>. QED BY <1>1, <2>1, <2>2 DEF BInv, BudgetShape
<1>3. job.spent[r] + EffectiveAlpha(r) <= AlphaBudget /\ EffectiveAlpha(r) \in Nat
  <2>1. TargetFpr[r] \in Nat
    BY <1>1, AlertAssumption
  <2>. QED BY <1>1, <1>2, <2>1 DEF EffectiveAlpha
<1>4. \A k \in K : /\ k \in looks /\ k.at \in Nat
                   /\ \E d \in ledger[r] : DebitOf(k, d)
  BY <1>1 DEF BInv, LooksAreDebited, BudgetShape, Times, Look
<1> DEFINE f == [k \in K |-> CHOOSE d \in ledger[r] : DebitOf(k, d)]
<1>5. \A k \in K : f[k] \in ledger[r] /\ DebitOf(k, f[k])
  BY <1>4
<1>6. f \in [K -> Recent(r, now)]
  <2>1. \A k \in K : f[k] \in ledger[r] /\ k.at <= f[k].at /\ k.at >= now - Window
    BY <1>5 DEF DebitOf
  <2>2. \A d \in ledger[r] : d.at \in Nat
    BY <1>1 DEF BInv, BudgetShape, Debit
  <2>3. \A k \in K : f[k] \in Recent(r, now)
    <3> HIDE DEF f
    <3>. QED BY <1>1, <1>4, <2>1, <2>2 DEF Recent
  <2>. QED BY <2>3
<1>7. ASSUME NEW k \in K, NEW l \in K, k # l, f[k] = f[l] PROVE FALSE
  <2>1. k \in looks /\ l \in looks /\ k.rule = r /\ l.rule = r /\ k.at \in Nat /\ l.at \in Nat
    BY <1>4
  <2>2. k.at # l.at
    BY <1>7, <2>1 DEF BInv, Times
  <2>3. /\ k.at <= f[k].at /\ (l.at > k.at => l.at > f[k].at)
        /\ l.at <= f[l].at /\ (k.at > l.at => k.at > f[l].at)
    <3> HIDE DEF f
    <3>. QED BY <1>5, <2>1 DEF DebitOf
  <2>4. f[k].at \in Nat
    <3> HIDE DEF f
    <3>. QED BY <1>1, <1>5 DEF BInv, BudgetShape, Debit
  <2> HIDE DEF f
  <2>. QED BY <1>7, <2>1, <2>2, <2>3, <2>4
<1>8. f \in Injection(K, Recent(r, now))
  <2> HIDE DEF f
  <2>. QED BY <1>6, <1>7 DEF Injection, IsInjective
<1>9. Levels(K) /\ \A k \in K : k.alpha = f[k].alpha
  <2>1. K \in SUBSET looks
    OBVIOUS
  <2>2. Levels(K)
    BY <2>1, LookLevels, LevelsOfPart DEF BInv
  <2> HIDE DEF f
  <2>. QED BY <1>5, <2>2 DEF DebitOf
<1>10. Alpha(K) <= Alpha(Recent(r, now)) /\ Alpha(K) \in Nat
  <2> HIDE DEF f
  <2>1. Alpha(K) <= Alpha(Recent(r, now))
    BY <1>2, <1>8, <1>9, AlphaInjection
  <2>2. Alpha(K) \in Nat
    BY <1>9, AlphaBounds
  <2>. QED BY <2>1, <2>2
<1>. QED BY <1>1, <1>2, <1>3, <1>10

(* A look made now counts with those of K only, and an earlier one with none made now. *)
LEMMA EvaluateLooks ==
  ASSUME AInv, BInv, Evaluate, AlphaBudget > 0, NEW l \in looks'
  PROVE  Alpha(InWindow(l)') <= AlphaBudget
<1> DEFINE r == l.rule
           K == {k \in looks : k.rule = r /\ k.at \notin cut /\ k.at >= now - Window}
<1>1. /\ job.pc = "evaluate" /\ cut' = cut /\ now \in Nat /\ done \in Nat /\ done < now
      /\ looks' = looks \cup {[rule |-> q, at |-> now, alpha |-> EffectiveAlpha(q)] :
                                q \in {q \in Looked : EffectiveAlpha(q) > 0}}
      /\ AlphaBudget \in Nat /\ Window \in Nat
  BY AlertAssumption DEF Evaluate, AInv, Shape, BInv, Times
<1>2. \A k \in looks : k.at \in Nat /\ k.at <= done
  BY <1>1 DEF BInv, BudgetShape, Times, Look
<1>3. CASE l \in looks
  <2>1. InWindow(l)' = InWindow(l)
    BY <1>1, <1>2, <1>3 DEF InWindow
  <2>. QED BY <1>3, <2>1 DEF BInv, LooksWithinBudget, InWindow
<1>4. CASE l \notin looks
  <2>1. /\ r \in Looked /\ EffectiveAlpha(r) > 0
        /\ l = [rule |-> r, at |-> now, alpha |-> EffectiveAlpha(r)]
    BY <1>1, <1>4
  <2>2. /\ Alpha(K) + EffectiveAlpha(r) <= AlphaBudget /\ Alpha(K) \in Nat
        /\ EffectiveAlpha(r) \in Nat
    <3>1. Alpha(K) + EffectiveAlpha(r) <= AlphaBudget /\ Alpha(K) \in Nat
      BY <2>1, LevelFits
    <3>2. EffectiveAlpha(r) \in Nat
      BY <2>1, AlertAssumption DEF EffectiveAlpha, Looked, BInv, BudgetShape
    <3>. QED BY <3>1, <3>2
  <2>3. InWindow(l)' \subseteq K \cup {l}
    <3>1. \A k \in looks' : k \in looks \/ (k.at = now /\ k.alpha = EffectiveAlpha(k.rule)
                                           /\ k = [rule |-> k.rule, at |-> now,
                                                   alpha |-> EffectiveAlpha(k.rule)])
      BY <1>1
    <3>2. \A k \in InWindow(l)' : k \in looks' /\ k.rule = r /\ k.at \notin cut
                                  /\ k.at >= now - Window
      BY <1>1, <2>1 DEF InWindow
    <3>. QED BY <2>1, <3>1, <3>2
  <2>4. Levels(K \cup {l})
    <3>1. K \in SUBSET looks
      OBVIOUS
    <3>2. Levels(K)
      BY <3>1, LookLevels, LevelsOfPart DEF BInv
    <3>3. IsFiniteSet(K \cup {l})
      BY <3>2, FS_AddElement DEF Levels
    <3>. QED BY <2>1, <2>2, <3>2, <3>3 DEF Levels
  <2> HIDE DEF K
  <2>5. Alpha(K \cup {l}) <= l.alpha + Alpha(K) /\ l.alpha = EffectiveAlpha(r)
    BY <2>1, <2>4, AlphaAdd
  <2>6. Alpha(InWindow(l)') <= Alpha(K \cup {l}) /\ Alpha(InWindow(l)') \in Nat
        /\ Alpha(K \cup {l}) \in Nat
    BY <2>3, <2>4, AlphaBounds
  <2>. QED BY <1>1, <2>2, <2>5, <2>6
<1>. QED BY <1>3, <1>4

(* effective_alpha: a level is claimed of what the debits in the window leave. *)
LEMMA EvaluateBudget ==
  ASSUME AInv, BInv, Evaluate
  PROVE  BInv'
<1>1. /\ job.pc = "evaluate" /\ UNCHANGED <<ledger, done, cut, now>>
      /\ now \in Nat /\ done \in Nat /\ done < now
      /\ looks' = looks \cup {[rule |-> q, at |-> now, alpha |-> EffectiveAlpha(q)] :
                                q \in {q \in Looked : EffectiveAlpha(q) > 0}}
      /\ job'.pc = "notify" /\ job'.at = now /\ job'.spent = job.spent
      /\ job'.toRecord = [q \in Rule |-> Spend(q)]
  BY DEF Evaluate, AInv, Shape, JobShape, BInv, Times, table
<1>2. /\ Looked \subseteq Rule /\ \A q \in Rule : EffectiveAlpha(q) \in Nat /\ Spend(q) \in Nat
      /\ AlphaBudget \in Nat /\ Window \in Nat
  BY AlertAssumption DEF EffectiveAlpha, Looked, Spend, BInv, BudgetShape
<1> DEFINE N == {[rule |-> q, at |-> now, alpha |-> EffectiveAlpha(q)] :
                    q \in {q \in Looked : EffectiveAlpha(q) > 0}}
<1>3. /\ looks' = looks \cup N /\ N \subseteq Look
      /\ \A l \in N : /\ l.at = now /\ l.alpha > 0 /\ l.alpha = EffectiveAlpha(l.rule)
                      /\ l.rule \in Looked
                      /\ l = [rule |-> l.rule, at |-> now, alpha |-> EffectiveAlpha(l.rule)]
      /\ \A l \in looks : l.at \in Nat /\ l.at <= done
  <2>1. \A l \in looks : l.at \in Nat /\ l.at <= done
    BY <1>1 DEF BInv, BudgetShape, Times, Look
  <2>2. \A l \in N : /\ l.at = now /\ l.alpha > 0 /\ l.alpha = EffectiveAlpha(l.rule)
                     /\ l.rule \in Looked
                     /\ l = [rule |-> l.rule, at |-> now, alpha |-> EffectiveAlpha(l.rule)]
    BY <1>1, <1>2
  <2>3. N \subseteq Look
    BY <1>1, <1>2 DEF Look
  <2>. QED BY <1>1, <2>1, <2>2, <2>3
<1>4. IsFiniteSet(looks')
  <2> DEFINE Q == {q \in Looked : EffectiveAlpha(q) > 0}
             g == [q \in Q |-> [rule |-> q, at |-> now, alpha |-> EffectiveAlpha(q)]]
  <2>1. IsFiniteSet(Q) /\ IsFiniteSet(looks)
    <3>1. Q \in SUBSET job.rules
      BY DEF Looked
    <3>. QED BY <3>1, FS_Subset DEF BInv, BudgetShape
  <2>2. g \in Surjection(Q, N)
    BY DEF Surjection
  <2> HIDE DEF Q, g, N
  <2>3. IsFiniteSet(N)
    BY <2>1, <2>2, FS_Surjection
  <2>. QED BY <1>3, <2>1, <2>3, FS_Union
<1> HIDE DEF N
<1>5. BudgetShape'
  BY <1>1, <1>2, <1>3, <1>4 DEF BInv, BudgetShape, Evaluate, table
<1>6. Times'
  <2>1. \A k, l \in looks' : k.rule = l.rule /\ k.at = l.at => k = l
    BY <1>1, <1>3 DEF BInv, Times
  <2>2. \A k, l \in looks' : k.at > done /\ l.at > done => k.at = l.at
    BY <1>1, <1>3
  <2>3. \A r \in Rule : \A d \in ledger[r] : d.at <= now /\ d.at <= done
    BY <1>1 DEF BInv, Times
  <2>4. \A l \in looks' : l.at <= now
    BY <1>1, <1>3
  <2>. QED BY <1>1, <2>1, <2>2, <2>3, <2>4 DEF Times
<1>7. SpentIsFresh' /\ RoomIsLeft'
  <2>1. ASSUME NEW r \in Rule, Spend(r) > 0
        PROVE  Spend(r) + Alpha(Recent(r, now)) <= AlphaBudget
    <3>1. AlphaBudget > 0 /\ r \in Looked /\ Spend(r) = EffectiveAlpha(r)
      BY <2>1 DEF Spend
    <3> DEFINE K == {k \in looks : k.rule = r /\ k.at \notin cut /\ k.at >= now - Window}
    <3>2. Alpha(Recent(r, now)) + EffectiveAlpha(r) <= AlphaBudget
          /\ Alpha(Recent(r, now)) \in Nat
      BY <2>1, <3>1, LevelFits
    <3>. QED BY <1>2, <3>1, <3>2
  <2>. QED BY <1>1, <2>1 DEF SpentIsFresh, RoomIsLeft, Recent
<1>8. LooksAreDebited'
  <2> SUFFICES ASSUME AlphaBudget > 0, NEW l \in looks', l.at \notin cut
               PROVE  \/ l.at > done /\ job'.toRecord[l.rule] = l.alpha
                      \/ l.at < now - Window
                      \/ \E d \in ledger[l.rule] : DebitOf(l, d)'
    BY <1>1 DEF LooksAreDebited, DebitOf
  <2>1. CASE l \in N
    BY <1>1, <1>2, <1>3, <2>1 DEF Spend
  <2>2. CASE l \in looks /\ ~(l.at < now - Window)
    <3>1. l.at <= done /\ l.rule \in Rule
      BY <1>3, <2>2 DEF BInv, BudgetShape, Look
    <3>2. PICK d \in ledger[l.rule] : DebitOf(l, d)
      BY <1>1, <1>3, <2>2, <3>1 DEF BInv, LooksAreDebited
    <3>3. d.at <= done /\ d.at \in Nat
      BY <1>1, <3>1 DEF BInv, Times, BudgetShape, Debit
    <3>4. \A m \in looks' : m.rule = l.rule /\ m.at > l.at => m.at > d.at
      BY <1>1, <1>3, <3>2, <3>3 DEF DebitOf
    <3>. QED BY <3>2, <3>4 DEF DebitOf
  <2>. QED BY <1>3, <2>1, <2>2
<1>9. LooksWithinBudget'
  BY EvaluateLooks DEF LooksWithinBudget, InWindow
<1>10. LedgerWithinBudget'
  BY <1>1 DEF BInv, LedgerWithinBudget
<1>. QED BY <1>5, <1>6, <1>7, <1>8, <1>9, <1>10 DEF BInv


(* The steps that send and write events, and the step that begins to record: what is
   tested and debited is as it was, and at most the time of the evaluation goes on. *)
LEMMA NotifyBudget ==
  ASSUME AInv, BInv,
         \/ \E r \in Rule, c \in Channel : Notify(r, c)
         \/ \E r \in Rule : InsertEvent(r)
         \/ StartRecording
  PROVE  BInv'
<1>1. /\ UNCHANGED <<rules, ledger, looks, done, cut, now>>
      /\ job'.spent = job.spent /\ job'.toRecord = job.toRecord /\ job'.rules = job.rules
      /\ job.pc = "notify" /\ job.at <= now /\ job.at \in Nat /\ now \in Nat
      /\ \/ job'.pc = "notify" /\ job'.at = job.at
         \/ job'.pc = "record" /\ job'.at = now
  BY DEF Notify, InsertEvent, StartRecording, table, AInv, Shape, JobShape
<1>2. /\ done \in Nat /\ \A l \in looks : l.at \in Nat
      /\ \A r \in Rule : \A d \in ledger[r] : d.at <= now /\ d.at <= done
  BY <1>1 DEF BInv, Times, BudgetShape, Look
<1>3. BudgetShape'
  BY <1>1 DEF BInv, BudgetShape
<1>4. Times'
  BY <1>1, <1>2 DEF BInv, Times
<1>5. SpentIsFresh' /\ RoomIsLeft'
  BY <1>1 DEF BInv, SpentIsFresh, RoomIsLeft, Recent
<1>6. LooksAreDebited'
  BY <1>1 DEF BInv, LooksAreDebited, DebitOf
<1>. QED BY <1>1, <1>3, <1>4, <1>5, <1>6, BudgetUnchanged DEF BInv

(* A debit that is recorded takes the place of what it prunes, within the budget, and
   becomes the debit of the look it is for. *)
LEMMA RecordBudget ==
  ASSUME AInv, BInv, NEW r \in Rule, RecordSpend(r)
  PROVE  BInv'
<1> DEFINE new == [at |-> job.at, alpha |-> job.toRecord[r]]
<1>1. /\ UNCHANGED <<rules, looks, done, cut, now>>
      /\ job.pc = "record" /\ job'.pc = "record" /\ job'.at = job.at
      /\ job'.spent = job.spent /\ job'.rules = job.rules
      /\ job'.toRecord = [job.toRecord EXCEPT ![r] = 0]
      /\ ledger' = [ledger EXCEPT ![r] = Debited(@, job.at, job.toRecord[r])]
      /\ job.toRecord[r] > 0 /\ job.toRecord[r] \in Nat /\ job.toRecord \in [Rule -> Nat]
      /\ job.at \in Nat /\ job.at <= now /\ now \in Nat /\ done \in Nat /\ done < job.at
      /\ ledger \in [Rule -> SUBSET Debit] /\ Window \in Nat /\ AlphaBudget \in Nat
  BY AlertAssumption
     DEF RecordSpend, AInv, Shape, JobShape, BInv, BudgetShape, Times
<1>2. /\ \A q \in Rule : q # r => ledger'[q] = ledger[q] /\ job'.toRecord[q] = job.toRecord[q]
      /\ ledger'[r] = Recent(r, job.at) \cup {new}
      /\ job'.toRecord[r] = 0
      /\ new \in Debit
  <2>1. ledger'[r] = {d \in ledger[r] \cup {new} : d.at >= job.at - Window}
    BY <1>1 DEF Debited
  <2>2. new.at >= job.at - Window
    BY <1>1
  <2>3. ledger'[r] = Recent(r, job.at) \cup {new}
    BY <2>1, <2>2 DEF Recent
  <2>4. new \in Debit
    BY <1>1 DEF Debit
  <2>. QED BY <1>1, <2>3, <2>4
<1>3. /\ Levels(Recent(r, job.at)) /\ Alpha(Recent(r, job.at)) \in Nat
      /\ Recent(r, job.at) \subseteq ledger[r]
  <2>1. job.at \in Int /\ job.at <= job.at
    BY <1>1
  <2>2. Levels(Recent(r, job.at)) /\ Alpha(Recent(r, job.at)) \in Nat
    BY <2>1, RecentShrinks
  <2>. QED BY <2>2 DEF Recent
<1>4. IsFiniteSet(ledger'[r])
  BY <1>2, <1>3, FS_AddElement DEF Levels
<1>5. BudgetShape'
  <2>1. \A q \in Rule : ledger'[q] \subseteq Debit /\ IsFiniteSet(ledger'[q])
    BY <1>1, <1>2, <1>3, <1>4 DEF BInv, BudgetShape
  <2>2. ledger' \in [Rule -> SUBSET Debit]
    BY <1>1, <2>1
  <2>3. job'.toRecord \in [Rule -> Nat]
    BY <1>1
  <2>. QED BY <1>1, <2>1, <2>2, <2>3 DEF BInv, BudgetShape
<1>6. Times'
  <2>1. \A q \in Rule : \A d \in ledger'[q] : d.at <= now
    BY <1>1, <1>2, <1>3 DEF BInv, Times
  <2>. QED BY <1>1, <2>1 DEF BInv, Times
<1>7. SpentIsFresh'
  BY <1>1 DEF SpentIsFresh
<1>8. RoomIsLeft'
  <2>1. ASSUME NEW q \in Rule, job'.toRecord[q] > 0
        PROVE  job'.toRecord[q] + Alpha(Recent(q, job.at)') <= AlphaBudget
    <3>1. q # r
      BY <1>2, <2>1
    <3>2. Recent(q, job.at)' = Recent(q, job.at) /\ job'.toRecord[q] = job.toRecord[q]
      BY <1>1, <1>2, <3>1 DEF Recent
    <3>. QED BY <1>1, <2>1, <3>2 DEF BInv, RoomIsLeft
  <2>. QED BY <1>1, <2>1 DEF RoomIsLeft, Recent
<1>9. LooksAreDebited'
  <2> SUFFICES ASSUME AlphaBudget > 0, NEW l \in looks, l.at \notin cut
               PROVE  \/ l.at > done /\ job'.toRecord[l.rule] = l.alpha
                      \/ l.at < now - Window
                      \/ \E d \in ledger'[l.rule] : DebitOf(l, d)
    BY <1>1 DEF LooksAreDebited, DebitOf
  <2>1. l \in Look
    BY DEF BInv, BudgetShape
  <2>2. CASE l.rule # r
    BY <1>2, <2>1, <2>2 DEF Look, BInv, LooksAreDebited
  <2>3. CASE l.rule = r /\ l.at > done /\ job.toRecord[l.rule] = l.alpha
    <3>1. l.at <= job.at /\ l.at \in Nat
      BY <1>1, <2>1, <2>3 DEF BInv, Times, Look
    <3>2. \A m \in looks : m.rule = r => ~(m.at > l.at)
      BY <1>1, <2>1, <2>3, <3>1 DEF BInv, Times, BudgetShape, Look
    <3>3. DebitOf(l, new)
      BY <2>3, <3>1, <3>2 DEF DebitOf
    <3>. QED BY <1>2, <2>3, <3>3
  <2>4. CASE l.rule = r /\ ~(l.at < now - Window) /\ \E d \in ledger[l.rule] : DebitOf(l, d)
    <3>1. PICK d \in ledger[r] : DebitOf(l, d)
      BY <2>4
    <3>2. d.at >= l.at /\ d.at \in Nat /\ l.at \in Nat
      BY <1>1, <2>1, <3>1 DEF DebitOf, Debit, Look
    <3>3. d.at >= job.at - Window
      BY <1>1, <2>4, <3>2
    <3>. QED BY <1>2, <2>4, <3>1, <3>3 DEF Recent
  <2>. QED BY <2>2, <2>3, <2>4 DEF BInv, LooksAreDebited
<1>10. LedgerWithinBudget'
  <2>1. Alpha(ledger'[r]) <= job.toRecord[r] + Alpha(Recent(r, job.at))
    <3>1. Levels(Recent(r, job.at) \cup {new})
      BY <1>2, <1>4, <1>5 DEF Levels, BudgetShape, Debit
    <3> DEFINE S == Recent(r, job.at)
    <3> HIDE DEF S
    <3>2. Alpha(S \cup {new}) <= new.alpha + Alpha(S)
      BY <3>1, AlphaAdd DEF S
    <3>. QED BY <1>2, <3>2 DEF S
  <2>2. Alpha(ledger'[r]) \in Nat
    <3>1. Levels(ledger'[r])
      BY <1>4, <1>5 DEF Levels, BudgetShape, Debit
    <3>. QED BY <3>1, AlphaBounds
  <2>3. job.toRecord[r] + Alpha(Recent(r, job.at)) <= AlphaBudget
    BY <1>1 DEF BInv, RoomIsLeft
  <2>4. Alpha(ledger'[r]) <= AlphaBudget
    BY <1>1, <1>3, <2>1, <2>2, <2>3
  <2>. QED BY <1>2, <2>4 DEF BInv, LedgerWithinBudget
<1>. QED BY <1>1, <1>5, <1>6, <1>7, <1>8, <1>9, <1>10, SameLooks DEF BInv

(* An evaluation that ends leaves no debit to record, or the times of what it has not
   recorded among those cut short. *)
LEMMA EndBudget ==
  ASSUME AInv, BInv, Finish \/ CutShort
  PROVE  BInv'
<1>1. /\ UNCHANGED <<rules, ledger, looks, now>> /\ done' = now
      /\ job'.pc = "idle" /\ job'.rules = {}
      /\ job'.spent = [r \in Rule |-> 0] /\ job'.toRecord = [r \in Rule |-> 0]
      /\ cut \subseteq cut'
      /\ now \in Nat /\ done \in Nat /\ done <= now /\ job.at <= now /\ job.at \in Nat
  BY DEF Finish, CutShort, NoJob, table, AInv, Shape, JobShape, BInv, Times
<1>2. /\ \A l \in looks : l \in Look /\ l.at <= now /\ l.alpha > 0
      /\ \A r \in Rule : \A d \in ledger[r] : d.at <= now
  BY <1>1 DEF BInv, BudgetShape, Times, Look
<1>3. BudgetShape'
  BY <1>1, FS_EmptySet DEF BInv, BudgetShape
<1>4. Times'
  BY <1>1, <1>2 DEF BInv, Times, Look
<1>5. SpentIsFresh' /\ RoomIsLeft'
  BY <1>1 DEF SpentIsFresh, RoomIsLeft
<1>6. ASSUME NEW l \in looks, l.at \notin cut', l.at > done, job.toRecord[l.rule] = l.alpha
      PROVE  FALSE
  <2>1. l.rule \in Rule /\ l.at \in Nat /\ l.alpha > 0 /\ l.alpha \in Nat /\ l.at <= now
    BY <1>2 DEF Look
  <2>2. CASE Finish
    BY <1>6, <2>1, <2>2 DEF Finish
  <2>3. CASE CutShort
    BY <1>1, <1>6, <2>1, <2>3 DEF CutShort
  <2>. QED BY <2>2, <2>3
<1>7. LooksAreDebited'
  BY <1>1, <1>6 DEF BInv, LooksAreDebited, DebitOf
<1>. QED BY <1>1, <1>3, <1>4, <1>5, <1>7, BudgetUnchanged DEF BInv

(* Time takes debits and looks out of the window, and nothing into it. *)
LEMMA TickBudget ==
  ASSUME AInv, BInv, Tick
  PROVE  BInv'
<1>1. /\ UNCHANGED <<rules, ledger, looks, done, cut, job>>
      /\ now' = now + 1 /\ now \in Nat /\ Window \in Nat /\ AlphaBudget \in Nat
      /\ done \in Nat /\ done <= now
  BY AlertAssumption DEF Tick, table, AInv, Shape, BInv, Times
<1>2. BudgetShape'
  BY <1>1 DEF BInv, BudgetShape
<1>3. Times'
  <2>1. \A r \in Rule : \A d \in ledger[r] : d.at \in Nat
    BY DEF BInv, BudgetShape, Debit
  <2>. QED BY <1>1, <2>1 DEF BInv, Times
<1>4. \A r \in Rule : /\ Alpha(Recent(r, now + 1)) <= Alpha(Recent(r, now))
                      /\ Alpha(Recent(r, now + 1)) \in Nat /\ Alpha(Recent(r, now)) \in Nat
  <2>1. now \in Int /\ now + 1 \in Int /\ now <= now + 1
    BY <1>1
  <2>. QED BY <2>1, RecentShrinks
<1>5. SpentIsFresh'
  <2>1. ASSUME job.pc = "evaluate", NEW r \in job.rules
        PROVE  Alpha(Recent(r, now + 1)) <= job.spent[r]
    <3>1. r \in Rule /\ Alpha(Recent(r, now)) <= job.spent[r] /\ job.spent[r] \in Nat
      BY <2>1 DEF AInv, Shape, JobShape, BInv, SpentIsFresh, BudgetShape
    <3>. QED BY <1>4, <3>1
  <2>. QED BY <1>1, <2>1 DEF SpentIsFresh, Recent
<1>6. RoomIsLeft'
  <2>1. ASSUME NEW r \in Rule, job.toRecord[r] > 0
        PROVE  job.toRecord[r] + Alpha(Recent(r, IF job.pc = "record" THEN job.at ELSE now + 1))
                 <= AlphaBudget
    <3>1. job.toRecord[r] \in Nat
      BY DEF BInv, BudgetShape
    <3>2. CASE job.pc = "record"
      BY <2>1, <3>2 DEF BInv, RoomIsLeft
    <3>3. CASE job.pc # "record"
      <4>1. job.toRecord[r] + Alpha(Recent(r, now)) <= AlphaBudget
        BY <2>1, <3>3 DEF BInv, RoomIsLeft
      <4>. QED BY <1>1, <1>4, <3>1, <3>3, <4>1
    <3>. QED BY <3>2, <3>3
  <2>. QED BY <1>1, <2>1 DEF RoomIsLeft, Recent
<1>7. LooksAreDebited'
  BY <1>1 DEF BInv, LooksAreDebited, DebitOf, BudgetShape, Look
<1>. QED BY <1>1, <1>2, <1>3, <1>5, <1>6, <1>7, BudgetUnchanged DEF BInv

(* The handlers of the API leave looks and debits alone. *)
LEMMA HandlerBudget ==
  ASSUME BInv,
         \/ \E r \in Rule : CreateRule(r) \/ DeleteRule(r)
         \/ \E e \in events : AcknowledgeEvent(e)
         \/ UNCHANGED vars
  PROVE  BInv'
<1>1. UNCHANGED <<ledger, looks, done, cut, job, now>>
  BY DEF CreateRule, DeleteRule, AcknowledgeEvent, vars, table
<1>2. IsFiniteSet(rules')
  <2>1. IsFiniteSet(rules)
    BY DEF BInv, BudgetShape
  <2>2. CASE \E r \in Rule : CreateRule(r)
    BY <2>1, <2>2, FS_AddElement DEF CreateRule
  <2>3. CASE rules' \in SUBSET rules
    BY <2>1, <2>3, FS_Subset
  <2>4. (\E r \in Rule : CreateRule(r)) \/ rules' \in SUBSET rules
    BY DEF DeleteRule, AcknowledgeEvent, vars, table
  <2>. QED BY <2>2, <2>3, <2>4
<1>. QED
  BY <1>1, <1>2 DEF BInv, BudgetShape, Times, SpentIsFresh, RoomIsLeft, Recent,
       LooksAreDebited, DebitOf, LooksWithinBudget, LedgerWithinBudget

(* Every step keeps the budget: each action has its lemma above. *)
LEMMA BudgetStep == AInv /\ BInv /\ [Next]_vars => BInv'
BY BeginBudget, EvaluateBudget, NotifyBudget, RecordBudget, EndBudget, TickBudget,
   HandlerBudget DEF Next

(* What is debited, and what looks were decided on, is within the budget at all times. *)
THEOREM BudgetInvariance == Spec => []BInv
BY BudgetInit, BudgetStep, AlertInvariance, PTL DEF Spec

(* The budget is kept, by what is tested and by what is debited: a look is decided on
   the debits of all looks before it, and nothing comes in between. *)
THEOREM BudgetHolds == Spec => []BudgetKept
<1>1. BInv => BudgetKept
  BY DEF BInv, BudgetKept
<1>. QED BY <1>1, BudgetInvariance, PTL
=============================================================================
