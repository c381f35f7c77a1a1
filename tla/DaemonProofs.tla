----------------------------- MODULE DaemonProofs -----------------------------
(* Theorems about Daemon, for every value of its constants. *)
EXTENDS Daemon, TLAPS

-----------------------------------------------------------------------------
(* The inductive invariant *)

(* Handlers are only at work between the bind and the end of the drain, and loops only
   while there is a process. *)
Stages ==
  /\ phase \in {"down", "starting", "stopping"} => \A q \in Request : ~Open(q)
  /\ phase = "down" => \A t \in Task : loop[t] = NoLoop

(* No status is decided, and nothing is changed, before the answer; no run is begun
   before the handler is. *)
Undecided ==
  \A q \in Request :
    /\ request[q].pc # "replying" => request[q].status = Pending /\ q \notin done
    /\ request[q].pc \in {"idle", "reading", "handling"} => request[q].run = 0

(* A run is one loop's or one request's. *)
RunsAreApart ==
  /\ \A t \in Task : loop[t].run \in 0..made
  /\ \A q \in Request : request[q].run \in 0..made
  /\ \A t, u \in Task : t # u /\ loop[u].run # 0 => loop[t].run # loop[u].run
  /\ \A t \in Task, q \in Request : request[q].run # 0 => loop[t].run # request[q].run
  /\ \A p, q \in Request : p # q /\ request[q].run # 0 => request[p].run # request[q].run

(* What the loops and requests know of the key is of a change that was. *)
Dated ==
  /\ \A t \in Task : loop[t].since <= vault.change
  /\ \A q \in Request : request[q].since <= vault.change

(* A loop that has begun a run has its number. *)
Begun ==
  \A t \in Task : loop[t].pc \in Recording \cup {"calling", "notifying"} => loop[t].run \in 1..made
BegunByHand == \A q \in Request : request[q].pc = "calling" => request[q].run \in 1..made

(* Until evaluate_and_fire has returned nothing of a loop's run is recorded. *)
Early == {"calling", "notifying", "dead"}
Recorded == runs \cup events \cup cut
Unrecorded ==
  \A t \in Task : loop[t].pc \in Early => loop[t].run \in 1..made \ Recorded

(* The file asks for more than there can be. *)
Excess ==
  \/ config.samples > MaxAnswers
  \/ Permutations(config) > MaxNulls
  \/ config.sequential # Absent /\ config.sequential.window \in Calendar + 1..MaxSeconds

DInv == TypeOK /\ Stages /\ Undecided /\ RunsAreApart /\ Dated /\ Begun /\ BegunByHand
          /\ Unrecorded /\ EventsHaveTheirRun /\ AnswersAreTrue /\ KeyIsFresh /\ LoopsDieClean

-----------------------------------------------------------------------------
(* The configuration *)

(* What is loaded and valid is a configuration, whatever the file leaves out. *)
LEMMA ParseIsConfig ==
  ASSUME NEW f \in File, f # Absent, Validate(Parse(f))
  PROVE  Parse(f) \in Config
<1> DEFINE F == [port         : Nat,
                 permits      : May(Nat),
                 target_fpr   : May([num : Int, den : Nat \ {0}]),
                 permutations : May(Nat),
                 samples      : May(Nat),
                 auth         : May([enabled : BOOLEAN, api_keys : SUBSET Token]),
                 sequential   : May([window : May(Nat), budget : May(Int)])]
           rate == Given(f.target_fpr, [num |-> 1, den |-> 100])
<1>1. f \in F BY DaemonAssumption DEF May
<1>2. Given(f.permits, 8) \in Nat BY <1>1 DEF May, Given
<1>3. rate \in [num : Int, den : Nat \ {0}] BY <1>1 DEF May, Given
<1>6. Given(f.permutations, 200) \in Nat /\ Given(f.samples, 3) \in Nat BY <1>1 DEF May, Given
<1>4. Given(f.auth, NoAuth) \in [enabled : BOOLEAN, api_keys : SUBSET Token]
  BY <1>1 DEF May, Given, NoAuth
<1>5. Sequential(f.sequential) \in May([window : Nat, budget : Int])
  <2>1. CASE f.sequential = Absent BY <2>1 DEF May, Sequential
  <2>2. CASE f.sequential # Absent
    <3>1. f.sequential \in [window : May(Nat), budget : May(Int)] BY <1>1, <2>2 DEF May
    <3>2. /\ Given(f.sequential.window, DefaultWindow) \in Nat
          /\ Given(f.sequential.budget, 5) \in Int
      BY <3>1, DaemonAssumption DEF May, Given
    <3> QED BY <2>2, <3>2 DEF May, Sequential
  <2> QED BY <2>1, <2>2
<1>7. rate \in {r \in [num : Nat \ {0}, den : Nat] : r.num < r.den}
  <2>1. IsRate(rate) BY DEF Validate, Parse
  <2>2. rate.num \in Int /\ rate.den \in Nat /\ rate = [num |-> rate.num, den |-> rate.den]
    BY <1>3
  <2> HIDE DEF rate
  <2>3. rate.num \in Nat \ {0} /\ rate.num < rate.den BY <2>1, <2>2 DEF IsRate
  <2> QED BY <2>2, <2>3
<1> QED BY <1>1, <1>2, <1>4, <1>5, <1>6, <1>7 DEF Parse, Validate, Config

-----------------------------------------------------------------------------
(* What a step of a loop does *)

LEMMA Bounds == MaxRuns \in Nat /\ MaxChanges \in Nat /\ MaxStarts \in Nat
BY DaemonAssumption

(* Where a loop holds a key for a run. *)
Keyed == {"queued", "calling", "notifying"} \cup Recording

LoopTurn(t, l) ==
  /\ Goes(t, l)
  /\ \/ made' = made /\ l.run \in {0, loop[t].run} /\ l.pc # "calling"
     \/ made' = made + 1 /\ made < MaxRuns /\ l.run = made + 1 /\ l.pc \in {"calling", "dead"}
  /\ l.pc \in Early =>
       /\ UNCHANGED <<runs, events, cut>>
       /\ \/ made' = made /\ l.run = loop[t].run /\ loop[t].pc = "calling"
          \/ made' = made + 1 /\ l.run = made + 1
  /\ l.pc \in Recording \cup {"notifying"} =>
       l.run = loop[t].run /\ loop[t].pc \in Recording \cup {"calling", "notifying"}
  /\ l.since \in {0, loop[t].since, vault.change}
  /\ l.pc \in Keyed => /\ l.since = loop[t].since
                       /\ \/ l.key = vault.change
                          \/ l.key = loop[t].key /\ loop[t].pc \in Keyed
  /\ l.pc = "dead" => Excess
  /\ runs' = runs \/ (loop[t].pc = "storing" /\ runs' = runs \cup {loop[t].run})
  /\ events' = events \/ (loop[t].pc = "recording" /\ events' = events \cup {loop[t].run})
  /\ cut' = cut \/ (loop[t].pc \in Recording /\ cut' = cut \cup {loop[t].run})
  /\ loop[t].pc \in Recording => l.pc \in Recording \/ loop[t].run \in runs' \cup cut'

LoopActs(t) == Spawn(t) \/ Dropped(t) \/ LoopStep(t)

(* A loop that acts has one of the turns above, and stays a loop. *)
LEMMA LoopActsInTurn ==
  ASSUME TypeOK, NEW t \in Task, LoopActs(t)
  PROVE  \E l \in Loop : LoopTurn(t, l) /\ aborted' \subseteq Task
<1>1. loop[t] \in Loop /\ aborted \subseteq Task BY DEF TypeOK
<1>2. /\ vault.change \in 1..MaxChanges + 1 /\ vault.change \in 0..MaxChanges + 1
      /\ 0 \in 0..MaxChanges + 1 /\ 0 \in 0..MaxRuns
  BY Bounds DEF TypeOK
<1>3. KeyFor(t) \in {0, vault.change} BY DEF KeyFor
<1>4. NoLoop \in Loop BY <1>2 DEF NoLoop, Loop
<1>5. [NoLoop EXCEPT !.pc = "sleep"] \in Loop BY <1>2 DEF NoLoop, Loop
<1>6. [NoLoop EXCEPT !.pc = "sleep", !.key = loop[t].key] \in Loop BY <1>1, <1>2 DEF NoLoop, Loop
<1>7. CASE Spawn(t)
  <2> DEFINE l == [NoLoop EXCEPT !.pc = "sleep"]
  <2>1. LoopTurn(t, l) BY <1>7, <1>2 DEF Spawn, LoopTurn, Goes, NoLoop, Recording, Keyed, Early
  <2> QED BY <1>1, <1>5, <1>7, <2>1 DEF Spawn
<1>8. CASE Dropped(t)
  <2>1. LoopTurn(t, NoLoop)
    BY <1>8, <1>2 DEF Dropped, LoopTurn, Goes, NoLoop, Recording, Keyed, Awaits, Early
  <2> QED BY <1>1, <1>4, <1>8, <2>1 DEF Dropped
<1>9. CASE Wake(t)
  <2> DEFINE l == [loop[t] EXCEPT !.pc = "woken", !.since = vault.change]
  <2>1. l \in Loop BY <1>1, <1>2 DEF Loop
  <2>2. l.pc = "woken" /\ l.run = loop[t].run /\ l.since = vault.change BY <1>1 DEF Loop
  <2>3. LoopTurn(t, l) BY <1>9, <2>2 DEF Wake, Resumes, LoopTurn, Recording, Keyed, Early
  <2> QED BY <1>1, <1>9, <2>1, <2>3 DEF Wake
<1>10. CASE Rests(t) /\ runs' = runs /\ events' = events /\ cut' = cut
              /\ loop[t].pc \notin Recording
  <2> DEFINE l == [NoLoop EXCEPT !.pc = "sleep", !.key = loop[t].key]
  <2>1. l.pc = "sleep" /\ l.run = 0 /\ l.since = 0 BY DEF NoLoop
  <2>2. LoopTurn(t, l) BY <1>10, <2>1 DEF Rests, LoopTurn, Recording, Keyed, Early
  <2> QED BY <1>1, <1>6, <1>10, <2>2 DEF Rests
<1>11. CASE Resolve(t)
  <2>1. CASE KeyFor(t) = 0 /\ Rests(t) BY <1>10, <1>11, <2>1 DEF Resolve, Recording
  <2>2. CASE KeyFor(t) # 0 /\ ~(KeyFor(t) = 0 /\ Rests(t))
    <3> DEFINE l == [loop[t] EXCEPT !.pc = "queued", !.key = KeyFor(t)]
    <3>1. l \in Loop BY <1>1, <1>2, <1>3 DEF Loop
    <3>2. l.pc = "queued" /\ l.run = loop[t].run /\ l.since = loop[t].since /\ l.key = vault.change
      BY <1>1, <1>3, <2>2 DEF Loop
    <3>3. LoopTurn(t, l) BY <1>11, <2>2, <3>2 DEF Resolve, LoopTurn, Recording, Keyed, Early
    <3> QED BY <1>1, <1>11, <2>2, <3>1, <3>3 DEF Resolve
  <2> QED BY <1>11, <2>1, <2>2 DEF Resolve
<1>12. CASE Call(t)
  <2>0. PICK pc \in Beginnings : Goes(t, [loop[t] EXCEPT !.pc = pc, !.run = made + 1])
    BY <1>12 DEF Call
  <2> DEFINE l == [loop[t] EXCEPT !.pc = pc, !.run = made + 1]
  <2>1. made + 1 \in 0..MaxRuns BY <1>12, Bounds DEF Call, TypeOK
  <2>2. pc \in {"calling", "dead"} /\ (pc = "dead" => Excess) BY DEF Beginnings, Excess
  <2>3. l \in Loop BY <1>1, <2>1, <2>2 DEF Loop
  <2>4. l.pc = pc /\ l.run = made + 1 /\ l.since = loop[t].since /\ l.key = loop[t].key
    BY <1>1 DEF Loop
  <2>5. LoopTurn(t, l)
    BY <1>12, <2>0, <2>2, <2>4 DEF Call, Resumes, LoopTurn, Recording, Keyed, Early
  <2> QED BY <1>1, <1>12, <2>3, <2>5 DEF Call
<1>13. ASSUME NEW pc \in {"notifying", "recording", "debiting", "storing", "dead"}, At(t, pc),
              loop[t].pc \in {"calling", "notifying", "recording", "debiting"},
              pc = "dead" => Excess,
              pc \in {"dead", "notifying"} => loop[t].pc = "calling",
              runs' = runs, cut' = cut,
              events' = events
                \/ (loop[t].pc = "recording" /\ events' = events \cup {loop[t].run})
       PROVE  \E l \in Loop : LoopTurn(t, l) /\ aborted' \subseteq Task
  <2> DEFINE l == [loop[t] EXCEPT !.pc = pc]
  <2>1. l \in Loop BY <1>1 DEF Loop
  <2>2. l.pc = pc /\ l.run = loop[t].run /\ l.since = loop[t].since /\ l.key = loop[t].key
    BY <1>1 DEF Loop
  <2>3. Goes(t, l) /\ made' = made BY <1>13 DEF At
  <2>4. LoopTurn(t, l) BY <1>13, <2>2, <2>3 DEF LoopTurn, Recording, Keyed, Early
  <2> QED BY <1>1, <1>13, <2>1, <2>4 DEF At
<1>14. CASE RunFails(t) BY <1>10, <1>14 DEF RunFails, Resumes, Recording
<1>15. CASE NoReport(t) BY <1>13, <1>15 DEF NoReport, Resumes, Recording
<1>16. CASE Report(t)
  <2>1. Controlled /\ SequentialWindow(config) > Calendar => Excess
    BY <1>1, DaemonAssumption DEF Controlled, SequentialWindow, Excess
  <2>2. \E pc \in {"dead", "notifying"} : At(t, pc) /\ (pc = "dead" => Excess)
    BY <1>16, <2>1 DEF Report, Excess
  <2> QED BY <1>13, <1>16, <2>2 DEF Report, Resumes, Recording
<1>17. Budgeting \in {"debiting", "storing"} BY DEF Budgeting
<1>18. CASE Notified(t) BY <1>13, <1>17, <1>18 DEF Notified, Resumes
<1>19. CASE RecordEvents(t) BY <1>13, <1>17, <1>19 DEF RecordEvents
<1>20. CASE RecordSpends(t) BY <1>13, <1>20 DEF RecordSpends
<1>21. CASE StoreRun(t) \/ JobFails(t)
  <2> DEFINE l == [NoLoop EXCEPT !.pc = "sleep", !.key = loop[t].key]
  <2>1. l.pc = "sleep" /\ l.run = 0 /\ l.since = 0 BY DEF NoLoop
  <2>2. LoopTurn(t, l) BY <1>21, <2>1 DEF StoreRun, JobFails, Rests, LoopTurn, Recording, Keyed, Early
  <2> QED BY <1>1, <1>6, <1>21, <2>2 DEF StoreRun, JobFails, Rests
<1> QED BY <1>7, <1>8, <1>9, <1>11, <1>12, <1>14, <1>15, <1>16, <1>18, <1>19, <1>20, <1>21
        DEF LoopActs, LoopStep

-----------------------------------------------------------------------------
(* What a step of a request does *)

Answers == {Ok, NoContent}

ExchangeTurn(q, r) ==
  /\ Becomes(q, r)
  /\ r.pc # "idle" => phase \in {"serving", "draining"}
  /\ \/ made' = made /\ r.run \in {0, request[q].run}
     \/ made' = made + 1 /\ made < MaxRuns /\ r.run = made + 1 /\ r.pc = "calling"
     \/ made' = made + 1 /\ made < MaxRuns /\ r.run = 0 /\ r.pc = "idle"
  /\ r.pc \in {"idle", "reading", "handling"} => r.run = 0
  /\ r.pc = "calling" => r.run \in 1..made'
  /\ vault' \in [change : 1..MaxChanges + 1, present : BOOLEAN] /\ vault.change <= vault'.change
  /\ r.since \in {0, request[q].since, vault.change}
  /\ r.pc = "calling" => r.key = vault.change
  /\ \A p \in Request \ {q} : p \in done' <=> p \in done
  /\ r.pc # "replying" => r.status = Pending /\ q \notin done'
  /\ q \in done' <=> r.status \in Answers
  /\ \/ runs' = runs /\ (r.run # 0 => r.run \notin runs /\ r.status # Ok)
     \/ /\ request[q].pc = "calling" /\ r.run = request[q].run /\ r.status = Ok
        /\ runs' = runs \cup {r.run}
     \/ runs' = runs /\ r.run = 0

RequestActs(q) ==
  Accept(q) \/ ReadBody(q) \/ Handle(q) \/ FinishRun(q) \/ TimesOut(q) \/ Reply(q) \/ Disconnect(q)

(* A status is one of a few numbers, and an error is never one of a success. *)
LEMMA StatusFacts ==
  /\ {Ok, NoContent, Unauthorized, NotFound, RequestTimeout, PayloadTooLarge,
      UnprocessableEntity, TooManyRequests, InternalServerError, Pending} = Status
  /\ \A error : StatusOf(error) \in Status \ (Answers \cup {Pending})
  /\ \A s \in {Unauthorized, RequestTimeout, PayloadTooLarge, UnprocessableEntity,
               TooManyRequests, Pending} : s \in Status \ Answers
  /\ Answers \subseteq Status /\ Ok # Pending /\ NoContent # Pending
BY DEF Status, StatusOf, Answers, Ok, NoContent, Unauthorized, NotFound, RequestTimeout,
       PayloadTooLarge, UnprocessableEntity, TooManyRequests, InternalServerError, Pending

(* A request that acts has one of the turns above, and stays a request. *)
LEMMA RequestActsInTurn ==
  ASSUME DInv, NEW q \in Request, RequestActs(q)
  PROVE  \E r \in Exchange : ExchangeTurn(q, r) /\ done' \subseteq Request
<1>1. /\ request[q] \in Exchange /\ done \subseteq Request /\ runs \subseteq 1..made
      /\ made \in 0..MaxRuns /\ vault \in [change : 1..MaxChanges + 1, present : BOOLEAN]
  BY DEF DInv, TypeOK
<1>2. 0 \in 0..MaxChanges + 1 /\ 0 \in 0..MaxRuns /\ vault.change \in 0..MaxChanges + 1
      /\ vault.change <= vault.change
  BY <1>1, Bounds
<1>3. /\ Open(q) => phase \in {"serving", "draining"}
      /\ request[q].pc # "replying" => request[q].status = Pending /\ q \notin done
      /\ request[q].pc \in {"idle", "reading", "handling"} => request[q].run = 0
      /\ request[q].pc = "calling" => request[q].run \in 1..made
      /\ q \in done <=> request[q].status \in Answers
      /\ request[q].run # 0 => (request[q].run \in runs <=> request[q].status = Ok)
  BY <1>1 DEF DInv, TypeOK, Stages, Undecided, BegunByHand, AnswersAreTrue, Answers
<1>4. Pending \notin Answers /\ Ok # Pending BY StatusFacts
<1>16. /\ NoExchange \in Exchange
       /\ NoExchange.pc = "idle" /\ NoExchange.run = 0 /\ NoExchange.since = 0
       /\ NoExchange.status = Pending
  BY <1>2, StatusFacts DEF NoExchange, Exchange, Kind
<1>5. ASSUME NEW s \in Status \ {Pending}, Answer(q, s),
             request[q].pc \in {"idle", "reading", "handling", "calling"},
             request[q].pc = "idle" => phase \in {"serving", "draining"},
             made' = made,
             \/ s \notin Answers /\ vault' = vault /\ runs' = runs /\ done' = done
             \/ /\ request[q].pc = "handling" /\ s \in Answers /\ done' = done \cup {q}
                /\ vault' \in [change : {vault.change + 1}, present : BOOLEAN]
                /\ vault.change <= MaxChanges /\ runs' = runs
             \/ /\ request[q].pc = "calling" /\ s = Ok /\ done' = done \cup {q}
                /\ vault' = vault /\ runs' = runs \cup {request[q].run}
       PROVE  \E r \in Exchange : ExchangeTurn(q, r) /\ done' \subseteq Request
  <2> DEFINE r == [NoExchange EXCEPT !.pc = "replying", !.status = s, !.run = request[q].run]
  <2>1. /\ r.pc = "replying" /\ r.status = s /\ r.run = request[q].run
        /\ r.key = 0 /\ r.since = 0
    BY DEF NoExchange
  <2>2. r \in Exchange BY <1>1, <1>2 DEF NoExchange, Exchange, Kind
  <2>3. Becomes(q, r) BY <1>5 DEF Answer
  <2>4. /\ vault' \in [change : 1..MaxChanges + 1, present : BOOLEAN]
        /\ vault.change <= vault'.change
    BY <1>1, <1>2, <1>5, Bounds
  <2>5. phase \in {"serving", "draining"} BY <1>3, <1>5 DEF Open
  <2>6. q \notin done /\ Ok \in Answers BY <1>3, <1>5 DEF Answers
  <2>7. q \in done' <=> s \in Answers BY <1>5, <2>6
  <2>8. \A p \in Request \ {q} : p \in done' <=> p \in done BY <1>5
  <2>9. \/ runs' = runs /\ (r.run # 0 => r.run \notin runs /\ r.status # Ok)
        \/ /\ request[q].pc = "calling" /\ r.run = request[q].run /\ r.status = Ok
           /\ runs' = runs \cup {r.run}
        \/ runs' = runs /\ r.run = 0
    <3>1. CASE request[q].run = 0 /\ runs' = runs BY <2>1, <3>1
    <3>2. CASE request[q].run # 0 /\ runs' = runs
      <4>1. request[q].pc = "calling" /\ s \notin Answers BY <1>3, <1>5, <3>2
      <4>2. request[q].run \notin runs BY <1>3, <1>4, <3>2, <4>1
      <4> QED BY <2>1, <2>6, <3>2, <4>1, <4>2
    <3>3. CASE runs' # runs BY <1>5, <2>1, <3>3
    <3> QED BY <3>1, <3>2, <3>3
  <2>10. ExchangeTurn(q, r)
    BY <1>5, <2>1, <2>3, <2>4, <2>5, <2>7, <2>8, <2>9 DEF ExchangeTurn
  <2> QED BY <1>1, <1>5, <2>2, <2>10
<1>6. ASSUME NEW pc \in {"reading", "handling"}, NEW kind \in Kind,
             NEW since \in {request[q].since, vault.change},
             Becomes(q, [request[q] EXCEPT !.pc = pc, !.kind = kind, !.since = since]),
             request[q].pc \in {"idle", "reading"}, phase \in {"serving", "draining"},
             UNCHANGED <<vault, made, runs, done>>
       PROVE  \E r \in Exchange : ExchangeTurn(q, r) /\ done' \subseteq Request
  <2> DEFINE r == [request[q] EXCEPT !.pc = pc, !.kind = kind, !.since = since]
  <2>1. r.pc = pc /\ r.status = request[q].status /\ r.run = request[q].run /\ r.since = since
    BY <1>1 DEF Exchange
  <2>2. r \in Exchange BY <1>1, <1>2 DEF Exchange
  <2>3. r.run = 0 /\ r.status = Pending /\ q \notin done BY <1>3, <1>6, <2>1
  <2>4. ExchangeTurn(q, r) BY <1>1, <1>2, <1>4, <1>6, <2>1, <2>3 DEF ExchangeTurn
  <2> QED BY <1>1, <1>6, <2>2, <2>4
<1>7. CASE Accept(q)
  <2>1. PICK kind \in Kind, token \in Token :
          \/ \E s \in {TooManyRequests, PayloadTooLarge} : Answer(q, s)
          \/ ~Authorized(token) /\ Answer(q, Unauthorized)
          \/ /\ Authorized(token)
             /\ Becomes(q, [request[q] EXCEPT !.kind = kind, !.since = vault.change,
                                !.pc = IF kind = "put" THEN "reading" ELSE "handling"])
    BY <1>7 DEF Accept
  <2>2. ASSUME NEW s \in {TooManyRequests, PayloadTooLarge, Unauthorized}, Answer(q, s)
        PROVE  \E r \in Exchange : ExchangeTurn(q, r) /\ done' \subseteq Request
    <3>1. s \in Status \ {Pending} /\ s \notin Answers
      BY DEF Status, Answers, TooManyRequests, PayloadTooLarge, Unauthorized, Pending, Ok, NoContent
    <3> QED BY <1>5, <1>7, <2>2, <3>1 DEF Accept
  <2>3. CASE Becomes(q, [request[q] EXCEPT !.kind = kind, !.since = vault.change,
                             !.pc = IF kind = "put" THEN "reading" ELSE "handling"])
    <3> DEFINE pc == IF kind = "put" THEN "reading" ELSE "handling"
    <3>1. [request[q] EXCEPT !.kind = kind, !.since = vault.change, !.pc = pc]
            = [request[q] EXCEPT !.pc = pc, !.kind = kind, !.since = vault.change]
      BY <1>1 DEF Exchange
    <3> QED BY <1>6, <1>7, <2>3, <3>1 DEF Accept
  <2> QED BY <2>1, <2>2, <2>3
<1>8. CASE ReadBody(q)
  <2>1. ASSUME NEW s \in {PayloadTooLarge, UnprocessableEntity}, Answer(q, s)
        PROVE  \E r \in Exchange : ExchangeTurn(q, r) /\ done' \subseteq Request
    <3>1. s \in Status \ {Pending} /\ s \notin Answers
      BY DEF Status, Answers, UnprocessableEntity, PayloadTooLarge, Pending, Ok, NoContent
    <3> QED BY <1>5, <1>8, <2>1, <3>1 DEF ReadBody
  <2>2. CASE Becomes(q, [request[q] EXCEPT !.pc = "handling"])
    <3>1. [request[q] EXCEPT !.pc = "handling"]
            = [request[q] EXCEPT !.pc = "handling", !.kind = request[q].kind,
                                 !.since = request[q].since]
      BY <1>1 DEF Exchange
    <3>2. request[q].kind \in Kind BY <1>1 DEF Exchange
    <3> QED BY <1>3, <1>6, <1>8, <2>2, <3>1, <3>2 DEF ReadBody, Open
  <2> QED BY <1>8, <2>1, <2>2 DEF ReadBody
<1>9. CASE TriggerRun(q)
  <2>1. ASSUME NEW error \in {"ProbeNotFound", "Vault", "Config"}, Answer(q, StatusOf(error)),
               made' = made
        PROVE  \E r \in Exchange : ExchangeTurn(q, r) /\ done' \subseteq Request
    <3>1. StatusOf(error) \in Status \ {Pending} /\ StatusOf(error) \notin Answers BY StatusFacts
    <3> QED BY <1>5, <1>9, <2>1, <3>1 DEF TriggerRun
  <2>2. CASE /\ made < MaxRuns /\ made' = made + 1
             /\ Becomes(q, [request[q] EXCEPT !.pc = "calling", !.key = vault.change,
                                              !.run = made + 1])
    <3> DEFINE r == [request[q] EXCEPT !.pc = "calling", !.key = vault.change, !.run = made + 1]
    <3>1. made + 1 \in 0..MaxRuns /\ made + 1 \in 1..made' /\ made + 1 \notin runs /\ made + 1 # 0
      BY <1>1, <2>2, Bounds
    <3>2. r \in Exchange BY <1>1, <1>2, <3>1 DEF Exchange
    <3>3. /\ r.pc = "calling" /\ r.status = request[q].status /\ r.run = made + 1
          /\ r.since = request[q].since /\ r.key = vault.change
      BY <1>1 DEF Exchange
    <3>4. r.status = Pending /\ q \notin done /\ phase \in {"serving", "draining"}
      BY <1>3, <1>9, <3>3 DEF TriggerRun, Open
    <3>5. UNCHANGED <<vault, runs, done>> BY <1>9 DEF TriggerRun
    <3>6. ExchangeTurn(q, r)
      BY <1>1, <1>2, <1>4, <2>2, <3>1, <3>3, <3>4, <3>5 DEF ExchangeTurn
    <3> QED BY <1>1, <3>2, <3>5, <3>6
  <2>3. CASE made < MaxRuns /\ made' = made + 1 /\ Becomes(q, NoExchange)
    <3>1. UNCHANGED <<vault, runs, done>> /\ q \notin done
      BY <1>3, <1>9 DEF TriggerRun
    <3>2. ExchangeTurn(q, NoExchange)
      BY <1>1, <1>2, <1>4, <1>16, <2>3, <3>1 DEF ExchangeTurn
    <3> QED BY <1>1, <1>16, <3>1, <3>2
  <2>4. CASE /\ made < MaxRuns /\ made' = made + 1
             /\ \E pc \in Beginnings :
                  Becomes(q, IF pc = "dead" THEN NoExchange
                             ELSE [request[q] EXCEPT !.pc = pc, !.key = vault.change,
                                                     !.run = made + 1])
    BY <2>2, <2>3, <2>4 DEF Beginnings
  <2> QED BY <1>9, <2>1, <2>4 DEF TriggerRun
<1>10. CASE FinishRun(q)
  <2>1. CASE Answer(q, StatusOf("Provider")) /\ UNCHANGED <<runs, done>>
    <3>1. StatusOf("Provider") \in Status \ {Pending} /\ StatusOf("Provider") \notin Answers
      BY StatusFacts
    <3> QED BY <1>5, <1>10, <2>1, <3>1 DEF FinishRun
  <2>2. CASE Answer(q, Ok) /\ runs' = runs \cup {request[q].run} /\ done' = done \cup {q}
    <3>1. Ok \in Status \ {Pending} BY DEF Ok, Status, Pending
    <3> QED BY <1>5, <1>10, <2>2, <3>1 DEF FinishRun
  <2> QED BY <1>10, <2>1, <2>2 DEF FinishRun
<1>11. ASSUME NEW error \in {"Config", "Vault"}, Answer(q, StatusOf(error)),
              request[q].pc = "handling", UNCHANGED <<vault, done, made, runs>>
       PROVE  \E r \in Exchange : ExchangeTurn(q, r) /\ done' \subseteq Request
  <2>1. StatusOf(error) \in Status \ {Pending} /\ StatusOf(error) \notin Answers BY StatusFacts
  <2> QED BY <1>5, <1>11, <2>1
<1>12. CASE UpsertKey(q)
  <2>1. CASE /\ vault.change <= MaxChanges /\ Answer(q, Ok) /\ done' = done \cup {q}
             /\ vault' = [change |-> vault.change + 1, present |-> TRUE]
    <3>1. Ok \in Status \ {Pending} /\ Ok \in Answers BY DEF Ok, Status, Pending, Answers
    <3>2. vault' \in [change : {vault.change + 1}, present : BOOLEAN] BY <2>1
    <3> QED BY <1>5, <1>12, <2>1, <3>1, <3>2 DEF UpsertKey
  <2> QED BY <1>11, <1>12, <2>1 DEF UpsertKey
<1>13. CASE DeleteKey(q)
  <2>1. CASE /\ vault.change <= MaxChanges /\ Answer(q, NoContent) /\ done' = done \cup {q}
             /\ vault' = [change |-> vault.change + 1, present |-> FALSE]
    <3>1. NoContent \in Status \ {Pending} /\ NoContent \in Answers
      BY DEF NoContent, Status, Pending, Answers
    <3>2. vault' \in [change : {vault.change + 1}, present : BOOLEAN] BY <2>1
    <3> QED BY <1>5, <1>13, <2>1, <3>1, <3>2 DEF DeleteKey
  <2> QED BY <1>11, <1>13, <2>1 DEF DeleteKey
<1>14. CASE TimesOut(q)
  <2>1. RequestTimeout \in Status \ {Pending} /\ RequestTimeout \notin Answers
    BY DEF Status, Answers, RequestTimeout, Pending, Ok, NoContent
  <2> QED BY <1>5, <1>14, <2>1 DEF TimesOut, RequestAwaits
<1>15. CASE Reply(q) \/ Disconnect(q)
  <2>1. ExchangeTurn(q, NoExchange)
    BY <1>1, <1>2, <1>4, <1>15, <1>16 DEF Reply, Disconnect, ExchangeTurn
  <2> QED BY <1>1, <1>15, <1>16, <2>1 DEF Reply, Disconnect
<1> QED BY <1>7, <1>8, <1>9, <1>10, <1>12, <1>13, <1>14, <1>15 DEF RequestActs, Handle

-----------------------------------------------------------------------------
(* Induction *)

(* The invariant holds initially. *)
LEMMA InitDInv ==
  ASSUME Init
  PROVE  DInv
<1> USE Bounds DEF Init
<1>1. NoLoop \in Loop BY DEF NoLoop, Loop
<1>2. NoExchange \in Exchange BY StatusFacts DEF NoExchange, Exchange, Kind
<1>3. TypeOK BY <1>1, <1>2 DEF TypeOK, May
<1>4. \A t \in Task : loop[t].pc = "none" /\ loop[t].run = 0 /\ loop[t].since = 0
  BY DEF NoLoop
<1>5. \A q \in Request : /\ request[q].pc = "idle" /\ request[q].run = 0
                         /\ request[q].since = 0 /\ request[q].status = Pending
  BY DEF NoExchange
<1>6. Stages /\ Undecided /\ RunsAreApart /\ Dated /\ Begun /\ BegunByHand /\ Unrecorded
  BY <1>4, <1>5 DEF Stages, Open, Undecided, RunsAreApart, Dated, Begun, BegunByHand, Recording,
                    Unrecorded, Early
<1>7. EventsHaveTheirRun /\ KeyIsFresh /\ LoopsDieClean
  BY <1>4, <1>5 DEF EventsHaveTheirRun, KeyIsFresh, Running, Recording, LoopsDieClean
<1>8. AnswersAreTrue BY <1>5, StatusFacts DEF AnswersAreTrue, Answers
<1> QED BY <1>3, <1>6, <1>7, <1>8 DEF DInv

(* A loop that acts keeps it. *)
LEMMA LoopKeepsDInv ==
  ASSUME DInv, NEW t \in Task, LoopActs(t)
  PROVE  DInv'
<1>1. TypeOK BY DEF DInv
<1>2. PICK l \in Loop : LoopTurn(t, l) /\ aborted' \subseteq Task BY <1>1, LoopActsInTurn
<1>3. /\ loop' = [loop EXCEPT ![t] = l]
      /\ UNCHANGED <<phase, config, starts, request, vault, done>>
  BY <1>2 DEF LoopTurn, Goes
<1>4. loop' \in [Task -> Loop] /\ loop'[t] = l /\ \A u \in Task \ {t} : loop'[u] = loop[u]
  BY <1>1, <1>3 DEF TypeOK
<1>5. /\ made \in 0..MaxRuns /\ made' \in 0..MaxRuns
      /\ runs \subseteq 1..made /\ events \subseteq 1..made /\ cut \subseteq 1..made
      /\ made' \in {made, made + 1} /\ 1..made \subseteq 1..made' /\ 0..made \subseteq 0..made'
  BY <1>1, <1>2, Bounds DEF TypeOK, LoopTurn
<1>6. loop[t].pc \in Recording => loop[t].run \in 1..made
  BY DEF DInv, Begun
<1>7. TypeOK'
  <2>1. runs' \subseteq 1..made' /\ events' \subseteq 1..made' /\ cut' \subseteq 1..made'
    BY <1>2, <1>5, <1>6 DEF LoopTurn, Recording
  <2> QED BY <1>1, <1>2, <1>3, <1>4, <1>5, <2>1 DEF TypeOK
<1>8. Stages'
  <2>1. phase # "down"
    <3>1. CASE phase = "down"
      <4>1. loop[t] = NoLoop /\ t \notin {u \in Task : loop[u].pc # "none"}
        BY <3>1 DEF DInv, Stages, NoLoop
      <4>2. loop[t].pc = "none" /\ ~SchedulerRuns BY <3>1, <4>1 DEF NoLoop, SchedulerRuns
      <4> QED BY <4>2 DEF LoopActs, LoopStep, Spawn, Dropped, Awaits, Wake, Resolve, Call,
                 RunFails, NoReport, Report, Notified, RecordEvents, RecordSpends, StoreRun,
                 JobFails, Resumes, Recording
    <3> QED BY <3>1
  <2> QED BY <1>3, <2>1 DEF DInv, Stages, Open
<1>9. Undecided' BY <1>3 DEF DInv, Undecided
<1>10. RunsAreApart'
  <2>1. l.run \in 0..made'
    BY <1>2, <1>5 DEF DInv, RunsAreApart, LoopTurn
  <2>2. \A q \in Request : request[q].run # 0 => l.run # request[q].run
    BY <1>2, <1>5 DEF DInv, RunsAreApart, LoopTurn
  <2>3. \A u \in Task \ {t} : /\ l.run # 0 => loop[u].run # l.run
                              /\ loop[u].run # 0 => l.run # loop[u].run
    BY <1>2, <1>5 DEF DInv, RunsAreApart, LoopTurn
  <2>4. \A u \in Task : loop'[u].run \in 0..made'
    BY <1>4, <1>5, <2>1 DEF DInv, RunsAreApart
  <2>5. \A q \in Request : request'[q].run \in 0..made'
    BY <1>3, <1>5 DEF DInv, RunsAreApart
  <2>6. \A u, v \in Task : u # v /\ loop'[v].run # 0 => loop'[u].run # loop'[v].run
    BY <1>4, <2>3 DEF DInv, RunsAreApart
  <2>7. \A u \in Task, q \in Request : request'[q].run # 0 => loop'[u].run # request'[q].run
    BY <1>3, <1>4, <2>2 DEF DInv, RunsAreApart
  <2>8. \A p, q \in Request : p # q /\ request'[q].run # 0 => request'[p].run # request'[q].run
    BY <1>3 DEF DInv, RunsAreApart
  <2> QED BY <2>4, <2>5, <2>6, <2>7, <2>8 DEF RunsAreApart
<1>11. Dated'
  <2>1. l.since <= vault.change BY <1>1, <1>2 DEF DInv, Dated, LoopTurn, TypeOK
  <2> QED BY <1>3, <1>4, <2>1 DEF DInv, Dated
<1>12. Begun'
  <2>1. l.pc \in Recording \cup {"calling", "notifying"} => l.run \in 1..made'
    BY <1>2, <1>5 DEF DInv, Begun, LoopTurn
  <2> QED BY <1>4, <1>5, <2>1 DEF DInv, Begun
<1>13. BegunByHand' BY <1>3, <1>5 DEF DInv, BegunByHand
<1>14. EventsHaveTheirRun'
  <2> SUFFICES ASSUME NEW r \in events'
               PROVE  \/ r \in runs' \cup cut'
                      \/ \E u \in Task : loop'[u].run = r /\ loop'[u].pc \in Recording
    BY DEF EventsHaveTheirRun
  <2>1. runs \subseteq runs' /\ cut \subseteq cut' BY <1>2 DEF LoopTurn
  <2>2. CASE \E u \in Task \ {t} : loop[u].run = r /\ loop[u].pc \in Recording BY <1>4, <2>2
  <2>3. CASE loop[t].run = r /\ loop[t].pc \in Recording
    <3>1. CASE l.pc \in Recording
      <4>1. l.run = loop[t].run BY <1>2, <3>1 DEF LoopTurn
      <4> QED BY <1>4, <2>3, <3>1, <4>1
    <3>2. CASE l.pc \notin Recording BY <1>2, <2>3, <3>2 DEF LoopTurn
    <3> QED BY <3>1, <3>2
  <2>4. CASE r \in runs \cup cut BY <2>1, <2>4
  <2>5. r \in events \/ (loop[t].run = r /\ loop[t].pc \in Recording)
    BY <1>2 DEF LoopTurn, Recording
  <2> QED BY <2>2, <2>3, <2>4, <2>5 DEF DInv, EventsHaveTheirRun
<1>15. AnswersAreTrue'
  <2>1. \A q \in Request : request[q].run # 0 => (request[q].run \in runs' <=> request[q].run \in runs)
    BY <1>2 DEF DInv, RunsAreApart, LoopTurn
  <2> QED BY <1>3, <2>1 DEF DInv, AnswersAreTrue
<1>16. KeyIsFresh'
  <2>1. l.pc \in Keyed => l.key >= l.since
    <3>1. loop[t].pc \in Keyed => loop[t].key >= loop[t].since
      BY DEF DInv, KeyIsFresh, Running, Keyed
    <3>2. /\ loop[t].since <= vault.change
          /\ loop[t].since \in Int /\ vault.change \in Int
      BY <1>1 DEF DInv, Dated, TypeOK, Loop
    <3> QED BY <1>2, <3>1, <3>2 DEF LoopTurn
  <2>2. \A u \in Task : loop[u].pc \in Keyed => loop[u].key >= loop[u].since
    BY DEF DInv, KeyIsFresh, Running, Keyed
  <2>3. \A u \in Task : loop'[u].pc \in Keyed => loop'[u].key >= loop'[u].since
    BY <1>4, <2>1, <2>2
  <2> QED BY <1>3, <2>3 DEF DInv, KeyIsFresh, Running, Keyed
<1>18. Unrecorded'
  <2>1. ASSUME l.pc \in Early PROVE l.run \in 1..made' \ (runs' \cup events' \cup cut')
    <3>1. /\ UNCHANGED <<runs, events, cut>>
          /\ \/ made' = made /\ l.run = loop[t].run /\ loop[t].pc = "calling"
             \/ made' = made + 1 /\ l.run = made + 1
      BY <1>2, <2>1 DEF LoopTurn
    <3>2. CASE made' = made /\ l.run = loop[t].run /\ loop[t].pc = "calling"
      BY <3>1, <3>2 DEF DInv, Unrecorded, Recorded, Early
    <3>3. CASE made' = made + 1 /\ l.run = made + 1
      <4>1. made + 1 \in 1..made' /\ made + 1 \notin 1..made BY <1>5, <3>3
      <4> QED BY <1>5, <3>1, <3>3, <4>1
    <3> QED BY <3>1, <3>2, <3>3
  <2>2. ASSUME NEW u \in Task \ {t}, loop[u].pc \in Early
        PROVE  loop[u].run \in 1..made' \ (runs' \cup events' \cup cut')
    <3>1. loop[u].run \in 1..made /\ loop[u].run \notin runs \cup events \cup cut
      BY <2>2 DEF DInv, Unrecorded, Recorded
    <3>2. loop[t].pc \in Recording => loop[u].run # loop[t].run
      BY <1>5, <1>6 DEF DInv, RunsAreApart
    <3>3. /\ runs' = runs \/ (loop[t].pc \in Recording /\ runs' = runs \cup {loop[t].run})
          /\ events' = events \/ (loop[t].pc \in Recording /\ events' = events \cup {loop[t].run})
          /\ cut' = cut \/ (loop[t].pc \in Recording /\ cut' = cut \cup {loop[t].run})
      BY <1>2 DEF LoopTurn, Recording
    <3> QED BY <1>5, <3>1, <3>2, <3>3
  <2> QED BY <1>4, <2>1, <2>2 DEF Unrecorded, Recorded
<1>17. LoopsDieClean'
  <2>1. l.pc = "dead" => Excess BY <1>2 DEF LoopTurn
  <2>2. \A u \in Task : loop[u].pc = "dead" => Excess BY DEF DInv, LoopsDieClean, Excess
  <2>3. Excess' <=> Excess BY <1>3 DEF Excess, Permutations
  <2>4. \A u \in Task : loop'[u].pc = "dead" => Excess' BY <1>4, <2>1, <2>2, <2>3
  <2>5. \A u \in Task : loop'[u].pc = "dead" => loop'[u].run \notin runs' \cup events' \cup cut'
    BY <1>18 DEF Unrecorded, Early, Recorded
  <2> QED BY <2>4, <2>5 DEF LoopsDieClean, Excess
<1> QED BY <1>7, <1>8, <1>9, <1>10, <1>11, <1>12, <1>13, <1>14, <1>15, <1>16, <1>17, <1>18
        DEF DInv

(* A request that acts keeps it. *)
LEMMA RequestKeepsDInv ==
  ASSUME DInv, NEW q \in Request, RequestActs(q)
  PROVE  DInv'
<1>1. TypeOK BY DEF DInv
<1>2. PICK r \in Exchange : ExchangeTurn(q, r) /\ done' \subseteq Request BY RequestActsInTurn
<1>3. /\ request' = [request EXCEPT ![q] = r]
      /\ UNCHANGED <<phase, config, starts, loop, aborted, events, cut>>
  BY <1>2 DEF ExchangeTurn, Becomes
<1>4. /\ request' \in [Request -> Exchange] /\ request'[q] = r
      /\ \A p \in Request \ {q} : request'[p] = request[p]
  BY <1>1, <1>3 DEF TypeOK
<1>5. /\ made \in 0..MaxRuns /\ made' \in 0..MaxRuns
      /\ runs \subseteq 1..made /\ events \subseteq 1..made /\ cut \subseteq 1..made
      /\ made' \in {made, made + 1} /\ 1..made \subseteq 1..made' /\ 0..made \subseteq 0..made'
  BY <1>1, <1>2, Bounds DEF TypeOK, ExchangeTurn
<1>6. /\ runs \subseteq runs' /\ runs' \subseteq runs \cup {request[q].run}
      /\ runs' # runs => request[q].pc = "calling" /\ request[q].run \in 1..made
                           /\ r.run = request[q].run
  BY <1>2 DEF ExchangeTurn, DInv, BegunByHand
<1>7. TypeOK'
  <2>1. runs' \subseteq 1..made' /\ events' \subseteq 1..made' /\ cut' \subseteq 1..made'
    BY <1>3, <1>5, <1>6
  <2>2. vault' \in [change : 1..MaxChanges + 1, present : BOOLEAN] BY <1>2 DEF ExchangeTurn
  <2> QED BY <1>1, <1>2, <1>3, <1>4, <1>5, <2>1, <2>2 DEF TypeOK
<1>8. Stages'
  <2>1. ~Open(q) /\ r.pc # "idle" => phase \in {"serving", "draining"}
    BY <1>2 DEF ExchangeTurn
  <2>2. r.pc # "idle" => phase \in {"serving", "draining"} BY <1>2 DEF ExchangeTurn
  <2> QED BY <1>3, <1>4, <2>2 DEF DInv, Stages, Open
<1>9. Undecided'
  <2>1. \A p \in Request \ {q} : p \in done' <=> p \in done BY <1>2 DEF ExchangeTurn
  <2>2. /\ r.pc # "replying" => r.status = Pending /\ q \notin done'
        /\ r.pc \in {"idle", "reading", "handling"} => r.run = 0
    BY <1>2 DEF ExchangeTurn
  <2> QED BY <1>4, <2>1, <2>2 DEF DInv, Undecided
<1>10. RunsAreApart'
  <2>1. r.run \in 0..made' BY <1>2, <1>5 DEF DInv, RunsAreApart, ExchangeTurn
  <2>2. r.run # 0 => \A t \in Task : loop[t].run # r.run
    BY <1>2, <1>5 DEF DInv, RunsAreApart, ExchangeTurn
  <2>3. \A p \in Request \ {q} : /\ r.run # 0 => request[p].run # r.run
                                 /\ request[p].run # 0 => r.run # request[p].run
    BY <1>2, <1>5 DEF DInv, RunsAreApart, ExchangeTurn
  <2>4. \A p \in Request : request'[p].run \in 0..made'
    BY <1>4, <1>5, <2>1 DEF DInv, RunsAreApart
  <2>5. \A t \in Task, p \in Request : request'[p].run # 0 => loop[t].run # request'[p].run
    BY <1>4, <2>2 DEF DInv, RunsAreApart
  <2>6. \A o, p \in Request : o # p /\ request'[p].run # 0 => request'[o].run # request'[p].run
    BY <1>4, <2>3 DEF DInv, RunsAreApart
  <2>7. \A t \in Task : loop[t].run \in 0..made' BY <1>5 DEF DInv, RunsAreApart
  <2>8. \A t, u \in Task : t # u /\ loop[u].run # 0 => loop[t].run # loop[u].run
    BY DEF DInv, RunsAreApart
  <2> QED BY <1>3, <2>4, <2>5, <2>6, <2>7, <2>8 DEF RunsAreApart
<1>11. Dated'
  <2>1. /\ vault.change <= vault'.change /\ vault.change \in Int /\ vault'.change \in Int
        /\ 0 <= vault'.change
    BY <1>1, <1>2 DEF ExchangeTurn, TypeOK
  <2>2. \A t \in Task : loop[t].since \in Int BY <1>1 DEF TypeOK, Loop
  <2>3. \A p \in Request : request[p].since \in Int BY <1>1 DEF TypeOK, Exchange
  <2>4. r.since <= vault'.change
    BY <1>2, <2>1, <2>3 DEF DInv, Dated, ExchangeTurn
  <2>5. \A t \in Task : loop[t].since <= vault'.change BY <2>1, <2>2 DEF DInv, Dated
  <2>6. \A p \in Request \ {q} : request[p].since <= vault'.change
    BY <2>1, <2>3 DEF DInv, Dated
  <2> QED BY <1>3, <1>4, <2>4, <2>5, <2>6 DEF Dated
<1>12. Begun' BY <1>3, <1>5 DEF DInv, Begun
<1>13. BegunByHand'
  <2>1. r.pc = "calling" => r.run \in 1..made' BY <1>2 DEF ExchangeTurn
  <2> QED BY <1>4, <1>5, <2>1 DEF DInv, BegunByHand
<1>14. EventsHaveTheirRun' BY <1>3, <1>6 DEF DInv, EventsHaveTheirRun
<1>15. AnswersAreTrue'
  <2>1. q \in done' <=> r.status \in Answers BY <1>2 DEF ExchangeTurn
  <2>2. r.run # 0 => (r.run \in runs' <=> r.status = Ok) BY <1>2 DEF ExchangeTurn
  <2>3. ASSUME NEW p \in Request \ {q}
        PROVE  /\ p \in done' <=> request[p].status \in {Ok, NoContent}
               /\ request[p].run # 0 => (request[p].run \in runs' <=> request[p].status = Ok)
    <3>1. p \in done' <=> p \in done BY <1>2 DEF ExchangeTurn
    <3>2. request[p].run # 0 => (request[p].run \in runs' <=> request[p].run \in runs)
      BY <1>6 DEF DInv, RunsAreApart
    <3> QED BY <3>1, <3>2 DEF DInv, AnswersAreTrue
  <2> QED BY <1>4, <2>1, <2>2, <2>3 DEF AnswersAreTrue, Answers
<1>16. KeyIsFresh'
  <2>1. r.pc = "calling" => r.key >= r.since
    <3>1. /\ vault.change \in Int /\ 0 <= vault.change /\ vault.change <= vault.change
          /\ request[q].since <= vault.change
          /\ request[q].since \in Int
      BY <1>1 DEF DInv, TypeOK, Dated, Exchange
    <3> QED BY <1>2, <3>1 DEF ExchangeTurn
  <2> QED BY <1>3, <1>4, <2>1 DEF DInv, KeyIsFresh, Running
<1>18. Unrecorded'
  <2>1. ASSUME NEW t \in Task, loop[t].pc \in Early
        PROVE  loop[t].run \in 1..made' \ (runs' \cup events' \cup cut')
    <3>1. loop[t].run \in 1..made /\ loop[t].run \notin runs \cup events \cup cut
      BY <2>1 DEF DInv, Unrecorded, Recorded
    <3>2. runs' = runs \/ loop[t].run # request[q].run
      BY <1>5, <1>6 DEF DInv, RunsAreApart
    <3> QED BY <1>3, <1>5, <1>6, <3>1, <3>2
  <2> QED BY <1>3, <2>1 DEF Unrecorded, Recorded
<1>17. LoopsDieClean'
  <2>1. \A t \in Task : loop[t].pc = "dead" => Excess BY DEF DInv, LoopsDieClean, Excess
  <2>2. Excess' <=> Excess BY <1>3 DEF Excess, Permutations
  <2>3. \A t \in Task : loop'[t].pc = "dead" => loop'[t].run \notin runs' \cup events' \cup cut'
    BY <1>18 DEF Unrecorded, Early, Recorded
  <2> QED BY <1>3, <2>1, <2>2, <2>3 DEF LoopsDieClean, Excess
<1> QED BY <1>7, <1>8, <1>9, <1>10, <1>11, <1>12, <1>13, <1>14, <1>15, <1>16, <1>17, <1>18
        DEF DInv

(* The process keeps it as it starts, stops and crashes, and reconcile as it aborts. *)
LEMMA ProcessKeepsDInv ==
  ASSUME DInv,
         \/ \E f \in File : Start(f)
         \/ Bind \/ BindFails \/ Signal \/ Drained \/ Exit \/ Crash
         \/ \E t \in Task : Abort(t)
         \/ UNCHANGED vars
  PROVE  DInv'
<1> USE DEF DInv
<1>1. /\ NoLoop \in Loop /\ NoLoop.pc = "none" /\ NoLoop.run = 0 /\ NoLoop.since = 0
  BY Bounds DEF NoLoop, Loop
<1>2. /\ NoExchange \in Exchange /\ NoExchange.pc = "idle" /\ NoExchange.run = 0
      /\ NoExchange.since = 0 /\ NoExchange.status = Pending
  BY Bounds, StatusFacts DEF NoExchange, Exchange, Kind
<1>3. /\ vault.change \in Int /\ 0 <= vault.change /\ made \in Nat /\ 0 \in 0..made
  BY DEF TypeOK
<1>4. ASSUME UNCHANGED <<loop, request, vault, made, runs, events, done, cut>>,
             TypeOK', Stages', LoopsDieClean'
      PROVE  DInv'
  BY <1>4 DEF Undecided, RunsAreApart, Dated, Begun, BegunByHand, Unrecorded, Recorded,
              EventsHaveTheirRun, AnswersAreTrue, KeyIsFresh, Running
<1>5. ASSUME NEW f \in File, Start(f) PROVE DInv'
  <2>1. starts' \in 0..MaxStarts BY <1>5, Bounds DEF Start, TypeOK
  <2>2. config' \in May(Config) /\ (phase' # "down" => config' # Absent)
    <3>1. CASE UNCHANGED <<phase, config>> BY <3>1 DEF TypeOK
    <3>2. CASE /\ f # Absent /\ Validate(Parse(f))
               /\ phase' = "starting" /\ config' = Parse(f)
      <4>1. config' \in Config BY <3>2, ParseIsConfig
      <4> QED BY <4>1, DaemonAssumption DEF May
    <3> QED BY <1>5, <3>1, <3>2 DEF Start
  <2>0. phase' \in {"down", "starting"} BY <1>5 DEF Start
  <2>4. TypeOK' BY <1>5, <2>0, <2>1, <2>2 DEF Start, TypeOK
  <2>3. \A t \in Task : loop[t].pc # "dead" BY <1>1, <1>5 DEF Start, Stages
  <2> QED BY <1>4, <1>5, <2>3, <2>4 DEF Start, Stages, Open, LoopsDieClean
<1>6. CASE Bind
  BY <1>4, <1>6 DEF Bind, TypeOK, Stages, Open, LoopsDieClean, Permutations
<1>7. CASE BindFails
  BY <1>4, <1>7 DEF BindFails, StopLoops, TypeOK, Stages, Open, LoopsDieClean, Permutations
<1>8. CASE Signal
  BY <1>4, <1>8 DEF Signal, TypeOK, Stages, Open, LoopsDieClean, Permutations
<1>9. CASE Drained
  BY <1>4, <1>9 DEF Drained, StopLoops, TypeOK, Stages, Open, LoopsDieClean, Permutations
<1>10. CASE Exit
  <2>1. TypeOK' BY <1>1, <1>10 DEF Exit, TypeOK, May
  <2>2. \A t \in Task : loop'[t] = NoLoop BY <1>10 DEF Exit
  <2>3. \A t \in Task : loop[t].pc \notin Recording BY <1>10 DEF Exit, Recording
  <2>4. UNCHANGED <<request, vault, made, runs, events, done, cut>> /\ phase = "stopping"
    BY <1>10 DEF Exit
  <2>5. Stages' BY <2>2, <2>4 DEF Stages, Open
  <2>6. RunsAreApart' /\ Dated' /\ Begun'
    BY <1>1, <1>3, <2>2, <2>4 DEF RunsAreApart, Dated, Begun, Recording
  <2>7. Undecided' /\ BegunByHand' /\ AnswersAreTrue'
    BY <2>4 DEF Undecided, BegunByHand, AnswersAreTrue
  <2>8. EventsHaveTheirRun' BY <2>3, <2>4 DEF EventsHaveTheirRun
  <2>9. Unrecorded' /\ KeyIsFresh' /\ LoopsDieClean'
    BY <1>1, <2>2, <2>4 DEF Unrecorded, Early, KeyIsFresh, Running, Recording, LoopsDieClean
  <2> QED BY <2>1, <2>5, <2>6, <2>7, <2>8, <2>9
<1>11. CASE Crash
  <2>1. /\ \A t \in Task : loop'[t] = NoLoop
        /\ \A q \in Request : request'[q] = NoExchange
        /\ done' = {} /\ UNCHANGED <<vault, made, runs, events>> /\ cut \subseteq cut'
        /\ \A t \in Task : loop[t].pc \in Recording => loop[t].run \in cut'
    BY <1>11 DEF Crash
  <2>2. cut' \subseteq 1..made BY <1>11 DEF Crash, Begun, TypeOK
  <2>3. TypeOK' BY <1>1, <1>2, <1>11, <2>2 DEF Crash, TypeOK, May
  <2>4. Stages' BY <1>2, <2>1 DEF Stages, Open
  <2>5. RunsAreApart' /\ Dated' /\ Begun'
    BY <1>1, <1>2, <1>3, <2>1 DEF RunsAreApart, Dated, Begun, Recording
  <2>6. Undecided' /\ BegunByHand' BY <1>2, <2>1 DEF Undecided, BegunByHand
  <2>7. AnswersAreTrue' BY <1>2, <2>1, StatusFacts DEF AnswersAreTrue, Answers
  <2>8. EventsHaveTheirRun' BY <2>1 DEF EventsHaveTheirRun
  <2>9. Unrecorded' /\ KeyIsFresh' /\ LoopsDieClean'
    BY <1>1, <1>2, <2>1 DEF Unrecorded, Early, KeyIsFresh, Running, Recording, LoopsDieClean
  <2> QED BY <2>3, <2>4, <2>5, <2>6, <2>7, <2>8, <2>9
<1>12. ASSUME NEW t \in Task, Abort(t) PROVE DInv'
  BY <1>4, <1>12 DEF Abort, TypeOK, Stages, Open, LoopsDieClean, Permutations
<1>13. CASE UNCHANGED vars
  BY <1>4, <1>13 DEF vars, TypeOK, Stages, Open, LoopsDieClean, Permutations
<1> QED BY <1>5, <1>6, <1>7, <1>8, <1>9, <1>10, <1>11, <1>12, <1>13

(* The invariant is one. *)
THEOREM DaemonInvariance == Spec => []DInv
<1>1. Init => DInv BY InitDInv
<1>2. DInv /\ [Next]_vars => DInv'
  <2> SUFFICES ASSUME DInv, [Next]_vars PROVE DInv' OBVIOUS
  <2>1. ASSUME NEW t \in Task, Spawn(t) \/ Dropped(t) \/ LoopStep(t) PROVE DInv'
    BY <2>1, LoopKeepsDInv DEF LoopActs
  <2>2. ASSUME NEW q \in Request,
               \/ Accept(q) \/ ReadBody(q) \/ Handle(q) \/ FinishRun(q)
               \/ TimesOut(q) \/ Reply(q) \/ Disconnect(q)
        PROVE  DInv'
    BY <2>2, RequestKeepsDInv DEF RequestActs
  <2> QED BY <2>1, <2>2, ProcessKeepsDInv DEF Next
<1> QED BY <1>1, <1>2, PTL DEF Spec

-----------------------------------------------------------------------------
(* The properties *)

(* The state has its types, and whatever a file leaves out, a daemon that runs has a
   valid configuration. *)
THEOREM DaemonIsTyped == Spec => []TypeOK
<1>1. DInv => TypeOK BY DEF DInv
<1> QED BY <1>1, DaemonInvariance, PTL

(* Only a crash or a store that fails comes between an event and the run it reports,
   for any number of loops, however they are aborted. *)
THEOREM NoEventWithoutRun == Spec => []EventsHaveTheirRun
<1>1. DInv => EventsHaveTheirRun BY DEF DInv
<1> QED BY <1>1, DaemonInvariance, PTL

(* A status tells whether the request changed anything, for any number of requests. *)
THEOREM StatusTellsTheTruth == Spec => []AnswersAreTrue
<1>1. DInv => AnswersAreTrue BY DEF DInv
<1> QED BY <1>1, DaemonInvariance, PTL

(* A run's key is no older than its loop's last wake. *)
THEOREM NoStaleKey == Spec => []KeyIsFresh
<1>1. DInv => KeyIsFresh BY DEF DInv
<1> QED BY <1>1, DaemonInvariance, PTL

(* For every file and any number of loops: one dies only where the file asks for more than
   there can be, and never with a part of its run recorded. *)
THEOREM DeadLoopsAreClean == Spec => []LoopsDieClean
<1>1. DInv => LoopsDieClean BY DEF DInv
<1> QED BY <1>1, DaemonInvariance, PTL

(* The safety part of GracefulStop: when the loops are stopped, every request that was
   accepted has been answered. *)
THEOREM NothingIsCutOff == Spec => [](phase = "stopping" => \A q \in Request : ~Open(q))
<1>1. DInv => (phase = "stopping" => \A q \in Request : ~Open(q)) BY DEF DInv, Stages
<1> QED BY <1>1, DaemonInvariance, PTL
=============================================================================
