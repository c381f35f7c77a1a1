---------------------------- MODULE AlertPipeline ----------------------------
(***************************************************************************)
(* Alerting on the drift reports of one probe: the part of run_probe_job   *)
(* that follows the drift computation (crates/daemon/src/scheduler.rs),    *)
(* AlertEngine (crates/core/src/alert.rs), the alert store and the alpha   *)
(* ledger (crates/store/src), and the API's handlers of rules and events.  *)
(*                                                                         *)
(* A probe has one loop, and runs asked for by hand raise no alerts, so    *)
(* there is one evaluation at a time.  It reads the rules, then their      *)
(* history, decides, notifies, and writes what it did, one transaction per *)
(* event and per debit; handlers run in between, time passes, and whatever *)
(* it has not written when it is aborted, crashes or meets a failing       *)
(* transaction is lost.                                                    *)
(*                                                                         *)
(* A unit of time is shorter than an evaluation, so two evaluations differ *)
(* in time.  Levels and p-values are whole multiples of some small level.  *)
(***************************************************************************)
EXTENDS Integers, FiniteSets, Functions

CONSTANTS
  Rule,        \* rule ids of the probe, each given to at most one rule ever
  Channel,     \* notification channels
  TargetFpr,   \* target_fpr of each rule
  Active,      \* the rules created active
  ChannelsOf,  \* the channels of each rule
  PValue,      \* combined p-values of the reports
  AlphaBudget, \* sequential.alpha_budget; 0: no sequential control
  Window,      \* sequential.window
  Cooldown,    \* the cooldown; 0: none
  MaxTime      \* bound on the clock

ASSUME AlertAssumption ==
  /\ TargetFpr \in [Rule -> Nat \ {0}]
  /\ Active \subseteq Rule
  /\ ChannelsOf \in [Rule -> SUBSET Channel]
  /\ PValue \subseteq Nat
  /\ AlphaBudget \in Nat /\ Window \in Nat /\ Cooldown \in Nat
  /\ MaxTime \in Nat

Never == -1

VARIABLES
  now,        \* the clock
  \* the store
  issued,     \* the rule ids create_rule has given out
  rules,      \* the rules stored
  events,     \* the events stored
  lastFired,  \* the last-fired index: a time or Never
  ledger,     \* the alpha ledger: each rule's debits
  \* the evaluation
  job,        \* the one under way
  done,       \* when the last one ended
  \* history
  looks,      \* the tests made, with their levels
  sent,       \* the notifications tried
  cut         \* the times of the evaluations cut short

table == <<issued, rules, events, lastFired, ledger>>
vars  == <<now, table, job, done, looks, sent, cut>>

Time  == Nat
Event == [rule : Rule, at : Time, acknowledged : BOOLEAN]
Debit == [at : Time, alpha : Nat]
Look  == [rule : Rule, at : Time, alpha : Nat]

Job == [pc       : {"idle", "history", "evaluate", "notify", "record"},
        p        : PValue \cup {0},
        rules    : SUBSET Rule,                \* get_rules_for_probe
        fired    : [Rule -> Time \cup {Never}],  \* last_fired
        spent    : [Rule -> Nat],              \* spent_alpha
        at       : Time,                       \* Utc::now() of the phase
        toSend   : SUBSET (Rule \X Channel),
        toInsert : SUBSET Rule,                \* outcome.events
        toRecord : [Rule -> Nat]]              \* outcome.spends, 0: none

NoJob == [pc |-> "idle", p |-> 0, rules |-> {}, fired |-> [r \in Rule |-> Never],
          spent |-> [r \in Rule |-> 0], at |-> 0, toSend |-> {}, toInsert |-> {},
          toRecord |-> [r \in Rule |-> 0]]

Alpha(S) == SumFunction([x \in S |-> x.alpha])

-----------------------------------------------------------------------------
(* The ledger *)

\* spent_since(rule, now - window)
SpentInWindow(r) == Alpha({d \in ledger[r] : d.at >= now - Window})

\* record_spend at time t: add the debit, prune what has left the window.
Debited(debits, t, alpha) ==
  {d \in debits \cup {[at |-> t, alpha |-> alpha]} : d.at >= t - Window}

-----------------------------------------------------------------------------
(* The engine *)

\* effective_alpha: target_fpr, capped by what is left of the budget.
EffectiveAlpha(r) ==
  LET remaining == IF AlphaBudget > job.spent[r] THEN AlphaBudget - job.spent[r] ELSE 0
  IN IF AlphaBudget = 0 \/ TargetFpr[r] < remaining THEN TargetFpr[r] ELSE remaining

MutantInCooldown(r) ==
  Cooldown > 0 /\ job.fired[r] # Never /\ now - job.fired[r] < Cooldown - 1
InCooldown(r) ==
  Cooldown > 0 /\ job.fired[r] # Never /\ now - job.fired[r] < Cooldown

Looked == job.rules \cap Active

Firing == {r \in Looked : job.p < EffectiveAlpha(r) /\ ~InCooldown(r)}

\* What the look at each rule debits, whether or not it fires.
MutantSpend(r) ==
  IF AlphaBudget > 0 /\ r \in Firing THEN EffectiveAlpha(r) ELSE 0
Spend(r) == IF AlphaBudget > 0 /\ r \in Looked THEN EffectiveAlpha(r) ELSE 0

-----------------------------------------------------------------------------
(* An evaluation *)

\* The report is computed; the rules are read.
Begin(p) ==
  /\ job.pc = "idle"
  /\ now > done
  /\ job' = [NoJob EXCEPT !.pc = "history", !.p = p, !.rules = rules]
  /\ UNCHANGED <<now, table, done, looks, sent, cut>>

\* The last-fired times, then the spends.  They are read rule by rule; a deletion in
\* between concerns one rule, so reading them at once loses no outcome.
ReadHistory ==
  /\ job.pc = "history"
  /\ job' = [job EXCEPT
       !.pc = "evaluate",
       !.fired = [r \in Rule |-> IF r \in job.rules THEN lastFired[r] ELSE Never],
       !.spent = [r \in Rule |-> IF AlphaBudget > 0 /\ r \in job.rules
                                 THEN SpentInWindow(r) ELSE 0]]
  /\ UNCHANGED <<now, table, done, looks, sent, cut>>

\* evaluate_and_fire: what it decides depends on its arguments and the time it starts.
Evaluate ==
  /\ job.pc = "evaluate"
  /\ job' = [job EXCEPT
       !.pc = "notify",
       !.at = now,
       !.toSend = {rc \in Firing \X Channel : rc[2] \in ChannelsOf[rc[1]]},
       !.toInsert = Firing,
       !.toRecord = [r \in Rule |-> Spend(r)]]
  /\ looks' = looks \cup {[rule |-> r, at |-> now, alpha |-> EffectiveAlpha(r)] :
                            r \in {q \in Looked : EffectiveAlpha(q) > 0}}
  /\ UNCHANGED <<now, table, done, sent, cut>>

\* fire_channel: delivered or not, the next channel is tried.  The rules and their
\* channels are tried one by one, in an order nothing depends on.
MutantTried(r, c) == {r} \X Channel
Tried(r, c) == {<<r, c>>}

Notify(r, c) ==
  /\ job.pc = "notify"
  /\ <<r, c>> \in job.toSend
  /\ job' = [job EXCEPT !.toSend = @ \ Tried(r, c)]
  /\ sent' = sent \cup {<<r, c, job.at>>}
  /\ UNCHANGED <<now, table, done, looks, cut>>

\* insert_event: the event, and the last-fired index, which never goes back.
Newest(prev, t) == IF prev > t THEN prev ELSE t

InsertEvent(r) ==
  /\ job.pc = "notify"
  /\ job.toSend = {}
  /\ r \in job.toInsert
  /\ events' = events \cup {[rule |-> r, at |-> job.at, acknowledged |-> FALSE]}
  /\ lastFired' = [lastFired EXCEPT ![r] = Newest(@, job.at)]
  /\ job' = [job EXCEPT !.toInsert = @ \ {r}]
  /\ UNCHANGED <<now, issued, rules, ledger, done, looks, sent, cut>>

\* The events are written; the debits take the time from here.
Settled == job.toSend = {} /\ job.toInsert = {}

StartRecording ==
  /\ job.pc = "notify"
  /\ Settled
  /\ job' = [job EXCEPT !.pc = "record", !.at = now]
  /\ UNCHANGED <<now, table, done, looks, sent, cut>>

RecordSpend(r) ==
  /\ job.pc = "record"
  /\ job.toRecord[r] > 0
  /\ ledger' = [ledger EXCEPT ![r] = Debited(@, job.at, job.toRecord[r])]
  /\ job' = [job EXCEPT !.toRecord[r] = 0]
  /\ UNCHANGED <<now, issued, rules, events, lastFired, done, looks, sent, cut>>

Finish ==
  /\ job.pc = "record"
  /\ \A r \in Rule : job.toRecord[r] = 0
  /\ job' = NoJob
  /\ done' = now
  /\ UNCHANGED <<now, table, looks, sent, cut>>

\* The loop is aborted, the daemon crashes, or a transaction fails and `?` returns.
CutShort ==
  /\ job.pc # "idle"
  /\ job' = NoJob
  /\ done' = now
  /\ cut' = cut \cup (done + 1 .. now)
  /\ UNCHANGED <<now, table, looks, sent>>

-----------------------------------------------------------------------------
(* The API *)

\* create_rule: a fresh uuid.  The probe need not be stored.
CreateRule(r) ==
  /\ r \notin issued
  /\ issued' = issued \cup {r}
  /\ rules' = rules \cup {r}
  /\ UNCHANGED <<now, events, lastFired, ledger, job, done, looks, sent, cut>>

\* delete_rule: the last-fired entry goes even if there is no such rule (any more).
DeleteRule(r) ==
  /\ r \in issued
  /\ rules' = rules \ {r}
  /\ lastFired' = [lastFired EXCEPT ![r] = Never]
  /\ UNCHANGED <<now, issued, events, ledger, job, done, looks, sent, cut>>

AcknowledgeEvent(e) ==
  /\ e \in events
  /\ events' = (events \ {e}) \cup {[e EXCEPT !.acknowledged = TRUE]}
  /\ UNCHANGED <<now, issued, rules, lastFired, ledger, job, done, looks, sent, cut>>

-----------------------------------------------------------------------------

Tick ==
  /\ now < MaxTime
  /\ now' = now + 1
  /\ UNCHANGED <<table, job, done, looks, sent, cut>>

Init ==
  /\ now = 1
  /\ issued = {}
  /\ rules = {}
  /\ events = {}
  /\ lastFired = [r \in Rule |-> Never]
  /\ ledger = [r \in Rule |-> {}]
  /\ job = NoJob
  /\ done = 0
  /\ looks = {}
  /\ sent = {}
  /\ cut = {}

Next ==
  \/ \E p \in PValue : Begin(p)
  \/ ReadHistory
  \/ Evaluate
  \/ \E r \in Rule, c \in Channel : Notify(r, c)
  \/ \E r \in Rule : InsertEvent(r) \/ RecordSpend(r)
  \/ StartRecording
  \/ Finish
  \/ CutShort
  \/ \E r \in Rule : CreateRule(r) \/ DeleteRule(r)
  \/ \E e \in events : AcknowledgeEvent(e)
  \/ Tick

Spec == Init /\ [][Next]_vars

-----------------------------------------------------------------------------
(* Properties *)

(* Every event is between its neighbours by the cooldown, across runs, restarts, aborted
   evaluations and failing writes, as long as the rule is stored: it relates the event
   just recorded to what a previous run, maybe of a previous process, left in the
   last-fired index. *)
EventsApart ==
  \A e, f \in events :
    (e.rule = f.rule /\ e.rule \in rules /\ e.at < f.at) => f.at - e.at >= Cooldown

(* "Minimum gap between notifications for the same rule" (AlertEngine.cooldown), by the
   times of the evaluations they belong to: only the notification that follows one of
   an evaluation cut short, whose event was lost, may come too early. *)
NotificationsApart ==
  \A m, n \in sent :
    (m[1] = n[1] /\ m[1] \in rules /\ m[3] \notin cut /\ m[3] < n[3])
      => n[3] - m[3] >= Cooldown

(* The cooldown, of what is recorded and of what an operator receives. *)
CooldownKept == EventsApart /\ NotificationsApart

(* A recorded event was notified on every channel of its rule, whichever deliveries
   failed: no channel is skipped because an earlier one could not be reached. *)
EventsWereSent ==
  \A e \in events : \A c \in ChannelsOf[e.rule] : <<e.rule, c, e.at>> \in sent

(* Every notification has its event once the evaluation is over, if it was not cut
   short: what an operator was told of is in the list of events. *)
NotificationsAreRecorded ==
  job.pc = "idle" =>
    \A n \in sent : n[3] \notin cut => \E e \in events : e.rule = n[1] /\ e.at = n[3]

(* The list of events and the notifications tell the same story. *)
EventsMatchNotifications == EventsWereSent /\ NotificationsAreRecorded

(* Over every window, a rule is tested at levels that add up to at most the budget,
   although a look is debited only after its notifications; the looks of an evaluation
   cut short, whose debits are lost, are the only ones that may come on top. *)
LooksWithinBudget ==
  AlphaBudget > 0 =>
    \A l \in looks :
      Alpha({k \in looks : /\ k.rule = l.rule /\ k.at \notin cut
                          /\ k.at <= l.at /\ k.at >= l.at - Window}) <= AlphaBudget

(* The ledger of a rule is bounded by the budget however long the rule is used, at all
   times and whatever is cut short: an entry is pruned before a new one would take the
   total over. *)
LedgerWithinBudget == \A r \in Rule : Alpha(ledger[r]) <= AlphaBudget

(* The point of sequential control: the false alarms to expect are bounded by the
   budget, by what was tested and by what the ledger says was tested. *)
BudgetKept == LooksWithinBudget /\ LedgerWithinBudget

=============================================================================
