------------------------------- MODULE RunCap -------------------------------
(***************************************************************************)
(* What run_semaphore promises the scheduled runs                          *)
(* (crates/daemon/src/scheduler.rs): no more than Cap of them are under    *)
(* way; a run that cannot begin waits its turn, first come first served;   *)
(* and the end of one, however it ends, begins the next at once.  Permits  *)
(* do not appear: a run is under way, waits, or does neither.              *)
(***************************************************************************)
EXTENDS Naturals, Sequences, FiniteSets, SequencesExt

CONSTANTS
  Task,  \* the loops that ask for runs
  Cap    \* how many runs may be under way at once, at least one

VARIABLES
  running,  \* whose run is under way
  waiting   \* who waits for a run, in the order they came

vars == <<running, waiting>>

Waits(t) == \E i \in DOMAIN waiting : waiting[i] = t

\* There is room, and so nobody is waiting.
Start(t) ==
  /\ t \notin running
  /\ Cardinality(running) < Cap
  /\ waiting = <<>>
  /\ running' = running \cup {t}
  /\ UNCHANGED waiting

Wait(t) ==
  /\ t \notin running /\ ~Waits(t)
  /\ Cardinality(running) = Cap
  /\ waiting' = Append(waiting, t)
  /\ UNCHANGED running

\* A run is over, stored, failed or aborted.
End(t) ==
  /\ t \in running
  /\ waiting = <<>>
  /\ running' = running \ {t}
  /\ UNCHANGED waiting

\* The same when somebody waits: the first takes its place.
HandOver(t) ==
  /\ t \in running
  /\ waiting # <<>>
  /\ running' = (running \ {t}) \cup {Head(waiting)}
  /\ waiting' = Tail(waiting)

\* A waiter is aborted; the others keep their places.
GiveUp(t) ==
  /\ \E i \in DOMAIN waiting : waiting[i] = t /\ waiting' = RemoveAt(waiting, i)
  /\ UNCHANGED running

\* The daemon is started again.
Restart ==
  /\ running' = {}
  /\ waiting' = <<>>

Init ==
  /\ running = {}
  /\ waiting = <<>>

Next ==
  \/ \E t \in Task : Start(t) \/ Wait(t) \/ End(t) \/ HandOver(t) \/ GiveUp(t)
  \/ Restart

Spec == Init /\ [][Next]_vars

-----------------------------------------------------------------------------
(* Nobody is overtaken: a run begins when nobody waits, or it is that of the first
   who waits; and of two who go on waiting the earlier one stays ahead. *)
NobodyIsOvertaken ==
  [][/\ \A t \in running' \ running : waiting = <<>> \/ t = Head(waiting)
     /\ \A i, j \in DOMAIN waiting : \A k, l \in DOMAIN waiting' :
          (waiting'[k] = waiting[i] /\ waiting'[l] = waiting[j] /\ i < j) => k < l]_vars
=============================================================================
