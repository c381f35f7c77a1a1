----------------------------- MODULE MCScheduler -----------------------------
(* Small instances of Scheduler for TLC. *)
EXTENDS Scheduler, TLC

CONSTANTS p1, p2

Every(k) == [kind |-> "EveryMinutes", n |-> k]
Cron(k)  == [kind |-> "Cron", n |-> k]

\* Two probes that are never edited: a cron expression and an interval.
MixedSchedules ==
  [p \in Probe |-> [v \in Version |-> IF p = p1 THEN Cron(1) ELSE Every(2)]]

\* The shortest schedules, for the runs that check liveness.
EveryTick == [p \in Probe |-> [v \in Version |-> Every(1)]]

\* An edit takes a probe from a long interval to a short one.
ShorterAfterEdit ==
  [p \in Probe |-> [v \in Version |-> IF v = 1 THEN Every(2) ELSE Every(1)]]

Symmetry == Permutations(Task)
=============================================================================
