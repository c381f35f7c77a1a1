------------------------------- MODULE MCDaemon -------------------------------
(* Small instances of Daemon for TLC. *)
EXTENDS Daemon

CONSTANT token

\* Nothing but what a file must say.
Minimal == [port |-> 1, permits |-> Absent, target_fpr |-> Absent, permutations |-> Absent,
            samples |-> Absent, auth |-> Absent, sequential |-> Absent]

\* One permit, and an API key; sequential control with the default window, with one beyond
\* any duration, and with one beyond the calendar; more permutations and more samples than
\* there is room for, the former for a tiny target rate; and what is refused: no file,
\* port 0, no permits or more than a semaphore takes, a key that is missing, and a target
\* rate of 100 %.
MCFile ==
  {[Minimal EXCEPT !.permits = 1, !.auth = [enabled |-> TRUE, api_keys |-> {token}],
                   !.sequential = [window |-> MaxSeconds + 1, budget |-> Absent]],
   [Minimal EXCEPT !.permits = 1, !.sequential = [window |-> Absent, budget |-> Absent]],
   [Minimal EXCEPT !.sequential = [window |-> Calendar + 1, budget |-> 1]],
   [Minimal EXCEPT !.target_fpr = [num |-> 1, den |-> MaxNulls + 1]],
   [Minimal EXCEPT !.permits = MaxPermits, !.samples = MaxAnswers + 1],
   Absent,
   [Minimal EXCEPT !.port = 0], [Minimal EXCEPT !.permits = 0],
   [Minimal EXCEPT !.permits = MaxPermits + 1],
   [Minimal EXCEPT !.auth = [enabled |-> TRUE, api_keys |-> {}]],
   [Minimal EXCEPT !.target_fpr = [num |-> 100, den |-> 100]]}
=============================================================================
