----------------------------- MODULE MCProbeData -----------------------------
(* Small instances of ProbeData for TLC. *)
EXTENDS ProbeData, TLC

Symmetry == Permutations(Probe) \cup Permutations(Run) \cup Permutations(Baseline)
            \cup Permutations(Dim)
=============================================================================
