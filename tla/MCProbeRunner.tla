---------------------------- MODULE MCProbeRunner ----------------------------
(* Small instances of ProbeRunner for TLC. *)
EXTENDS ProbeRunner

CONSTANTS v1, v2

MCVersion == {v1, v2}

\* An empty answer that names a version, and answers that name none and either one.
MCCompletion ==
  {[text |-> FALSE, version |-> v2]} \cup [text : {TRUE}, version : {Unnamed, v1, v2}]
=============================================================================
