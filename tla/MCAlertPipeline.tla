--------------------------- MODULE MCAlertPipeline ---------------------------
(* Small instances of AlertPipeline for TLC. *)
EXTENDS AlertPipeline, TLC

CONSTANTS r1, r2, c1, c2

\* Two rules tested at different levels; the second notifies on one channel.
Fprs == [r \in Rule |-> IF r = r1 THEN 2 ELSE 3]
Channels == [r \in Rule |-> IF r = r1 THEN Channel ELSE {c1}]
=============================================================================
