-------------------------- MODULE MCDriftAssessment --------------------------
(* Small instances of DriftAssessment for TLC. *)
EXTENDS DriftAssessment

\* Points at distances 1, 2 and 3 of each other, and one of another dimension.
MCPoint == {0, 1, 3, 7}
MCDim   == [p \in MCPoint |-> IF p = 7 THEN 2 ELSE 1]

\* No, one, two and three embeddings, apart and alike.
MCCloud  == {<< >>, <<0>>, <<0, 0>>, <<3, 0>>, <<0, 0, 1>>, <<0, 1, 3>>,
              <<7, 7>>, <<0, 7>>}
MCSample == {<< >>, <<0>>, <<1>>, <<0, 0>>, <<3, 1>>, <<7>>, <<0, 7>>}

\* Falls with the distance and is 1 for none, scaled.
MCRbf == [d \in 0..7 |-> 8 \div (2 ^ d)]
=============================================================================
