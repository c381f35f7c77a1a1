--------------------------- MODULE DriftAssessment ---------------------------
(***************************************************************************)
(* The verdict on a run (crates/core/src/drift): DriftCalculator::compute,  *)
(* assessment::assess and the permutation tests of twosample.               *)
(*                                                                          *)
(* An embedding is a vector that is not empty (Embedding::new), here a      *)
(* point: those of one dimension are on a line, at integers, and those of   *)
(* two dimensions have no distance.  The vectors of a run and of its        *)
(* baseline may be of several: only the first of each is compared before    *)
(* the tests are.  Statistics are scaled by positive factors that are the   *)
(* same for all values they are compared with, so that they are integers    *)
(* too; standardized scores keep their order and their sign, their standard *)
(* deviation is any positive number.  The generator may draw any relabeling *)
(* and pick any score.  A p-value is the number of draws that reach what    *)
(* was observed: p is one more than that over B + 1.                        *)
(***************************************************************************)
EXTENDS Integers, Sequences, FiniteSets, FiniteSetsExt, SequencesExt

CONSTANTS
  N,              \* the prompts of the probe are 1..N
  Point,          \* where embeddings may be
  Dim,            \* how long the vector of the embedding at a point is
  Cloud,          \* what a prompt may have in the baseline
  Sample,         \* and in the run: sequences of points
  FprNum, FprDen, \* target_fpr is FprNum / FprDen
  NPermutations,  \* alerts.permutations
  Precision,      \* what a score may be multiplied with to be standardized
  Rbf             \* the RBF kernel, scaled, as a function of the distance

ASSUME DriftAssumption ==
  /\ N \in Nat \ {0} /\ NPermutations \in Nat
  /\ FprNum \in Nat \ {0} /\ FprDen \in Nat /\ FprNum < FprDen
  /\ Point \subseteq Int /\ Cloud \subseteq Seq(Point) /\ Sample \subseteq Seq(Point)
  /\ Dim \in [Point -> Nat \ {0}] /\ Precision \subseteq Nat \ {0}

VARIABLES
  cloud,    \* BaselineSnapshot.prompt_clouds
  samples,  \* ProbeRun.embeddings
  pc,       \* "assess", "score", "pooled", "gate" or "done"
  strata,   \* of each prompt that was scored, its contribution and its null pool
  drawn,    \* permutations the gate has made
  reached,  \* those that reached what was observed
  report    \* the DriftReport

input == <<cloud, samples>>
vars  == <<input, pc, strata, drawn, reached, report>>

Prompt == 1..N

\* A prompt's observed score, its null pool and the rank of the former in the latter.
Unscored == [observed |-> 0, pool |-> {}, ahead |-> 0]
NoReport == [method |-> "none", level |-> "None", reached |-> 0]
Skipped  == [NoReport EXCEPT !.method = "error"]

-----------------------------------------------------------------------------
(* Statistics (twosample.rs) *)

Distance(a, b) == IF a <= b THEN b - a ELSE a - b

\* A kernel is a function of the distance.
Energy    == [d \in {Distance(a, b) : a, b \in Point} |-> -d]
RbfKernel == [d \in {Distance(a, b) : a, b \in Point} |-> Rbf[d]]

\* Sums of the kernel over pairs of indices of two groups, with and without i = j.
Along(pts, K, i, Y) == SumFunction([j \in Y |-> K[Distance(pts[i], pts[j])]])
Across(pts, K, X, Y) == SumFunction([i \in X |-> Along(pts, K, i, Y)])
Within(pts, K, X, unbiased) ==
  SumFunction([i \in X |-> Along(pts, K, i, IF unbiased THEN X \ {i} ELSE X)])
Pairs(m, unbiased) == IF unbiased THEN m * (m - 1) ELSE m * m

\* The statistic of the group X against the rest, times the three denominators.
MutantStatistic(pts, K, X, unbiased) ==
  LET Y == DOMAIN pts \ X
      m == Cardinality(X)  n == Cardinality(Y)
      first == Pairs(m, unbiased)  second == Pairs(n, unbiased)
  IN m * n * (second * Within(pts, K, X, unbiased) + first * Within(pts, K, Y, unbiased))
     - first * second * Across(pts, K, X, Y)
Statistic(pts, K, X, unbiased) ==
  LET Y == DOMAIN pts \ X
      m == Cardinality(X)  n == Cardinality(Y)
      first == Pairs(m, unbiased)  second == Pairs(n, unbiased)
  IN m * n * (second * Within(pts, K, X, unbiased) + first * Within(pts, K, Y, unbiased))
     - 2 * first * second * Across(pts, K, X, Y)

\* Whether every vector of two groups is as long as v.
AllAsLong(v, x, y) == \A u \in ToSet(x) \cup ToSet(y) : Dim[u] = Dim[v]

MinSamplesPerGroup == 2
Valid(x, y) ==
  /\ Len(x) >= MinSamplesPerGroup /\ Len(y) >= MinSamplesPerGroup
  /\ AllAsLong(x[1], x, y)

\* After a shuffle the first Len(x) of the pooled points are any Len(x) of them.
Relabelings(x, y) == kSubset(Len(x), 1..(Len(x) + Len(y)))
PermutationNulls(x, y, K, unbiased, draws) ==
  [b \in DOMAIN draws |-> Statistic(x \o y, K, draws[b], unbiased)]
Observed(x, y, K, unbiased) == Statistic(x \o y, K, 1..Len(x), unbiased)

-----------------------------------------------------------------------------
(* Scores and levels (assessment.rs) *)

MutantMinPerms == ((FprDen + FprNum - 1) \div FprNum) - 1
MinPerms == (FprDen + FprNum - 1) \div FprNum   \* the ceiling of 1 / target_fpr
B == IF NPermutations < MinPerms THEN MinPerms ELSE NPermutations

\* Times Len(clo): the mean distance of the point, and of every point of the cloud, to
\* the others of the augmented set.
MutantAugmentedScores(point, clo) ==
  <<SumFunction([l \in DOMAIN clo |-> Distance(point, clo[l])])>>
  \o [j \in DOMAIN clo |-> SumFunction([l \in DOMAIN clo \ {j} |-> Distance(clo[j], clo[l])])]
AugmentedScores(point, clo) ==
  <<SumFunction([l \in DOMAIN clo |-> Distance(point, clo[l])])>>
  \o [j \in DOMAIN clo |-> SumFunction([l \in DOMAIN clo \ {j} |-> Distance(clo[j], clo[l])])
                            + Distance(clo[j], point)]

Reaching(pool, observed) == Cardinality({b \in DOMAIN pool : pool[b] >= observed})

\* max(z, 0), where z is standardized over the pool.
MutantExcursion(pool, x, precision) ==
  precision * (Len(pool) * x - SumFunction(pool))
Excursion(pool, x, precision) ==
  LET above == Len(pool) * x - SumFunction(pool)
  IN IF above > 0 THEN precision * above ELSE 0

Stratum(pool, observed, ahead, precision) ==
  [observed |-> Excursion(pool, observed, precision),
   pool     |-> {Excursion(pool, x, precision) : x \in ToSet(pool)},
   ahead    |-> ahead]

\* severity_from_p: whether p is below target_fpr / part.
Below(count, part) == (1 + count) * FprDen * part < FprNum * (1 + B)
Level(count) ==
  IF ~Below(count, 1) THEN "None"
  ELSE IF ~Below(count, 10) THEN "Low"
  ELSE IF ~Below(count, 100) THEN "Medium"
  ELSE IF ~Below(count, 1000) THEN "High" ELSE "Critical"

-----------------------------------------------------------------------------
(* Steps *)

Usable == {i \in Prompt : cloud[i] # << >> /\ samples[i] # << >>}

Init ==
  /\ cloud \in [Prompt -> Cloud] /\ samples \in [Prompt -> Sample]
  /\ pc = "assess"
  /\ strata = [i \in Prompt |-> Unscored]
  /\ drawn = 0 /\ reached = 0 /\ report = NoReport

\* The first embedding there is, whether or not the other side has any of its prompt.
FirstEmbedding(f) == f[Min({i \in Prompt : f[i] # << >>})][1]

\* Without a usable prompt there is no verdict (EmptyEmbedding, Drift), and none if the
\* embeddings the run and the baseline begin with differ (BaselineEmbeddingMismatch).
Comparable == Usable # {} /\ Dim[FirstEmbedding(samples)] = Dim[FirstEmbedding(cloud)]

Assess ==
  /\ pc = "assess"
  /\ \/ ~Comparable /\ report' = Skipped /\ pc' = "done"
     \/ /\ Comparable /\ UNCHANGED report
        /\ pc' = IF \A i \in Usable : Len(cloud[i]) >= 2 THEN "score" ELSE "pooled"
  /\ UNCHANGED <<input, strata, drawn, reached>>

ToScore == {i \in Usable : strata[i] = Unscored}
IsNext(i) == i \in ToScore /\ \A j \in ToScore : i <= j

\* check_dims, before each prompt is scored.
MutantCheckDims(clo, sam) == AllAsLong(sam[1], clo, << >>)
CheckDims(clo, sam) == AllAsLong(sam[1], clo, sam)

\* prompt_score with two samples or more: a permutation test of the energy distance.
ScoreTwoSample(i) ==
  /\ pc = "score" /\ IsNext(i) /\ CheckDims(cloud[i], samples[i]) /\ Len(samples[i]) >= 2
  /\ \E draws \in [1..B -> Relabelings(cloud[i], samples[i])], precision \in Precision :
       LET nulls == PermutationNulls(cloud[i], samples[i], Energy, FALSE, draws)
           observed == Observed(cloud[i], samples[i], Energy, FALSE)
       IN strata' = [strata EXCEPT ![i] =
                       Stratum(nulls, observed, Reaching(nulls, observed), precision)]
  /\ UNCHANGED <<input, pc, drawn, reached, report>>

\* prompt_score with one sample: its rank among the points of the augmented set.
ScoreConformal(i) ==
  /\ pc = "score" /\ IsNext(i) /\ CheckDims(cloud[i], samples[i]) /\ Len(samples[i]) = 1
  /\ \E precision \in Precision :
       LET scores == AugmentedScores(samples[i][1], cloud[i])
       IN strata' = [strata EXCEPT ![i] =
                       Stratum(scores, scores[1], Reaching(Tail(scores), scores[1]), precision)]
  /\ UNCHANGED <<input, pc, drawn, reached, report>>

\* The first prompt whose vectors differ ends the test (DimensionMismatch), whatever the
\* prompts before it have scored.
ScoreFails(i) ==
  /\ pc = "score" /\ IsNext(i) /\ ~CheckDims(cloud[i], samples[i])
  /\ pc' = "done" /\ report' = Skipped
  /\ UNCHANGED <<input, strata, drawn, reached>>

\* assess_pooled: one permutation test over the points of all usable prompts.
PooledOf(f) == FoldSeq(LAMBDA a, b : a \o b, << >>, [i \in Prompt |-> IF i \in Usable THEN f[i] ELSE << >>])
Pooled ==
  /\ pc = "pooled" /\ pc' = "done"
  /\ LET x == PooledOf(cloud)  y == PooledOf(samples)
     IN \/ /\ Valid(x, y)
           /\ \E draws \in [1..B -> Relabelings(x, y)] :
                LET nulls == PermutationNulls(x, y, RbfKernel, TRUE, draws)
                    ahead == Reaching(nulls, Observed(x, y, RbfKernel, TRUE))
                IN report' = [method |-> "pooled", level |-> Level(ahead), reached |-> ahead]
        \/ ~Valid(x, y) /\ report' = Skipped
  /\ UNCHANGED <<input, strata, drawn, reached>>

\* stratified_permutation_p: a permutation picks a score of every stratum.
Total == SumFunction([i \in Usable |-> strata[i].observed])
Picks == {pick \in [Usable -> UNION {strata[i].pool : i \in Usable}] :
            \A i \in Usable : pick[i] \in strata[i].pool}
GateDraw ==
  /\ \/ pc = "score" /\ ToScore = {}
     \/ pc = "gate" /\ drawn < B
  /\ pc' = "gate" /\ drawn' = drawn + 1
  /\ \E pick \in Picks :
       reached' = IF SumFunction(pick) >= Total THEN reached + 1 ELSE reached
  /\ UNCHANGED <<input, strata, report>>

Verdict ==
  /\ pc = "gate" /\ drawn = B
  /\ pc' = "done"
  /\ report' = [method |-> "per_prompt", level |-> Level(reached), reached |-> reached]
  /\ UNCHANGED <<input, strata, drawn, reached>>

Next ==
  \/ Assess \/ (\E i \in Prompt : ScoreTwoSample(i) \/ ScoreConformal(i) \/ ScoreFails(i))
  \/ Pooled \/ GateDraw \/ Verdict

Spec == Init /\ [][Next]_vars

-----------------------------------------------------------------------------
(* Properties *)

Embeddings(i) == ToSet(cloud[i]) \cup ToSet(samples[i])
OneDimension(S) == \A u, v \in S : Dim[u] = Dim[v]

(* A run is judged if and only if all that its test puts in relation can be.  Where every
   prompt has two embeddings in the baseline that is each prompt for itself, and one that
   mixes dimensions costs the others their verdict; otherwise it is all of them together,
   and there must be more than the one of a single prompt.  That the vectors a run and
   its baseline begin with agree, which is all that is looked at before, is neither enough
   nor implied. *)
JudgedIfComparable ==
  pc = "done" =>
    (report # Skipped <=>
       /\ Comparable
       /\ IF \A i \in Usable : Len(cloud[i]) >= 2
          THEN \A i \in Usable : OneDimension(Embeddings(i))
          ELSE /\ \A i \in Usable : Usable # {i}
               /\ OneDimension(UNION {Embeddings(i) : i \in Usable}))

(* The test can always raise an alert at the target rate: if no permutation reaches what
   was observed, the level is not None. *)
GateResolves ==
  report.method \in {"per_prompt", "pooled"} /\ report.reached = 0 => report.level # "None"

(* A run none of whose prompts is farther from its baseline than its null pool is on
   average does not alert, whatever is drawn. *)
OrdinaryRunsAreQuiet ==
  report.method = "per_prompt" /\ (\A i \in Usable : strata[i].observed <= 0)
    => report.level = "None"

(* The energy distance is one: it is never negative, and zero just for two groups in
   which every point has the same share. *)
EnergyIsADistance ==
  pc = "assess" => \A i \in Usable : OneDimension(Embeddings(i)) =>
    LET x == cloud[i]  y == samples[i]
        Share(s, v) == Cardinality({k \in DOMAIN s : s[k] = v})
        d == Observed(x, y, Energy, FALSE)
    IN /\ d >= 0
       /\ d = 0 <=> \A v \in Point : Share(x, v) * Len(y) = Share(y, v) * Len(x)

(* The conformal p-value holds what its name promises, for any points and with ties: were
   the run's answer exchanged with each of the cloud's, at most j of the k + 1 choices
   would have a p-value of j / (k + 1) or less. *)
ConformalIsExact ==
  pc = "assess" => \A i \in Usable : OneDimension(Embeddings(i)) /\ Len(samples[i]) = 1 =>
    LET pts == samples[i] \o cloud[i]
        Ahead(t) == LET scores == AugmentedScores(pts[t], RemoveAt(pts, t))
                    IN Reaching(Tail(scores), scores[1])
    IN \A j \in DOMAIN pts : Cardinality({t \in DOMAIN pts : 1 + Ahead(t) <= j}) <= j
=============================================================================
