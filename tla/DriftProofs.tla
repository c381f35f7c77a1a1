----------------------------- MODULE DriftProofs -----------------------------
(* Theorems about DriftAssessment, for every number of prompts and permutations, every
   target rate, and clouds and samples of any size. *)
EXTENDS DriftAssessment, SumTheorems

\* The level of a verdict is that of the number of permutations that reached it.
ReportAgrees ==
  report.method \in {"per_prompt", "pooled"} => report.level = Level(report.reached)

(* min_perms_for_resolution: at least 1 / target_fpr permutations. *)
LEMMA EnoughPermutations == MinPerms \in Nat /\ FprNum * MinPerms >= FprDen
<1> DEFINE a == FprDen + FprNum - 1
<1>1. FprNum \in Nat /\ FprNum > 0 /\ FprDen \in Nat /\ a \in Nat
  BY DriftAssumption
<1>2. /\ a \div FprNum \in Nat
      /\ a < FprNum * (a \div FprNum) + FprNum
  <2> HIDE DEF a
  <2> QED BY <1>1, SMT
<1>3. QED BY <1>1, <1>2, SMT DEF MinPerms

(* With that many, or the configured number if it is larger, 1 / (B + 1) is below the
   target rate. *)
LEMMA SmallestPValueIsBelowTarget == Below(0, 1)
<1>1. FprNum \in Nat /\ FprNum > 0 /\ FprDen \in Nat /\ NPermutations \in Nat
  BY DriftAssumption
<1>2. B \in Nat /\ B >= MinPerms
  BY <1>1, EnoughPermutations DEF B
<1>3. FprNum * B >= FprNum * MinPerms
  BY <1>1, <1>2, EnoughPermutations, SMT
<1>4. FprNum * (1 + B) = FprNum + FprNum * B
  BY <1>1, <1>2, SMT
<1>5. FprDen < FprNum * (1 + B)
  BY <1>1, <1>2, <1>3, <1>4, EnoughPermutations, SMT
<1>6. (1 + 0) * FprDen * 1 = FprDen
  BY <1>1
<1>7. QED BY <1>5, <1>6 DEF Below

(* assess_pooled: a verdict with the level of its p-value, or none, as its two groups of
   points are valid or not. *)
LEMMA PooledReport ==
  ASSUME Pooled
  PROVE  IF Valid(PooledOf(cloud), PooledOf(samples))
         THEN \E n : report' = [method |-> "pooled", level |-> Level(n), reached |-> n]
         ELSE report' = Skipped
<1> DEFINE x == PooledOf(cloud)
           y == PooledOf(samples)
<1> HIDE DEF x, y
<1>1. \/ /\ Valid(x, y)
         /\ \E draws \in [1..B -> Relabelings(x, y)] :
              LET nulls == PermutationNulls(x, y, RbfKernel, TRUE, draws)
                  ahead == Reaching(nulls, Observed(x, y, RbfKernel, TRUE))
              IN report' = [method |-> "pooled", level |-> Level(ahead), reached |-> ahead]
      \/ ~Valid(x, y) /\ report' = Skipped
  BY DEF Pooled, x, y
<1>2. IF Valid(x, y)
      THEN \E n : report' = [method |-> "pooled", level |-> Level(n), reached |-> n]
      ELSE report' = Skipped
  BY <1>1
<1>. QED BY <1>2 DEF x, y

(* A pooled run is left without a verdict just where the groups are not valid. *)
LEMMA PooledVerdict ==
  ASSUME Pooled
  PROVE  report' = Skipped <=> ~Valid(PooledOf(cloud), PooledOf(samples))
BY PooledReport DEF Skipped, NoReport

(* Every verdict is given the level of its p-value: no step changes a report once it is
   made, and the two that make one compute it from the number they report. *)
THEOREM LevelsFollowTheTest == Spec => []ReportAgrees
<1>1. Init => ReportAgrees
  BY DEF Init, NoReport, ReportAgrees
<1>2. ReportAgrees /\ [Next]_vars => ReportAgrees'
  <2> SUFFICES ASSUME ReportAgrees, [Next]_vars PROVE ReportAgrees'
    OBVIOUS
  <2>1. CASE Assess
    BY <2>1 DEF Assess, ReportAgrees, Skipped, NoReport, Level, Below
  <2>2. ASSUME NEW i \in Prompt, ScoreTwoSample(i) \/ ScoreConformal(i) PROVE ReportAgrees'
    <3>1. report' = report
      BY <2>2 DEF ScoreTwoSample, ScoreConformal
    <3>2. QED BY <3>1 DEF ReportAgrees
  <2>8. ASSUME NEW i \in Prompt, ScoreFails(i) PROVE ReportAgrees'
    BY <2>8 DEF ScoreFails, ReportAgrees, Skipped, NoReport
  <2>3. CASE Pooled
    BY <2>3, PooledReport DEF ReportAgrees, Skipped, NoReport
  <2>4. CASE GateDraw
    BY <2>4 DEF GateDraw, ReportAgrees
  <2>5. CASE Verdict
    BY <2>5 DEF Verdict, ReportAgrees
  <2>6. CASE UNCHANGED vars
    BY <2>6 DEF vars, ReportAgrees
  <2>7. QED BY <2>1, <2>2, <2>8, <2>3, <2>4, <2>5, <2>6 DEF Next
<1>3. QED BY <1>1, <1>2, PTL DEF Spec

(* assess: whatever the target rate and the configured number of permutations, a verdict
   that no permutation reaches is an alert, in both modes. *)
THEOREM AlwaysAbleToAlert == Spec => []GateResolves
<1>1. ReportAgrees => GateResolves
  <2>1. Level(0) # "None"
    BY SmallestPValueIsBelowTarget DEF Level
  <2>2. QED BY <2>1 DEF ReportAgrees, GateResolves
<1>2. QED BY <1>1, LevelsFollowTheTest, PTL

-----------------------------------------------------------------------------
(* Scores are integers, excursions naturals *)

(* Sums over functions, and over sequences. *)
LEMMA SumOfFunction ==
  ASSUME NEW f, IsFiniteSet(DOMAIN f), Weights(f, DOMAIN f)
  PROVE  SumFunction(f) = SumFunctionOnSet(f, DOMAIN f) /\ SumFunction(f) \in Int
<1>1. SumFunction(f) = SumFunctionOnSet(f, DOMAIN f)
  BY DEF SumFunction
<1>. QED BY <1>1, SumType

(* There are n indices up to n. *)
LEMMA IndicesAreFinite == \A n \in Nat : IsFiniteSet(1..n) /\ Cardinality(1..n) = n
<1> SUFFICES ASSUME NEW n \in Nat PROVE IsFiniteSet(1..n) /\ Cardinality(1..n) = n
  OBVIOUS
<1>1. 1 \in Int /\ n \in Int
  OBVIOUS
<1>. QED BY <1>1, FS_Interval

(* A sum of integers is one. *)
LEMMA SumOfSequence ==
  ASSUME NEW s \in Seq(Int)
  PROVE  SumFunction(s) \in Int
<1>1. DOMAIN s = 1..Len(s) /\ Len(s) \in Nat /\ Weights(s, DOMAIN s)
  BY DEF Weights
<1>. QED BY <1>1, IndicesAreFinite, SumOfFunction

(* Distances are not negative. *)
LEMMA DistanceType == \A a, b \in Int : Distance(a, b) \in Nat
  BY DEF Distance

(* The energy kernel is the distance, negated. *)
LEMMA EnergyValue == \A a, b \in Point : Energy[Distance(a, b)] = -Distance(a, b)
  BY DEF Energy

\* K is an integer for any two of the points.
Kernel(pts, K) == \A i, j \in DOMAIN pts : K[Distance(pts[i], pts[j])] \in Int

(* The elements of a sequence of points are points, and integers. *)
LEMMA PointsOfSequence ==
  ASSUME NEW pts \in Seq(Point), NEW i \in DOMAIN pts
  PROVE  pts[i] \in Point /\ pts[i] \in Int
<1>1. DOMAIN pts = 1..Len(pts) /\ pts \in [1..Len(pts) -> Point]
  OBVIOUS
<1>2. Point \subseteq Int
  BY DriftAssumption
<1>. QED BY <1>1, <1>2

(* A function on 1..n is a sequence. *)
LEMMA SequenceOf ==
  ASSUME NEW S, NEW n \in Nat, NEW f \in [1..n -> S]
  PROVE  f \in Seq(S) /\ Len(f) = n
OBVIOUS

(* The energy kernel is an integer for any two points. *)
LEMMA EnergyIsAKernel == ASSUME NEW pts \in Seq(Point) PROVE Kernel(pts, Energy)
<1> SUFFICES ASSUME NEW i \in DOMAIN pts, NEW j \in DOMAIN pts
             PROVE  Energy[Distance(pts[i], pts[j])] \in Int
  BY DEF Kernel
<1>1. pts[i] \in Point /\ pts[j] \in Point /\ pts[i] \in Int /\ pts[j] \in Int
  BY PointsOfSequence
<1>2. Energy[Distance(pts[i], pts[j])] = -Distance(pts[i], pts[j])
  BY <1>1, EnergyValue
<1>3. Distance(pts[i], pts[j]) \in Nat
  BY <1>1, DistanceType
<1>. QED BY <1>2, <1>3

(* Sums of a kernel are integers: over one group, for one point ... *)
LEMMA AlongType ==
  ASSUME NEW pts \in Seq(Point), NEW K, Kernel(pts, K),
         NEW i \in DOMAIN pts, NEW Y \in SUBSET DOMAIN pts
  PROVE  Along(pts, K, i, Y) \in Int
<1> DEFINE f == [j \in Y |-> K[Distance(pts[i], pts[j])]]
<1>1. IsFiniteSet(Y)
  <2>1. DOMAIN pts = 1..Len(pts) /\ Len(pts) \in Nat
    OBVIOUS
  <2>. QED BY <2>1, IndicesAreFinite, FS_Subset
<1>2. DOMAIN f = Y /\ Weights(f, Y)
  BY DEF Kernel, Weights
<1> HIDE DEF f
<1>3. SumFunction(f) \in Int
  BY <1>1, <1>2, SumOfFunction
<1>. QED BY <1>3 DEF f, Along

(* ... over pairs of one group or of two ... *)
LEMMA AcrossType ==
  ASSUME NEW pts \in Seq(Point), NEW K, Kernel(pts, K),
         NEW X \in SUBSET DOMAIN pts, NEW Y \in SUBSET DOMAIN pts, NEW unbiased
  PROVE  /\ Across(pts, K, X, Y) \in Int
         /\ Within(pts, K, X, unbiased) \in Int
<1> DEFINE f == [i \in X |-> Along(pts, K, i, Y)]
           g == [i \in X |-> Along(pts, K, i, IF unbiased THEN X \ {i} ELSE X)]
<1>1. IsFiniteSet(X)
  <2>1. DOMAIN pts = 1..Len(pts) /\ Len(pts) \in Nat
    OBVIOUS
  <2>. QED BY <2>1, IndicesAreFinite, FS_Subset
<1>2. DOMAIN f = X /\ Weights(f, X) /\ DOMAIN g = X /\ Weights(g, X)
  BY AlongType DEF Weights
<1> HIDE DEF f, g
<1>3. SumFunction(f) \in Int /\ SumFunction(g) \in Int
  BY <1>1, <1>2, SumOfFunction
<1>. QED BY <1>3 DEF f, g, Across, Within

(* ... and so is the statistic. *)
LEMMA StatisticType ==
  ASSUME NEW pts \in Seq(Point), NEW K, Kernel(pts, K),
         NEW X \in SUBSET DOMAIN pts, NEW unbiased \in BOOLEAN
  PROVE  Statistic(pts, K, X, unbiased) \in Int
<1> DEFINE Y == DOMAIN pts \ X
           m == Cardinality(X)
           n == Cardinality(Y)
           first == Pairs(m, unbiased)
           second == Pairs(n, unbiased)
<1>1. Y \in SUBSET DOMAIN pts
  OBVIOUS
<1>2. m \in Int /\ n \in Int
  <2>1. DOMAIN pts = 1..Len(pts) /\ Len(pts) \in Nat
    OBVIOUS
  <2>. QED BY <2>1, IndicesAreFinite, FS_Subset, FS_CardinalityType
<1> HIDE DEF Y, m, n
<1>3. first \in Int /\ second \in Int
  BY <1>2 DEF Pairs
<1> HIDE DEF first, second
<1> DEFINE wx == Within(pts, K, X, unbiased)
           wy == Within(pts, K, Y, unbiased)
           a  == Across(pts, K, X, Y)
<1>4. wx \in Int /\ wy \in Int /\ a \in Int
  BY <1>1, AcrossType
<1>5. Statistic(pts, K, X, unbiased)
        = m * n * (second * wx + first * wy) - 2 * first * second * a
  BY DEF Statistic, Y, m, n, first, second
<1> HIDE DEF wx, wy, a
<1>. QED BY <1>2, <1>3, <1>4, <1>5

(* The number of permutations is one. *)
LEMMA BType == B \in Nat
<1>1. MinPerms \in Nat /\ NPermutations \in Nat
  BY EnoughPermutations, DriftAssumption
<1>. QED BY <1>1 DEF B

(* prompt_score: the scores of a prompt that are compared. *)
LEMMA TwoSampleType ==
  ASSUME NEW x \in Seq(Point), NEW y \in Seq(Point),
         NEW draws \in [1..B -> Relabelings(x, y)]
  PROVE  /\ PermutationNulls(x, y, Energy, FALSE, draws) \in Seq(Int)
         /\ Observed(x, y, Energy, FALSE) \in Int
<1> DEFINE pts == x \o y
<1>1. /\ pts \in Seq(Point) /\ DOMAIN pts = 1..(Len(x) + Len(y))
      /\ 1..Len(x) \in SUBSET DOMAIN pts
  OBVIOUS
<1>2. \A b \in 1..B : draws[b] \in SUBSET DOMAIN pts
  BY <1>1 DEF Relabelings, kSubset
<1> HIDE DEF pts
<1>3. \A X \in SUBSET DOMAIN pts : Statistic(pts, Energy, X, FALSE) \in Int
  BY <1>1, EnergyIsAKernel, StatisticType
<1>4. Observed(x, y, Energy, FALSE) \in Int
  BY <1>1, <1>3 DEF Observed, pts
<1>5. PermutationNulls(x, y, Energy, FALSE, draws) \in [1..B -> Int]
  BY <1>2, <1>3 DEF PermutationNulls, pts
<1>. QED BY <1>4, <1>5, BType, SequenceOf

(* augmented_scores: a score for the answer and for every point of the cloud. *)
LEMMA AugmentedType ==
  ASSUME NEW point \in Point, NEW clo \in Seq(Point)
  PROVE  /\ AugmentedScores(point, clo) \in Seq(Int)
         /\ Len(AugmentedScores(point, clo)) = Len(clo) + 1
<1> DEFINE head == [l \in DOMAIN clo |-> Distance(point, clo[l])]
           others(j) == [l \in DOMAIN clo \ {j} |-> Distance(clo[j], clo[l])]
           rest == [j \in DOMAIN clo |-> SumFunction(others(j)) + Distance(clo[j], point)]
<1>1. DOMAIN clo = 1..Len(clo) /\ Len(clo) \in Nat /\ IsFiniteSet(DOMAIN clo)
  BY IndicesAreFinite
<1>2. point \in Int /\ \A j \in DOMAIN clo : clo[j] \in Int
  BY PointsOfSequence, DriftAssumption
<1>3. SumFunction(head) \in Int
  <2>1. DOMAIN head = DOMAIN clo /\ Weights(head, DOMAIN clo)
    BY <1>2, DistanceType DEF Weights
  <2> HIDE DEF head
  <2>. QED BY <1>1, <2>1, SumOfFunction
<1>4. \A j \in DOMAIN clo : SumFunction(others(j)) \in Int
  <2> SUFFICES ASSUME NEW j \in DOMAIN clo PROVE SumFunction(others(j)) \in Int
    OBVIOUS
  <2>1. DOMAIN others(j) = DOMAIN clo \ {j} /\ Weights(others(j), DOMAIN clo \ {j})
    BY <1>2, DistanceType DEF Weights
  <2>2. IsFiniteSet(DOMAIN clo \ {j})
    BY <1>1, FS_Subset
  <2> HIDE DEF others
  <2>. QED BY <2>1, <2>2, SumOfFunction
<1> HIDE DEF head, others
<1>5. \A j \in DOMAIN clo : rest[j] \in Int
  <2> SUFFICES ASSUME NEW j \in DOMAIN clo
               PROVE  SumFunction(others(j)) + Distance(clo[j], point) \in Int
    OBVIOUS
  <2>1. Distance(clo[j], point) \in Nat
    BY <1>2, DistanceType
  <2>2. SumFunction(others(j)) \in Int
    BY <1>4
  <2>. QED BY <2>1, <2>2
<1>6. rest \in Seq(Int) /\ Len(rest) = Len(clo)
  <2>1. rest \in [1..Len(clo) -> Int]
    BY <1>1, <1>5
  <2> HIDE DEF rest
  <2>. QED BY <1>1, <2>1, SequenceOf
<1>7. AugmentedScores(point, clo) = <<SumFunction(head)>> \o rest
  BY DEF AugmentedScores, head, others
<1> HIDE DEF rest
<1>. QED BY <1>1, <1>3, <1>6, <1>7

(* max(z, 0): an excursion is a natural, whatever the pool. *)
LEMMA StratumType ==
  ASSUME NEW pool \in Seq(Int), NEW x \in Int, NEW ahead, NEW precision \in Precision
  PROVE  /\ Stratum(pool, x, ahead, precision).observed \in Nat
         /\ Stratum(pool, x, ahead, precision).pool \subseteq Nat
<1>1. SumFunction(pool) \in Int /\ precision \in Nat /\ Len(pool) \in Int
  BY SumOfSequence, DriftAssumption
<1>2. ASSUME NEW z \in Int PROVE Excursion(pool, z, precision) \in Nat
  <2> DEFINE above == Len(pool) * z - SumFunction(pool)
  <2>1. above \in Int
    BY <1>1
  <2>2. Excursion(pool, z, precision) = IF above > 0 THEN precision * above ELSE 0
    BY DEF Excursion
  <2> HIDE DEF above
  <2>. QED BY <1>1, <2>1, <2>2
<1>3. \A z \in ToSet(pool) : z \in Int
  BY DEF ToSet
<1>. QED BY <1>2, <1>3 DEF Stratum

-----------------------------------------------------------------------------
(* The gate *)

(* What is compared, once it is scored. *)
GateShape ==
  /\ cloud \in [Prompt -> Seq(Point)] /\ samples \in [Prompt -> Seq(Point)]
  /\ strata = [i \in Prompt |-> strata[i]]
  /\ \A i \in Prompt : strata[i].observed \in Nat /\ strata[i].pool \subseteq Nat

Ordinary == \A i \in Usable : strata[i].observed <= 0

(* Every draw reaches the total of a run that is ordinary; none is made before all of
   its prompts are scored, and the verdict is about all of them. *)
GateCount ==
  /\ drawn \in Nat
  /\ pc \in {"assess", "score", "pooled"} => drawn = 0 /\ reached = 0
  /\ pc # "done" => report = NoReport
  /\ Ordinary => reached = drawn
  /\ report.method = "per_prompt" => drawn = B /\ report.reached = reached

GInv == GateShape /\ GateCount

(* There are finitely many usable prompts. *)
LEMMA UsableIsFinite == IsFiniteSet(Usable) /\ Usable \subseteq Prompt
<1>1. IsFiniteSet(Prompt)
  BY IndicesAreFinite, DriftAssumption DEF Prompt
<1>2. Usable \in SUBSET Prompt
  BY DEF Usable
<1>. QED BY <1>1, <1>2, FS_Subset

(* Before a run is assessed nothing is scored or drawn. *)
LEMMA GateInit == Init => GInv
<1> SUFFICES ASSUME Init PROVE GInv
  OBVIOUS
<1>1. GateShape
  <2>1. Cloud \subseteq Seq(Point) /\ Sample \subseteq Seq(Point)
    BY DriftAssumption
  <2>2. strata = [i \in Prompt |-> Unscored]
    BY DEF Init
  <2>3. cloud \in [Prompt -> Seq(Point)] /\ samples \in [Prompt -> Seq(Point)]
    BY <2>1 DEF Init
  <2>. QED BY <2>2, <2>3 DEF GateShape, Unscored
<1>2. GateCount
  BY DEF Init, GateCount, NoReport
<1>. QED BY <1>1, <1>2 DEF GInv

(* A prompt is scored: nothing is drawn yet. *)
LEMMA ScoreGate ==
  ASSUME GInv, NEW i \in Prompt, ScoreTwoSample(i) \/ ScoreConformal(i)
  PROVE  GInv'
<1>1. /\ pc = "score" /\ UNCHANGED <<cloud, samples, pc, drawn, reached, report>>
      /\ i \in Usable /\ IsNext(i)
  BY DEF ScoreTwoSample, ScoreConformal, IsNext, ToScore, input
<1>2. cloud[i] \in Seq(Point) /\ samples[i] \in Seq(Point)
  BY DEF GInv, GateShape
<1>3. \E x : /\ x.observed \in Nat /\ x.pool \subseteq Nat
             /\ strata' = [strata EXCEPT ![i] = x]
  <2>1. CASE ScoreTwoSample(i)
    <3>1. PICK draws \in [1..B -> Relabelings(cloud[i], samples[i])],
               precision \in Precision :
            LET nulls == PermutationNulls(cloud[i], samples[i], Energy, FALSE, draws)
                observed == Observed(cloud[i], samples[i], Energy, FALSE)
            IN strata' = [strata EXCEPT ![i] =
                            Stratum(nulls, observed, Reaching(nulls, observed), precision)]
      BY <2>1 DEF ScoreTwoSample
    <3> DEFINE nulls == PermutationNulls(cloud[i], samples[i], Energy, FALSE, draws)
               observed == Observed(cloud[i], samples[i], Energy, FALSE)
    <3>2. nulls \in Seq(Int) /\ observed \in Int
      BY <1>2, TwoSampleType
    <3>3. strata' = [strata EXCEPT ![i] =
                       Stratum(nulls, observed, Reaching(nulls, observed), precision)]
      BY <3>1
    <3> HIDE DEF nulls, observed
    <3>. QED BY <3>2, <3>3, StratumType
  <2>2. CASE ScoreConformal(i)
    <3>1. PICK precision \in Precision :
            LET scores == AugmentedScores(samples[i][1], cloud[i])
            IN strata' = [strata EXCEPT ![i] =
                            Stratum(scores, scores[1], Reaching(Tail(scores), scores[1]),
                                    precision)]
      BY <2>2 DEF ScoreConformal
    <3> DEFINE scores == AugmentedScores(samples[i][1], cloud[i])
    <3>2. Len(samples[i]) = 1
      BY <2>2 DEF ScoreConformal
    <3>3. samples[i][1] \in Point
      BY <1>2, <3>2
    <3>4. scores \in Seq(Int) /\ Len(scores) = Len(cloud[i]) + 1
      BY <1>2, <3>3, AugmentedType
    <3>5. strata' = [strata EXCEPT ![i] =
                       Stratum(scores, scores[1], Reaching(Tail(scores), scores[1]), precision)]
      BY <3>1
    <3>6. Len(cloud[i]) \in Nat
      BY <1>2
    <3> HIDE DEF scores
    <3>7. scores[1] \in Int
      BY <3>4, <3>6
    <3>. QED BY <3>4, <3>5, <3>7, StratumType
  <2>. QED BY <2>1, <2>2
<1>4. GateShape'
  BY <1>1, <1>3 DEF GInv, GateShape
<1>5. GateCount'
  BY <1>1 DEF GInv, GateCount, NoReport
<1>. QED BY <1>4, <1>5 DEF GInv

(* A draw adds up naturals, so it reaches zero. *)
LEMMA DrawReaches ==
  ASSUME GateShape, Ordinary, NEW pick \in Picks
  PROVE  SumFunction(pick) >= Total
<1>1. /\ DOMAIN pick = Usable
      /\ \A i \in Usable : pick[i] \in Nat
  BY UsableIsFinite DEF Picks, GateShape
<1>2. SumFunction(pick) >= 0 /\ SumFunction(pick) \in Int
  <2>1. Weights(pick, Usable) /\ Usable \in SUBSET Usable
    BY <1>1 DEF Weights
  <2>2. SumFunction(pick) = SumFunctionOnSet(pick, Usable) /\ SumFunction(pick) \in Int
    BY <1>1, <2>1, UsableIsFinite, SumOfFunction
  <2>3. 0 <= SumFunctionOnSet(pick, Usable)
    BY <1>1, <2>1, UsableIsFinite, SumOfSubset
  <2>. QED BY <2>2, <2>3
<1>3. Total = 0
  <2> DEFINE f == [i \in Usable |-> strata[i].observed]
  <2>1. DOMAIN f = Usable /\ \A i \in Usable : f[i] = 0
    <3> SUFFICES ASSUME NEW i \in Usable PROVE strata[i].observed = 0
      OBVIOUS
    <3>1. strata[i].observed \in Nat /\ strata[i].observed <= 0
      BY UsableIsFinite DEF GateShape, Ordinary
    <3>. QED BY <3>1
  <2>2. Total = SumFunction(f)
    BY DEF Total
  <2> HIDE DEF f
  <2>3. Weights(f, Usable)
    BY <2>1 DEF Weights
  <2>4. SumFunction(f) = SumFunctionOnSet(f, Usable)
    BY <2>1, <2>3, UsableIsFinite, SumOfFunction
  <2>. QED BY <2>1, <2>2, <2>4, UsableIsFinite, SumZero
<1>. QED BY <1>2, <1>3

(* Every step keeps the counts of the gate: only a scored prompt has a pool, and only
   permutations are counted. *)
LEMMA GateStep == GInv /\ [Next]_vars => GInv'
<1> SUFFICES ASSUME GInv, [Next]_vars PROVE GInv'
  OBVIOUS
<1>1. CASE Assess \/ Pooled
  <2>1. /\ UNCHANGED <<cloud, samples, strata, drawn, reached>>
        /\ pc \in {"assess", "pooled"}
        /\ pc' # "done" => pc' \in {"score", "pooled"} /\ report' = report
    BY <1>1 DEF Assess, Pooled, input
  <2>2. report = NoReport
    BY <2>1 DEF GInv, GateCount
  <2>3. report'.method # "per_prompt"
    <3>1. CASE Assess
      BY <2>2, <3>1 DEF Assess, Skipped, NoReport
    <3>2. CASE Pooled
      BY <3>2, PooledReport DEF Skipped, NoReport
    <3>. QED BY <1>1, <3>1, <3>2
  <2>. QED BY <2>1, <2>2, <2>3 DEF GInv, GateShape, GateCount, Ordinary, Usable
<1>2. CASE \E i \in Prompt : ScoreTwoSample(i) \/ ScoreConformal(i)
  BY <1>2, ScoreGate
<1>6. CASE \E i \in Prompt : ScoreFails(i)
  <2>1. /\ UNCHANGED <<cloud, samples, strata, drawn, reached>>
        /\ pc = "score" /\ pc' = "done" /\ report'.method # "per_prompt"
    BY <1>6 DEF ScoreFails, Skipped, NoReport, input
  <2>. QED BY <2>1 DEF GInv, GateShape, GateCount, Ordinary, Usable
<1>3. CASE GateDraw
  <2>1. PICK pick \in Picks : reached' = IF SumFunction(pick) >= Total THEN reached + 1
                                                                     ELSE reached
    BY <1>3 DEF GateDraw
  <2>2. /\ UNCHANGED <<cloud, samples, strata, report>> /\ drawn' = drawn + 1
        /\ pc # "done" /\ pc' = "gate"
    BY <1>3 DEF GateDraw, input
  <2>3. Ordinary => SumFunction(pick) >= Total
    BY DrawReaches DEF GInv
  <2>4. GateShape'
    BY <2>2 DEF GInv, GateShape
  <2>5. Ordinary' => reached' = drawn'
    <3>1. Ordinary' => Ordinary
      BY <2>2 DEF Ordinary, Usable
    <3>. QED BY <2>1, <2>2, <2>3, <3>1 DEF GInv, GateCount
  <2>6. GateCount'
    BY <2>2, <2>5 DEF GInv, GateCount, NoReport
  <2>. QED BY <2>4, <2>6 DEF GInv
<1>4. CASE Verdict
  <2>1. /\ UNCHANGED <<cloud, samples, strata, drawn, reached>>
        /\ pc' = "done" /\ drawn = B /\ report'.reached = reached
    BY <1>4 DEF Verdict, input
  <2>. QED BY <2>1 DEF GInv, GateShape, GateCount, Ordinary, Usable
<1>5. CASE UNCHANGED vars
  BY <1>5 DEF vars, input, GInv, GateShape, GateCount, Ordinary, Usable
<1>. QED BY <1>1, <1>2, <1>3, <1>4, <1>5, <1>6 DEF Next

(* stratified_permutation_p counts permutations that were made, at most B of them. *)
THEOREM GateInvariance == Spec => []GInv
BY GateInit, GateStep, PTL DEF Spec

(* severity_from_p: a p-value of 1 is no alert. *)
LEMMA CertainIsNone == Level(B) = "None"
<1>1. FprNum \in Nat /\ FprDen \in Nat /\ FprNum < FprDen /\ B \in Nat
  BY BType, DriftAssumption
<1> DEFINE b == 1 + B
<1>2. b \in Nat /\ b > 0
  BY <1>1
<1>3. (1 + B) * FprDen * 1 = b * FprDen /\ FprNum * (1 + B) = b * FprNum
  BY <1>1
<1> HIDE DEF b
<1>4. ~(b * FprDen < b * FprNum)
  BY <1>1, <1>2
<1>5. ~Below(B, 1)
  BY <1>3, <1>4 DEF Below
<1>. QED BY <1>5 DEF Level

(* assess_per_prompt: a run none of whose prompts is farther from its baseline than its
   null pool is on average does not alert, whatever the generator draws. *)
THEOREM OrdinaryIsQuiet == Spec => []OrdinaryRunsAreQuiet
<1>1. GInv /\ ReportAgrees => OrdinaryRunsAreQuiet
  <2> SUFFICES ASSUME GInv, ReportAgrees, report.method = "per_prompt", Ordinary
               PROVE  report.level = "None"
    BY DEF OrdinaryRunsAreQuiet, Ordinary
  <2>1. report.reached = B /\ report.level = Level(report.reached)
    BY DEF GInv, GateCount, ReportAgrees
  <2>. QED BY <2>1, CertainIsNone
<1>. QED BY <1>1, GateInvariance, LevelsFollowTheTest, PTL

-----------------------------------------------------------------------------
(* Runs without a verdict *)

(* The empty sequence is one of no points. *)
LEMMA EmptySequence == << >> \in Seq(Point) /\ Len(<< >>) = 0 /\ ToSet(<< >>) = {}
BY DEF ToSet

(* A sequence that is not empty has a point. *)
LEMMA NotEmptySequence ==
  ASSUME NEW s \in Seq(Point), s # << >>
  PROVE  Len(s) \in Nat /\ Len(s) >= 1
OBVIOUS

(* Sequences of points that are chained are one, of the points of both. *)
LEMMA Chained ==
  ASSUME NEW s \in Seq(Point), NEW t \in Seq(Point)
  PROVE  /\ s \o t \in Seq(Point) /\ Len(s \o t) = Len(s) + Len(t)
         /\ ToSet(s \o t) = ToSet(s) \cup ToSet(t)
<1>1. /\ s \o t \in Seq(Point) /\ Len(s \o t) = Len(s) + Len(t)
      /\ DOMAIN (s \o t) = 1..(Len(s) + Len(t))
      /\ Len(s) \in Nat /\ Len(t) \in Nat /\ DOMAIN s = 1..Len(s) /\ DOMAIN t = 1..Len(t)
  OBVIOUS
<1>2. \A k \in 1..Len(s) : (s \o t)[k] = s[k]
  OBVIOUS
<1>3. \A k \in 1..Len(t) : (s \o t)[k + Len(s)] = t[k]
  OBVIOUS
<1>4. ASSUME NEW k \in 1..(Len(s) + Len(t)) PROVE (s \o t)[k] \in ToSet(s) \cup ToSet(t)
  <2>1. CASE k <= Len(s)
    BY <1>1, <1>2, <2>1 DEF ToSet
  <2>2. CASE k > Len(s)
    <3>1. k - Len(s) \in 1..Len(t) /\ k = (k - Len(s)) + Len(s)
      BY <1>1, <2>2
    <3>2. (s \o t)[k] = t[k - Len(s)]
      BY <1>3, <3>1
    <3>. QED BY <1>1, <3>1, <3>2 DEF ToSet
  <2>. QED BY <1>1, <2>1, <2>2
<1>5. ToSet(s \o t) \subseteq ToSet(s) \cup ToSet(t)
  BY <1>1, <1>4 DEF ToSet
<1>6. ToSet(s) \subseteq ToSet(s \o t)
  <2>1. \A k \in 1..Len(s) : k \in 1..(Len(s) + Len(t))
    BY <1>1
  <2>. QED BY <1>1, <1>2, <2>1 DEF ToSet
<1>7. ToSet(t) \subseteq ToSet(s \o t)
  <2>1. \A k \in 1..Len(t) : k + Len(s) \in 1..(Len(s) + Len(t))
    BY <1>1
  <2>. QED BY <1>1, <1>3, <2>1 DEF ToSet
<1>. QED BY <1>1, <1>5, <1>6, <1>7

\* What a prompt contributes to the pooled test.
Part(f) == [i \in Prompt |-> IF i \in Usable THEN f[i] ELSE << >>]
PartLength(f) == [i \in Prompt |-> Len(Part(f)[i])]

\* The points of some of a family of sequences.
Reached(q, s) == {u \in Point : \E i \in s : u \in ToSet(q[i])}

(* A sequence of points has points of Point only. *)
LEMMA ToSetOfPoints == \A s \in Seq(Point) : ToSet(s) \subseteq Point
BY DEF ToSet

(* One more sequence adds its points. *)
LEMMA ReachedOneMore ==
  ASSUME NEW q, NEW s, NEW z \in s, q[z] \in Seq(Point)
  PROVE  Reached(q, s) = ToSet(q[z]) \cup Reached(q, s \ {z})
BY ToSetOfPoints DEF Reached

(* assess_pooled: in whatever order they are chained, the parts keep their points. *)
LEMMA PooledParts ==
  ASSUME NEW f \in [Prompt -> Seq(Point)]
  PROVE  /\ Len(PooledOf(f)) = SumFunctionOnSet(PartLength(f), Prompt)
         /\ PooledOf(f) \in Seq(Point) /\ ToSet(PooledOf(f)) = Reached(Part(f), Prompt)
<1> DEFINE q == Part(f)
           w == PartLength(f)
           h == [xn \in Prompt \X Seq(Point) |-> q[xn[1]] \o xn[2]]
           Body(g) == [s \in SUBSET Prompt |->
                         IF s = {} THEN << >> ELSE q[First(s)] \o g[s \ {First(s)}]]
           chain == CHOOSE g : g = Body(g)
           D == {n \in Nat : \A s \in SUBSET Prompt : Cardinality(s) = n =>
                   /\ chain[s] \in Seq(Point) /\ Len(chain[s]) = SumFunctionOnSet(w, s)
                   /\ ToSet(chain[s]) = Reached(q, s)}
<1>1. /\ q = [i \in Prompt |-> q[i]] /\ \A i \in Prompt : q[i] \in Seq(Point)
      /\ \A i \in Prompt : w[i] = Len(q[i]) /\ w[i] \in Nat
      /\ DOMAIN q = Prompt
  <2>1. q = [i \in Prompt |-> q[i]] /\ DOMAIN q = Prompt /\ \A i \in Prompt : q[i] \in Seq(Point)
    BY DEF Part
  <2>2. \A i \in Prompt : w[i] = Len(q[i])
    BY DEF PartLength
  <2> HIDE DEF q, w
  <2>. QED BY <2>1, <2>2
<1> HIDE DEF q, w
<1>2. IsFiniteSet(Prompt)
  BY IndicesAreFinite, DriftAssumption DEF Prompt
<1>3. \A s \in SUBSET Prompt : IsFiniteSet(s) /\ Cardinality(s) \in Nat /\ Weights(w, s)
  BY <1>1, <1>2, FS_Subset, FS_CardinalityType DEF Weights
<1>4. chain = Body(chain)
  <2>1. h \in [Prompt \X Seq(Point) -> Seq(Point)]
    BY <1>1
  <2>2. << >> \in Seq(Point)
    OBVIOUS
  <2>3. PICK g : Folds(g, h, << >>, Prompt, Seq(Point))
    <3> HIDE DEF h
    <3>. QED BY <1>2, <2>1, <2>2, FoldExists
  <2>4. g = Body(g)
    <3>1. g \in [SUBSET Prompt -> Seq(Point)]
      BY <2>3 DEF Folds
    <3>2. ASSUME NEW s \in SUBSET Prompt
          PROVE  g[s] = IF s = {} THEN << >> ELSE q[First(s)] \o g[s \ {First(s)}]
      <4>1. g[s] = IF s = {} THEN << >> ELSE h[<<First(s), g[s \ {First(s)}]>>]
        <5> HIDE DEF h
        <5>. QED BY <2>3 DEF Folds
      <4>2. CASE s # {}
        <5>1. First(s) \in Prompt /\ g[s \ {First(s)}] \in Seq(Point)
          BY <3>1, <4>2, FirstIn
        <5>2. h[<<First(s), g[s \ {First(s)}]>>] = q[First(s)] \o g[s \ {First(s)}]
          BY <5>1
        <5>. QED BY <4>1, <4>2, <5>2
      <4>. QED BY <4>1, <4>2
    <3>. QED BY <3>1, <3>2
  <2> HIDE DEF Body
  <2>. QED BY <2>4
<1>5. PooledOf(f) = chain[Prompt]
  BY DEF PooledOf, FoldSeq, FoldFunction, FoldFunctionOnSet, MapThenFoldSet, First, q, Part
<1>6. \A s \in SUBSET Prompt :
        chain[s] = IF s = {} THEN << >> ELSE q[First(s)] \o chain[s \ {First(s)}]
  <2> HIDE DEF chain
  <2>. QED BY <1>4
<1> HIDE DEF chain, Body, h
<1>7. 0 \in D
  <2>1. ASSUME NEW s \in SUBSET Prompt, Cardinality(s) = 0
        PROVE  /\ chain[s] \in Seq(Point) /\ Len(chain[s]) = SumFunctionOnSet(w, s)
               /\ ToSet(chain[s]) = Reached(q, s)
    <3>1. s = {}
      BY <1>3, <2>1, FS_EmptySet
    <3>2. chain[s] = << >> /\ SumFunctionOnSet(w, s) = 0
      BY <1>6, <3>1, SumEmpty
    <3>3. Reached(q, s) = {}
      BY <3>1 DEF Reached
    <3>. QED BY <3>2, <3>3, EmptySequence
  <2>. QED BY <2>1
<1>8. ASSUME NEW n \in D PROVE n + 1 \in D
  <2> SUFFICES ASSUME NEW s \in SUBSET Prompt, Cardinality(s) = n + 1
               PROVE  /\ chain[s] \in Seq(Point) /\ Len(chain[s]) = SumFunctionOnSet(w, s)
                      /\ ToSet(chain[s]) = Reached(q, s)
    OBVIOUS
  <2> DEFINE z == First(s)
             rest == s \ {z}
  <2>1. s # {} /\ z \in s
    <3>1. n + 1 # 0
      OBVIOUS
    <3> HIDE DEF D
    <3>. QED BY <3>1, FS_EmptySet, FirstIn
  <2>2. Cardinality(rest) = n
    <3>1. Cardinality(rest) = Cardinality(s) - 1
      BY <1>3, <2>1, FS_RemoveElement
    <3>. QED BY <3>1
  <2>3. /\ chain[rest] \in Seq(Point) /\ Len(chain[rest]) = SumFunctionOnSet(w, rest)
        /\ ToSet(chain[rest]) = Reached(q, rest)
    BY <2>2
  <2>4. SumFunctionOnSet(w, s) = w[z] + SumFunctionOnSet(w, rest)
    BY <1>3, <2>1, SumRemove
  <2>5. chain[s] = q[z] \o chain[rest] /\ q[z] \in Seq(Point) /\ w[z] = Len(q[z])
    BY <1>1, <1>6, <2>1
  <2>7. Reached(q, s) = ToSet(q[z]) \cup Reached(q, rest)
    BY <2>1, <2>5, ReachedOneMore
  <2> HIDE DEF z, rest, D
  <2>6. /\ chain[s] \in Seq(Point) /\ Len(chain[s]) = Len(q[z]) + Len(chain[rest])
        /\ ToSet(chain[s]) = ToSet(q[z]) \cup ToSet(chain[rest])
    BY <2>3, <2>5, Chained
  <2>. QED BY <2>3, <2>4, <2>5, <2>6, <2>7
<1>9. D = Nat
  <2>1. D \in SUBSET Nat
    OBVIOUS
  <2> HIDE DEF D
  <2>. QED BY <1>7, <1>8, <2>1, NaturalsBySuccessor
<1>10. Cardinality(Prompt) \in D /\ Prompt \in SUBSET Prompt
  BY <1>3, <1>9
<1>. QED BY <1>5, <1>10 DEF w, q

(* One prompt contributes its own points, and two at least two; the points are those of
   the usable prompts. *)
LEMMA PooledPoints ==
  ASSUME NEW f \in [Prompt -> Seq(Point)], \A i \in Usable : f[i] # << >>, NEW i \in Usable
  PROVE  /\ Len(PooledOf(f)) \in Nat
         /\ Usable = {i} => Len(PooledOf(f)) = Len(f[i])
         /\ Usable # {i} => Len(PooledOf(f)) >= 2
         /\ PooledOf(f) \in Seq(Point) /\ ToSet(PooledOf(f)) = Reached(f, Usable)
<1> DEFINE w == PartLength(f)
           sum(S) == SumFunctionOnSet(w, S)
<1>1. /\ \A j \in Prompt : w[j] = Len(Part(f)[j])
      /\ \A j \in Usable : Part(f)[j] = f[j] /\ j \in Prompt /\ f[j] \in Seq(Point)
      /\ \A j \in Prompt \ Usable : Part(f)[j] = << >>
  BY UsableIsFinite DEF PartLength, Part
<1>2. \A j \in Usable : w[j] = Len(f[j]) /\ w[j] \in Nat /\ w[j] >= 1
  <2> SUFFICES ASSUME NEW j \in Usable PROVE w[j] = Len(f[j]) /\ w[j] \in Nat /\ w[j] >= 1
    OBVIOUS
  <2>1. f[j] \in Seq(Point) /\ f[j] # << >> /\ w[j] = Len(f[j])
    BY <1>1
  <2> HIDE DEF w
  <2>. QED BY <2>1
<1>3. \A j \in Prompt \ Usable : w[j] = 0
  BY <1>1
<1>4. IsFiniteSet(Prompt) /\ Weights(w, Prompt) /\ (\A j \in Prompt : w[j] \in Nat)
      /\ i \in Prompt
  <2>1. IsFiniteSet(Prompt)
    BY IndicesAreFinite, DriftAssumption DEF Prompt
  <2> HIDE DEF w
  <2>2. \A j \in Prompt : w[j] \in Nat
    BY <1>2, <1>3
  <2>. QED BY <2>1, <2>2, UsableIsFinite DEF Weights
<1>5. Len(PooledOf(f)) = sum(Prompt) /\ PooledOf(f) \in Seq(Point)
  BY PooledParts
<1>10. ToSet(PooledOf(f)) = Reached(f, Usable)
  <2>1. ToSet(PooledOf(f)) = Reached(Part(f), Prompt)
    BY PooledParts
  <2>2. ASSUME NEW u \in Point
        PROVE  (\E j \in Prompt : u \in ToSet(Part(f)[j])) <=> \E j \in Usable : u \in ToSet(f[j])
    BY <1>1, EmptySequence
  <2>. QED BY <2>1, <2>2 DEF Reached
<1> HIDE DEF w
<1>6. sum(Prompt) = w[i] + sum(Prompt \ {i})
  BY <1>4, SumRemove
<1>7. IsFiniteSet(Prompt \ {i}) /\ Weights(w, Prompt \ {i}) /\ sum(Prompt \ {i}) \in Int
      /\ 0 <= sum(Prompt \ {i}) /\ \A j \in Prompt \ {i} : w[j] \in Nat
  <2>1. IsFiniteSet(Prompt \ {i}) /\ Weights(w, Prompt \ {i}) /\ Prompt \ {i} \in SUBSET Prompt
    BY <1>4, FS_Subset DEF Weights
  <2>. QED BY <1>4, <2>1, SumType, SumOfSubset
<1>8. ASSUME Usable = {i} PROVE sum(Prompt) = w[i]
  <2>1. \A j \in Prompt \ {i} : w[j] = 0
    BY <1>3, <1>8
  <2>2. sum(Prompt \ {i}) = 0
    BY <1>7, <2>1, SumZero
  <2>. QED BY <1>2, <1>6, <2>2
<1>9. ASSUME Usable # {i} PROVE sum(Prompt) >= 2
  <2>1. PICK j \in Usable : j # i
    BY <1>9
  <2>2. j \in Prompt \ {i}
    BY <2>1, UsableIsFinite
  <2>3. sum(Prompt \ {i}) = w[j] + sum((Prompt \ {i}) \ {j})
    BY <1>7, <2>2, SumRemove
  <2>4. 0 <= sum((Prompt \ {i}) \ {j}) /\ sum((Prompt \ {i}) \ {j}) \in Int
    <3>1. (Prompt \ {i}) \ {j} \in SUBSET (Prompt \ {i})
      OBVIOUS
    <3>2. IsFiniteSet((Prompt \ {i}) \ {j}) /\ Weights(w, (Prompt \ {i}) \ {j})
      BY <1>7, <3>1, FS_Subset DEF Weights
    <3>. QED BY <1>7, <3>1, <3>2, SumType, SumOfSubset
  <2>5. w[i] \in Nat /\ w[i] >= 1 /\ w[j] \in Nat /\ w[j] >= 1
    BY <1>2
  <2> HIDE DEF sum
  <2>. QED BY <1>6, <2>3, <2>4, <2>5
<1>. QED BY <1>2, <1>5, <1>6, <1>7, <1>8, <1>9, <1>10

(* A group of vectors is as long as one of them just if they are all of one length. *)
LEMMA AllAsLongIsOneDimension ==
  ASSUME NEW x, NEW y, NEW v \in ToSet(x) \cup ToSet(y)
  PROVE  AllAsLong(v, x, y) <=> OneDimension(ToSet(x) \cup ToSet(y))
BY DEF AllAsLong, OneDimension

(* The first of a sequence is one of it. *)
LEMMA FirstOfSequence ==
  ASSUME NEW s \in Seq(Point), s # << >>
  PROVE  s[1] \in ToSet(s)
BY DEF ToSet

(* check_dims compares all vectors of a prompt. *)
LEMMA CheckedIsOneDimension ==
  ASSUME NEW i \in Usable, samples[i] \in Seq(Point)
  PROVE  CheckDims(cloud[i], samples[i]) <=> OneDimension(Embeddings(i))
<1>1. samples[i][1] \in ToSet(cloud[i]) \cup ToSet(samples[i])
  BY FirstOfSequence DEF Usable
<1>. QED BY <1>1, AllAsLongIsOneDimension DEF CheckDims, Embeddings

\* What a verdict takes, as JudgedIfComparable says it.
Judged ==
  /\ Comparable
  /\ IF \A i \in Usable : Len(cloud[i]) >= 2
     THEN \A i \in Usable : OneDimension(Embeddings(i))
     ELSE /\ \A i \in Usable : Usable # {i}
          /\ OneDimension(UNION {Embeddings(i) : i \in Usable})

(* The test is chosen by the clouds, and every prompt that was scored has vectors of one
   length. *)
JudgeInv ==
  /\ cloud \in [Prompt -> Seq(Point)] /\ samples \in [Prompt -> Seq(Point)]
  /\ DOMAIN strata = Prompt
  /\ pc \in {"assess", "score", "pooled", "gate", "done"}
  /\ pc = "assess" => \A i \in Prompt : strata[i] = Unscored
  /\ pc \in {"score", "gate"} => Comparable /\ \A i \in Usable : Len(cloud[i]) >= 2
  /\ pc = "score" => \A i \in Usable : strata[i] # Unscored => OneDimension(Embeddings(i))
  /\ pc = "gate" => \A i \in Usable : OneDimension(Embeddings(i))
  /\ pc = "pooled" => Comparable /\ \E i \in Usable : ~(Len(cloud[i]) >= 2)
  /\ pc = "done" => (report # Skipped <=> Judged)

(* Pooled, the points of the two groups are those of the usable prompts. *)
LEMMA PooledEmbeddings ==
  ASSUME JudgeInv
  PROVE  Reached(cloud, Usable) \cup Reached(samples, Usable)
           = UNION {Embeddings(i) : i \in Usable}
<1>1. \A i \in Usable : ToSet(cloud[i]) \subseteq Point /\ ToSet(samples[i]) \subseteq Point
  BY UsableIsFinite, ToSetOfPoints DEF JudgeInv
<1>. QED BY <1>1 DEF Reached, Embeddings

(* With a cloud of one point the pooled test fails just if there is nothing else, or
   vectors of two lengths. *)
LEMMA PooledIsValid ==
  ASSUME JudgeInv, pc = "pooled"
  PROVE  Valid(PooledOf(cloud), PooledOf(samples)) <=> Judged
<1>1. PICK i \in Usable : ~(Len(cloud[i]) >= 2)
  BY DEF JudgeInv
<1>2. /\ cloud \in [Prompt -> Seq(Point)] /\ samples \in [Prompt -> Seq(Point)]
      /\ \A j \in Usable : cloud[j] # << >> /\ samples[j] # << >>
      /\ i \in Prompt
  BY UsableIsFinite DEF JudgeInv, Usable
<1>3. Len(cloud[i]) = 1
  <2>1. cloud[i] \in Seq(Point) /\ cloud[i] # << >>
    BY <1>2
  <2> DEFINE k == Len(cloud[i])
  <2>2. k \in Nat /\ k >= 1
    BY <2>1, NotEmptySequence
  <2>3. ~(k >= 2)
    BY <1>1
  <2> HIDE DEF k
  <2>4. k = 1
    BY <2>2, <2>3
  <2>. QED BY <2>4 DEF k
<1> DEFINE x == PooledOf(cloud)
           y == PooledOf(samples)
           a == Len(x)
           b == Len(y)
<1>4. /\ a \in Nat /\ b \in Nat
      /\ Usable = {i} => a = 1
      /\ Usable # {i} => a >= 2 /\ b >= 2
      /\ x \in Seq(Point) /\ ToSet(x) = Reached(cloud, Usable)
      /\ ToSet(y) = Reached(samples, Usable)
  BY <1>2, <1>3, PooledPoints
<1>5. Judged <=> /\ Usable # {i}
                 /\ OneDimension(UNION {Embeddings(j) : j \in Usable})
  <2>1. Comparable /\ ~(\A j \in Usable : Len(cloud[j]) >= 2)
    BY <1>1 DEF JudgeInv
  <2>2. (\A j \in Usable : Usable # {j}) <=> Usable # {i}
    OBVIOUS
  <2>. QED BY <2>1, <2>2 DEF Judged
<1>6. Valid(x, y) <=> a >= 2 /\ b >= 2 /\ AllAsLong(x[1], x, y)
  BY DEF Valid, MinSamplesPerGroup
<1>7. ToSet(x) \cup ToSet(y) = UNION {Embeddings(j) : j \in Usable}
  <2> HIDE DEF x, y
  <2>. QED BY <1>4, PooledEmbeddings
<1>8. a >= 2 => (AllAsLong(x[1], x, y) <=> OneDimension(ToSet(x) \cup ToSet(y)))
  <2> SUFFICES ASSUME a >= 2
               PROVE  AllAsLong(x[1], x, y) <=> OneDimension(ToSet(x) \cup ToSet(y))
    OBVIOUS
  <2> HIDE DEF x, y
  <2>1. x # << >>
    <3>1. Len(<< >>) = 0
      BY EmptySequence
    <3>. QED BY <1>4, <3>1
  <2>2. x[1] \in ToSet(x)
    BY <1>4, <2>1, FirstOfSequence
  <2>. QED BY <2>2, AllAsLongIsOneDimension
<1>9. a >= 2 => (AllAsLong(x[1], x, y)
                   <=> OneDimension(UNION {Embeddings(j) : j \in Usable}))
  BY <1>7, <1>8
<1>10. Valid(x, y) <=> Judged
  <2> DEFINE valid == Valid(x, y)
             long == AllAsLong(x[1], x, y)
             one == OneDimension(UNION {Embeddings(j) : j \in Usable})
  <2>1. /\ valid <=> a >= 2 /\ b >= 2 /\ long
        /\ Judged <=> Usable # {i} /\ one
        /\ a >= 2 => (long <=> one)
    BY <1>5, <1>6, <1>9
  <2>2. a \in Nat /\ (Usable = {i} => a = 1) /\ (Usable # {i} => a >= 2 /\ b >= 2)
    BY <1>4
  <2> HIDE DEF valid, long, one, a, b, x, y
  <2>3. CASE Usable = {i}
    <3>1. ~(a >= 2)
      BY <2>2, <2>3
    <3>. QED BY <2>1, <2>3, <3>1 DEF valid
  <2>4. CASE Usable # {i}
    BY <2>1, <2>2, <2>4 DEF valid
  <2>. QED BY <2>3, <2>4
<1>. QED BY <1>10 DEF x, y

(* What a verdict takes is settled by the inputs. *)
LEMMA JudgedIsInput ==
  ASSUME UNCHANGED <<cloud, samples>>
  PROVE  /\ Usable' = Usable /\ (Comparable' <=> Comparable) /\ (Judged' <=> Judged)
         /\ \A i : OneDimension(Embeddings(i))' <=> OneDimension(Embeddings(i))
BY DEF Usable, Comparable, FirstEmbedding, Judged, Embeddings, OneDimension

(* A prompt that is scored has passed check_dims. *)
LEMMA ScoreJudge ==
  ASSUME JudgeInv, NEW i \in Prompt, ScoreTwoSample(i) \/ ScoreConformal(i)
  PROVE  JudgeInv'
<1>1. /\ UNCHANGED <<cloud, samples, pc>> /\ pc = "score"
      /\ i \in Usable /\ CheckDims(cloud[i], samples[i])
  BY DEF ScoreTwoSample, ScoreConformal, IsNext, ToScore, input
<1>2. \E x : strata' = [strata EXCEPT ![i] = x]
  BY DEF ScoreTwoSample, ScoreConformal
<1>3. OneDimension(Embeddings(i))
  BY <1>1, CheckedIsOneDimension DEF JudgeInv
<1>4. DOMAIN strata' = Prompt /\ \A j \in Prompt : j # i => strata'[j] = strata[j]
  BY <1>2 DEF JudgeInv
<1>5. \A j \in Usable : strata'[j] # Unscored => OneDimension(Embeddings(j))
  BY <1>1, <1>3, <1>4, UsableIsFinite DEF JudgeInv
<1>. QED BY <1>1, <1>4, <1>5, JudgedIsInput DEF JudgeInv

(* Every step keeps it: the choice of the test is made once, and a test ends either with
   all of its prompts compared or at the first that cannot be. *)
LEMMA JudgeStep == JudgeInv /\ [Next]_vars => JudgeInv'
<1> SUFFICES ASSUME JudgeInv, [Next]_vars PROVE JudgeInv'
  OBVIOUS
<1>1. CASE Assess
  <2>1. UNCHANGED <<cloud, samples, strata>> /\ pc = "assess"
    BY <1>1 DEF Assess, input
  <2>2. CASE ~Comparable
    <3>1. report' = Skipped /\ pc' = "done"
      BY <1>1, <2>2 DEF Assess
    <3>2. ~Judged
      BY <2>2 DEF Judged
    <3>. QED BY <2>1, <3>1, <3>2, JudgedIsInput DEF JudgeInv
  <2>3. CASE Comparable
    <3>1. pc' = IF \A i \in Usable : Len(cloud[i]) >= 2 THEN "score" ELSE "pooled"
      BY <1>1, <2>3 DEF Assess
    <3>2. \A i \in Usable : strata'[i] = Unscored
      BY <2>1, UsableIsFinite DEF JudgeInv
    <3>. QED BY <2>1, <2>3, <3>1, <3>2, JudgedIsInput DEF JudgeInv
  <2>. QED BY <2>2, <2>3
<1>2. CASE \E i \in Prompt : ScoreTwoSample(i) \/ ScoreConformal(i)
  BY <1>2, ScoreJudge
<1>3. ASSUME NEW i \in Prompt, ScoreFails(i) PROVE JudgeInv'
  <2>1. /\ UNCHANGED <<cloud, samples, strata>> /\ pc = "score" /\ pc' = "done"
        /\ report' = Skipped /\ i \in Usable /\ ~CheckDims(cloud[i], samples[i])
    BY <1>3 DEF ScoreFails, IsNext, ToScore, input
  <2>2. ~OneDimension(Embeddings(i))
    BY <2>1, CheckedIsOneDimension DEF JudgeInv
  <2>3. ~Judged
    BY <2>1, <2>2 DEF Judged, JudgeInv
  <2>. QED BY <2>1, <2>3, JudgedIsInput DEF JudgeInv
<1>4. CASE Pooled
  <2> DEFINE valid == Valid(PooledOf(cloud), PooledOf(samples))
  <2>1. UNCHANGED <<cloud, samples, strata>> /\ pc = "pooled" /\ pc' = "done"
    BY <1>4 DEF Pooled, input
  <2>2. valid <=> Judged
    BY <2>1, PooledIsValid
  <2>3. report' = Skipped <=> ~valid
    BY <1>4, PooledVerdict
  <2> HIDE DEF valid
  <2>. QED BY <2>1, <2>2, <2>3, JudgedIsInput DEF JudgeInv
<1>5. CASE GateDraw
  <2>1. /\ UNCHANGED <<cloud, samples, strata>> /\ pc \in {"score", "gate"} /\ pc' = "gate"
        /\ pc = "score" => ToScore = {}
    BY <1>5 DEF GateDraw, input
  <2>2. \A i \in Usable : OneDimension(Embeddings(i))
    BY <2>1 DEF ToScore, JudgeInv
  <2>. QED BY <2>1, <2>2, JudgedIsInput DEF JudgeInv
<1>6. CASE Verdict
  <2>1. /\ UNCHANGED <<cloud, samples, strata>> /\ pc = "gate" /\ pc' = "done"
        /\ report' # Skipped
    BY <1>6 DEF Verdict, input, Skipped, NoReport
  <2>2. Judged
    BY <2>1 DEF JudgeInv, Judged
  <2>. QED BY <2>1, <2>2, JudgedIsInput DEF JudgeInv
<1>7. CASE UNCHANGED vars
  <2>1. UNCHANGED <<cloud, samples, strata, pc, report>>
    BY <1>7 DEF vars, input
  <2>. QED BY <2>1, JudgedIsInput DEF JudgeInv
<1>. QED BY <1>1, <1>2, <1>3, <1>4, <1>5, <1>6, <1>7 DEF Next

(* A run is judged if and only if what its test puts in relation can be: for clouds and
   samples of any number of points and of any lengths, the pooled test's points being
   those of all usable prompts in the order in which they are chained. *)
THEOREM JudgedJustIfComparable == Spec => []JudgedIfComparable
<1>1. Init => JudgeInv
  <2>1. Cloud \subseteq Seq(Point) /\ Sample \subseteq Seq(Point)
    BY DriftAssumption
  <2>. QED BY <2>1 DEF Init, JudgeInv
<1>2. JudgeInv => JudgedIfComparable
  BY DEF JudgeInv, Judged, JudgedIfComparable
<1>. QED BY <1>1, <1>2, JudgeStep, PTL DEF Spec

-----------------------------------------------------------------------------
(* The conformal p-value *)

(* At most j of some numbers have at most j, themselves included, that are no smaller:
   the smallest of these has all of them among those. *)
LEMMA RanksAreExact ==
  ASSUME NEW I, IsFiniteSet(I), NEW s, \A t \in I : s[t] \in Nat, NEW j \in Nat
  PROVE  Cardinality({t \in I : Cardinality({u \in I : s[u] >= s[t]}) <= j}) <= j
<1> DEFINE above(t) == {u \in I : s[u] >= s[t]}
           A == {t \in I : Cardinality(above(t)) <= j}
<1>1. CASE A = {}
  <2> HIDE DEF A
  <2>1. Cardinality(A) <= j
    BY <1>1, FS_EmptySet
  <2>. QED BY <2>1 DEF A
<1>2. CASE A # {}
  <2> DEFINE V == {s[t] : t \in A}
  <2>1. PICK t \in A : \A u \in A : s[t] <= s[u]
    <3>1. V \in SUBSET Nat /\ V # {}
      BY <1>2
    <3>2. PICK x \in V : \A y \in V : x <= y
      <4> HIDE DEF V
      <4>. QED BY <3>1, LeastNatural
    <3>. QED BY <3>2
  <2>2. A \in SUBSET above(t) /\ above(t) \in SUBSET I
    BY <2>1
  <2>3. Cardinality(above(t)) <= j
    BY <2>1
  <2> HIDE DEF A, above
  <2>4. IsFiniteSet(above(t))
    BY <2>2, FS_Subset
  <2>5. /\ Cardinality(A) <= Cardinality(above(t))
        /\ Cardinality(A) \in Nat /\ Cardinality(above(t)) \in Nat
    BY <2>2, <2>4, FS_Subset, FS_CardinalityType
  <2>6. Cardinality(A) <= j
    BY <2>3, <2>5
  <2>. QED BY <2>6 DEF A, above
<1>. QED BY <1>1, <1>2

\* Where the j-th of what is left without the t-th was.
Skip(t, j) == IF j < t THEN j ELSE j + 1

Places(t, J) == {Skip(t, j) : j \in J}

(* Each of what is left was at a place of its own, which is not t. *)
LEMMA SkipIsABijection ==
  ASSUME NEW n \in Nat, NEW t \in 1..n, NEW J \in SUBSET (1..(n - 1))
  PROVE  /\ \E f \in Bijection(J, Places(t, J)) : \A j \in J : f[j] = Skip(t, j)
         /\ Places(t, J) \in SUBSET ((1..n) \ {t})
<1> DEFINE U == Places(t, J)
           f == [j \in J |-> Skip(t, j)]
<1>1. \A j \in J : j \in Int /\ 1 <= j /\ j <= n - 1
  OBVIOUS
<1>2. \A i, j \in J : Skip(t, i) = Skip(t, j) => i = j
  BY <1>1 DEF Skip
<1>3. \A j \in J : Skip(t, j) \in 1..n /\ Skip(t, j) # t
  BY <1>1 DEF Skip
<1>4. /\ f \in [J -> U]
      /\ \A j \in J : f[j] = Skip(t, j)
      /\ \A i, j \in J : f[i] = f[j] => i = j
      /\ \A u \in U : \E j \in J : f[j] = u
  BY <1>2 DEF Places
<1>5. U \in SUBSET ((1..n) \ {t})
  BY <1>3 DEF Places
<1> HIDE DEF f, U
<1>6. f \in Bijection(J, U)
  BY <1>4 DEF Bijection, Injection, Surjection, IsInjective
<1>7. \E g \in Bijection(J, U) : \A j \in J : g[j] = Skip(t, j)
  BY <1>4, <1>6
<1>. QED BY <1>5, <1>7 DEF U

(* All of what is left were at all the places but t. *)
LEMMA SkipReachesTheRest ==
  ASSUME NEW n \in Nat, NEW t \in 1..n
  PROVE  /\ Places(t, 1..(n - 1)) = (1..n) \ {t}
         /\ \A i \in 1..(n - 1) :
              Places(t, (1..(n - 1)) \ {i}) = ((1..n) \ {Skip(t, i)}) \ {t}
<1>1. \A u \in (1..n) \ {t} : \E j \in 1..(n - 1) : Skip(t, j) = u
  <2> SUFFICES ASSUME NEW u \in (1..n) \ {t} PROVE \E j \in 1..(n - 1) : Skip(t, j) = u
    OBVIOUS
  <2>1. CASE u < t
    <3>1. u \in 1..(n - 1) /\ Skip(t, u) = u
      BY <2>1 DEF Skip
    <3>. QED BY <3>1
  <2>2. CASE u > t
    <3>1. u - 1 \in 1..(n - 1) /\ Skip(t, u - 1) = u
      BY <2>2 DEF Skip
    <3>. QED BY <3>1
  <2>. QED BY <2>1, <2>2
<1>2. \A j \in 1..(n - 1) : Skip(t, j) \in (1..n) \ {t}
  BY DEF Skip
<1>3. \A i, j \in 1..(n - 1) : Skip(t, i) = Skip(t, j) => i = j
  BY DEF Skip
<1>. QED BY <1>1, <1>2, <1>3 DEF Places

(* remove(t) of a vector, by place. *)
LEMMA WithoutOne ==
  ASSUME NEW pts \in Seq(Point), NEW n, n = Len(pts), NEW t \in 1..n
  PROVE  /\ RemoveAt(pts, t) \in Seq(Point) /\ Len(RemoveAt(pts, t)) = n - 1
         /\ \A j \in 1..(n - 1) : RemoveAt(pts, t)[j] = pts[Skip(t, j)]
<1> DEFINE a == SubSeq(pts, 1, t - 1)
           b == SubSeq(pts, t + 1, n)
<1>1. n \in Nat /\ \A j \in 1..n : pts[j] \in Point
  OBVIOUS
<1>2. /\ a \in Seq(Point) /\ Len(a) = t - 1
      /\ \A j \in 1..(t - 1) : a[j] = pts[j]
  BY <1>1
<1>3. /\ b \in Seq(Point) /\ Len(b) = n - t
      /\ \A j \in 1..(n - t) : b[j] = pts[t + j]
  BY <1>1
<1>4. RemoveAt(pts, t) = a \o b
  BY DEF RemoveAt
<1> HIDE DEF a, b
<1>5. a \o b \in Seq(Point) /\ Len(a \o b) = n - 1
  BY <1>1, <1>2, <1>3
<1>6. \A j \in 1..(n - 1) : (a \o b)[j] = pts[Skip(t, j)]
  <2> SUFFICES ASSUME NEW j \in 1..(n - 1) PROVE (a \o b)[j] = pts[Skip(t, j)]
    OBVIOUS
  <2>1. CASE j < t
    <3>1. j \in 1..(t - 1) /\ Skip(t, j) = j
      BY <1>1, <2>1 DEF Skip
    <3>2. (a \o b)[j] = a[j]
      BY <1>1, <1>2, <1>3, <3>1
    <3>. QED BY <1>2, <3>1, <3>2
  <2>2. CASE ~(j < t)
    <3>1. j - (t - 1) \in 1..(n - t) /\ Skip(t, j) = t + (j - (t - 1))
      BY <1>1, <2>2 DEF Skip
    <3>2. (a \o b)[j] = b[j - (t - 1)]
      BY <1>1, <1>2, <1>3, <2>2, <3>1
    <3>. QED BY <1>3, <3>1, <3>2
  <2>. QED BY <2>1, <2>2
<1>. QED BY <1>4, <1>5, <1>6

\* How far a point is from the others, in all.
Far(pts, t) == SumFunction([l \in DOMAIN pts \ {t} |-> Distance(pts[t], pts[l])])

\* v is, on the indices J of what is left, what w was at their places U.
Moved(n, t, J, U, v, w) ==
  /\ n \in Nat /\ t \in 1..n
  /\ J \in SUBSET (1..(n - 1)) /\ U = Places(t, J)
  /\ DOMAIN v = J /\ \A j \in J : v[j] = w[Skip(t, j)]
  /\ \A u \in 1..n : w[u] \in Int

(* A sum over some of what is left is that over their places before. *)
LEMMA RestSum ==
  ASSUME NEW n, NEW t, NEW J, NEW U, NEW v, NEW w, Moved(n, t, J, U, v, w)
  PROVE  SumFunction(v) = SumFunctionOnSet(w, U)
<1>1. PICK f \in Bijection(J, U) : \A j \in J : f[j] = Skip(t, j)
  <2>1. \E f \in Bijection(J, Places(t, J)) : \A j \in J : f[j] = Skip(t, j)
    BY SkipIsABijection DEF Moved
  <2>. QED BY <2>1 DEF Moved
<1>2. \A j \in J : v[j] = w[f[j]]
  BY <1>1 DEF Moved
<1>3. J \in SUBSET (1..(n - 1)) /\ U \in SUBSET (1..n) /\ n \in Nat
  BY SkipIsABijection DEF Moved
<1>4. IsFiniteSet(J) /\ IsFiniteSet(U)
  <2>1. IsFiniteSet(1..n) /\ IsFiniteSet(1..(n - 1))
    <3>1. 1 \in Int /\ n \in Int /\ n - 1 \in Int
      BY <1>3
    <3>. QED BY <3>1, FS_Interval
  <2>. QED BY <1>3, <2>1, FS_Subset
<1>5. Weights(w, U)
  BY <1>3 DEF Weights, Moved
<1>6. DOMAIN v = J
  BY DEF Moved
<1>7. SumFunctionOnSet(v, J) = SumFunctionOnSet(w, U)
  BY <1>1, <1>2, <1>4, <1>5, SumBijection
<1>. QED BY <1>6, <1>7 DEF SumFunction

(* Far adds up distances, and is not negative. *)
LEMMA FarValue ==
  ASSUME NEW pts \in Seq(Point), NEW n, n = Len(pts), NEW t \in 1..n
  PROVE  /\ Far(pts, t) = SumFunctionOnSet([u \in 1..n |-> Distance(pts[t], pts[u])],
                                           (1..n) \ {t})
         /\ Far(pts, t) \in Nat
<1> DEFINE I == (1..n) \ {t}
           v == [u \in I |-> Distance(pts[t], pts[u])]
           w == [u \in 1..n |-> Distance(pts[t], pts[u])]
<1>1. n \in Nat /\ DOMAIN pts = 1..n /\ \A u \in 1..n : pts[u] \in Int
  BY PointsOfSequence
<1>2. /\ DOMAIN v = I /\ \A u \in I : v[u] \in Nat /\ v[u] = w[u] /\ w[u] \in Nat
      /\ I \in SUBSET (1..n)
  BY <1>1, DistanceType
<1>3. Far(pts, t) = SumFunction(v)
  BY <1>1 DEF Far
<1>4. IsFiniteSet(I)
  BY <1>1, <1>2, IndicesAreFinite, FS_Subset
<1> HIDE DEF v, w, I
<1>5. Weights(v, I) /\ Weights(w, I)
  BY <1>2 DEF Weights
<1>6. SumFunction(v) = SumFunctionOnSet(v, I) /\ SumFunction(v) \in Int
  BY <1>2, <1>4, <1>5, SumOfFunction
<1>7. SumFunctionOnSet(v, I) = SumFunctionOnSet(w, I)
  BY <1>2, <1>4, <1>5, SumEqual
<1>8. 0 <= SumFunctionOnSet(v, I)
  <2>1. I \in SUBSET I
    OBVIOUS
  <2>. QED BY <1>2, <1>4, <2>1, SumOfSubset
<1>9. Far(pts, t) = SumFunctionOnSet(w, I) /\ Far(pts, t) \in Nat
  BY <1>3, <1>6, <1>7, <1>8
<1>. QED BY <1>9 DEF w, I

(* augmented_scores: every point, the one that is exchanged included, is scored by its
   distances to all others. *)
LEMMA AugmentedScoresAreFar ==
  ASSUME NEW pts \in Seq(Point), NEW n, n = Len(pts), NEW t \in 1..n,
         NEW scores, scores = AugmentedScores(pts[t], RemoveAt(pts, t))
  PROVE  /\ scores[1] = Far(pts, t)
         /\ Len(scores) = n /\ scores \in Seq(Int)
         /\ \A j \in 1..(n - 1) : scores[j + 1] = Far(pts, Skip(t, j))
<1> DEFINE r == RemoveAt(pts, t)
           w(p) == [u \in 1..n |-> Distance(p, pts[u])]
           rest == [j \in DOMAIN r |-> SumFunction([l \in DOMAIN r \ {j} |-> Distance(r[j], r[l])])
                                       + Distance(r[j], pts[t])]
           head == SumFunction([l \in DOMAIN r |-> Distance(pts[t], r[l])])
<1>1. /\ n \in Nat /\ DOMAIN pts = 1..n
      /\ \A u \in 1..n : pts[u] \in Point /\ pts[u] \in Int
  BY PointsOfSequence
<1>2. /\ r \in Seq(Point) /\ DOMAIN r = 1..(n - 1) /\ Len(r) = n - 1
      /\ \A j \in 1..(n - 1) : r[j] = pts[Skip(t, j)] /\ r[j] \in Int /\ Skip(t, j) \in (1..n) \ {t}
  <2>1. /\ r \in Seq(Point) /\ Len(r) = n - 1
        /\ \A j \in 1..(n - 1) : r[j] = pts[Skip(t, j)]
    BY WithoutOne
  <2>2. \A j \in 1..(n - 1) : Skip(t, j) \in (1..n) \ {t}
    BY <1>1 DEF Skip
  <2> HIDE DEF r
  <2>3. DOMAIN r = 1..(n - 1)
    BY <2>1
  <2>. QED BY <1>1, <2>1, <2>2, <2>3
<1>3. scores = <<head>> \o rest
  BY DEF AugmentedScores
<1>4. scores \in Seq(Int) /\ Len(scores) = n
  <2>1. scores \in Seq(Int) /\ Len(scores) = Len(r) + 1
    BY <1>1, <1>2, AugmentedType
  <2>. QED BY <1>1, <1>2, <2>1
<1>5. head = Far(pts, t)
  <2>1. head = SumFunctionOnSet(w(pts[t]), Places(t, 1..(n - 1)))
    <3> DEFINE v == [l \in DOMAIN r |-> Distance(pts[t], r[l])]
               x == w(pts[t])
    <3> DEFINE J == 1..(n - 1)
    <3>1. DOMAIN v = J /\ \A l \in J : v[l] = x[Skip(t, l)]
      BY <1>2
    <3>2. \A u \in 1..n : x[u] = Distance(pts[t], pts[u]) /\ Distance(pts[t], pts[u]) \in Nat
      BY <1>1, DistanceType
    <3> HIDE DEF v, x
    <3>3. Moved(n, t, J, Places(t, J), v, x)
      BY <1>1, <3>1, <3>2 DEF Moved
    <3> HIDE DEF J
    <3>4. SumFunction(v) = SumFunctionOnSet(x, Places(t, J))
      BY <3>3, RestSum
    <3>. QED BY <3>4 DEF v, x, J
  <2>2. Places(t, 1..(n - 1)) = (1..n) \ {t}
    BY <1>1, SkipReachesTheRest
  <2>. QED BY <2>1, <2>2, FarValue
<1>6. ASSUME NEW j \in 1..(n - 1) PROVE rest[j] = Far(pts, Skip(t, j))
  <2> DEFINE u == Skip(t, j)
             J == (1..(n - 1)) \ {j}
             I == (1..n) \ {u}
  <2>1. u \in 1..n /\ u # t /\ r[j] = pts[u] /\ pts[u] \in Int /\ pts[t] \in Int
    BY <1>1, <1>2
  <2>2. SumFunction([l \in J |-> Distance(r[j], r[l])])
          = SumFunctionOnSet(w(pts[u]), I \ {t})
    <3> DEFINE v == [l \in J |-> Distance(r[j], r[l])]
               x == w(pts[u])
    <3>1. DOMAIN v = J /\ \A l \in J : v[l] = x[Skip(t, l)]
      BY <1>2, <2>1
    <3>2. \A i \in 1..n : x[i] = Distance(pts[u], pts[i]) /\ Distance(pts[u], pts[i]) \in Nat
      BY <1>1, <2>1, DistanceType
    <3>3. Places(t, J) = I \ {t} /\ J \in SUBSET (1..(n - 1))
      BY <1>1, SkipReachesTheRest
    <3> HIDE DEF v, x, J, I
    <3>4. Moved(n, t, J, I \ {t}, v, x)
      BY <1>1, <3>1, <3>2, <3>3 DEF Moved
    <3>5. SumFunction(v) = SumFunctionOnSet(x, I \ {t})
      BY <3>4, RestSum
    <3>. QED BY <3>5 DEF v, x
  <2>3. Far(pts, u) = SumFunctionOnSet(w(pts[u]), I)
    BY <2>1, FarValue
  <2>4. t \in I /\ IsFiniteSet(I) /\ Weights(w(pts[u]), I) /\ w(pts[u])[t] = Distance(pts[u], pts[t])
    <3>1. IsFiniteSet(I)
      <4>1. I \in SUBSET (1..n)
        OBVIOUS
      <4> HIDE DEF I
      <4>. QED BY <1>1, <4>1, IndicesAreFinite, FS_Subset
    <3>2. \A i \in 1..n : w(pts[u])[i] \in Nat
      BY <1>1, <2>1, DistanceType
    <3>. QED BY <2>1, <3>1, <3>2 DEF Weights
  <2> DEFINE v == w(pts[u])
  <2>5. SumFunctionOnSet(v, I) = v[t] + SumFunctionOnSet(v, I \ {t})
    <3> HIDE DEF v, I
    <3>. QED BY <2>4, SumRemove DEF v
  <2>6. rest[j] = SumFunction([l \in J |-> Distance(r[j], r[l])]) + Distance(r[j], pts[t])
    BY <1>2
  <2>7. SumFunctionOnSet(v, I \ {t}) \in Int /\ Distance(pts[u], pts[t]) \in Int
    <3>1. IsFiniteSet(I \ {t}) /\ Weights(v, I \ {t})
      BY <2>4, FS_Subset DEF Weights
    <3>2. Distance(pts[u], pts[t]) \in Nat
      BY <2>1, DistanceType
    <3> HIDE DEF v, I
    <3>. QED BY <3>1, <3>2, SumType
  <2>8. rest[j] = SumFunctionOnSet(v, I \ {t}) + Distance(pts[u], pts[t])
    BY <2>1, <2>2, <2>6
  <2>9. Far(pts, u) = Distance(pts[u], pts[t]) + SumFunctionOnSet(v, I \ {t})
    BY <2>3, <2>4, <2>5
  <2> HIDE DEF v, I, rest
  <2>. QED BY <2>7, <2>8, <2>9
<1>7. scores[1] = head /\ \A j \in 1..(n - 1) : scores[j + 1] = rest[j]
  <2>1. DOMAIN rest = 1..(n - 1)
    BY <1>2
  <2>2. Len(rest) = n - 1 /\ rest \in Seq({rest[j] : j \in 1..(n - 1)})
    <3>1. n - 1 \in Nat
      BY <1>1
    <3>2. rest \in [1..(n - 1) -> {rest[j] : j \in 1..(n - 1)}]
      BY <2>1
    <3> HIDE DEF rest
    <3>. QED BY <3>1, <3>2, SequenceOf
  <2> HIDE DEF rest, head
  <2>. QED BY <1>1, <1>3, <2>1, <2>2
<1>. QED BY <1>4, <1>5, <1>6, <1>7

\* Those at least as far from the others as t, t included.
AsFar(pts, t) == {u \in 1..Len(pts) : Far(pts, u) >= Far(pts, t)}

(* conformal_from_scores: the rank is that among all points. *)
LEMMA AheadCounts ==
  ASSUME NEW pts \in Seq(Point), NEW t \in 1..Len(pts),
         NEW scores, scores = AugmentedScores(pts[t], RemoveAt(pts, t))
  PROVE  1 + Reaching(Tail(scores), scores[1]) = Cardinality(AsFar(pts, t))
<1> DEFINE n == Len(pts)
           far(u) == Far(pts, u)
           A == {j \in 1..(n - 1) : far(Skip(t, j)) >= far(t)}
           U == Places(t, A)
<1>0. n \in Nat /\ t \in 1..n
  OBVIOUS
<1>1. /\ n \in Nat /\ t \in 1..n /\ A \in SUBSET (1..(n - 1))
      /\ \A u \in 1..n : far(u) \in Nat
  <2>1. \A u \in 1..Len(pts) : Far(pts, u) \in Nat
    BY FarValue
  <2>2. A \in SUBSET (1..(n - 1))
    <3> HIDE DEF n, far
    <3>. QED OBVIOUS
  <2> HIDE DEF A
  <2>. QED BY <1>0, <2>1, <2>2
<1>2. /\ scores[1] = far(t) /\ Len(scores) = n /\ scores \in Seq(Int)
      /\ \A j \in 1..(n - 1) : scores[j + 1] = far(Skip(t, j))
  BY AugmentedScoresAreFar
<1>3. Reaching(Tail(scores), scores[1]) = Cardinality(A)
  <2> DEFINE tail == Tail(scores)
  <2>1. DOMAIN tail = 1..(n - 1) /\ \A j \in 1..(n - 1) : tail[j] = scores[j + 1]
    <3>1. n >= 1
      BY <1>1
    <3> HIDE DEF n
    <3>2. Len(tail) = n - 1 /\ DOMAIN tail = 1..Len(tail)
      BY <1>1, <1>2, <3>1
    <3>3. \A j \in 1..(n - 1) : tail[j] = scores[j + 1]
      BY <1>1, <1>2, <3>1
    <3>. QED BY <3>2, <3>3
  <2> HIDE DEF tail
  <2>2. {b \in DOMAIN tail : tail[b] >= scores[1]} = A
    BY <1>2, <2>1
  <2>. QED BY <2>2 DEF Reaching, tail
<1>4. U \in SUBSET ((1..n) \ {t}) /\ ExistsBijection(A, U)
  <2> HIDE DEF A, n
  <2>1. \E f \in Bijection(A, Places(t, A)) : \A j \in A : f[j] = Skip(t, j)
    BY <1>1, SkipIsABijection
  <2>2. Places(t, A) \in SUBSET ((1..n) \ {t})
    BY <1>1, SkipIsABijection
  <2>. QED BY <2>1, <2>2 DEF ExistsBijection
<1>5. IsFiniteSet(A) /\ IsFiniteSet(U) /\ Cardinality(U) = Cardinality(A)
      /\ Cardinality(A) \in Nat
  <2>1. IsFiniteSet(A)
    <3>1. 1 \in Int /\ n - 1 \in Int
      BY <1>1
    <3> HIDE DEF A, n
    <3>. QED BY <1>1, <3>1, FS_Interval, FS_Subset
  <2>2. ExistsBijection(A, U)
    BY <1>4
  <2> HIDE DEF A, U
  <2>. QED BY <2>1, <2>2, FS_Bijection, FS_CardinalityType
<1>6. AsFar(pts, t) = U \cup {t} /\ t \notin U
  <2>1. ASSUME NEW u \in 1..n, far(u) >= far(t), u # t PROVE u \in U
    <3>1. u \in Places(t, 1..(n - 1))
      <4> HIDE DEF n, far, A, U
      <4>1. Places(t, 1..(n - 1)) = (1..n) \ {t}
        BY <1>0, SkipReachesTheRest
      <4>2. u \in (1..n) \ {t}
        BY <2>1
      <4>. QED BY <4>1, <4>2
    <3>2. PICK j \in 1..(n - 1) : u = Skip(t, j)
      BY <3>1 DEF Places
    <3>. QED BY <2>1, <3>2 DEF Places
  <2>2. \A u \in U : u \in 1..n /\ u # t /\ far(u) >= far(t)
    <3>1. \A u \in U : far(u) >= far(t)
      <4> HIDE DEF n, far
      <4>. QED BY DEF Places
    <3> HIDE DEF U
    <3>. QED BY <1>4, <3>1
  <2>3. far(t) >= far(t)
    BY <1>1
  <2> HIDE DEF U, A
  <2>. QED BY <1>1, <2>1, <2>2, <2>3 DEF AsFar
<1>7. Cardinality(U \cup {t}) = Cardinality(U) + 1
  <2> HIDE DEF U
  <2>. QED BY <1>5, <1>6, FS_AddElement
<1> HIDE DEF A, U
<1>. QED BY <1>3, <1>5, <1>6, <1>7

(* The conformal p-value is exact, ties included: of k + 1 exchangeable answers at most j
   have a rank of j or less. *)
THEOREM ConformalHolds == Spec => []ConformalIsExact
<1>1. GInv => ConformalIsExact
  <2> SUFFICES ASSUME GInv, NEW i \in Usable PROVE
        LET pts == samples[i] \o cloud[i]
            Ahead(t) == LET scores == AugmentedScores(pts[t], RemoveAt(pts, t))
                        IN Reaching(Tail(scores), scores[1])
        IN \A j \in DOMAIN pts : Cardinality({t \in DOMAIN pts : 1 + Ahead(t) <= j}) <= j
    BY DEF ConformalIsExact
  <2> DEFINE pts == samples[i] \o cloud[i]
             n == Len(pts)
             Ahead(t) == LET scores == AugmentedScores(pts[t], RemoveAt(pts, t))
                         IN Reaching(Tail(scores), scores[1])
             s == [t \in 1..n |-> Far(pts, t)]
  <2>1. samples[i] \in Seq(Point) /\ cloud[i] \in Seq(Point)
    BY UsableIsFinite DEF GInv, GateShape
  <2>2. pts \in Seq(Point)
    BY <2>1
  <2>3. n \in Nat /\ DOMAIN pts = 1..n /\ IsFiniteSet(1..n)
    <3> HIDE DEF pts
    <3>. QED BY <2>2, IndicesAreFinite
  <2>4. \A t \in 1..n : s[t] = Far(pts, t) /\ s[t] \in Nat
    <3> HIDE DEF pts
    <3>. QED BY <2>2, FarValue
  <2>5. \A t \in 1..n : 1 + Ahead(t) = Cardinality({u \in 1..n : s[u] >= s[t]})
    <3> SUFFICES ASSUME NEW t \in 1..n
                 PROVE  1 + Ahead(t) = Cardinality({u \in 1..n : s[u] >= s[t]})
      OBVIOUS
    <3> HIDE DEF pts
    <3>1. 1 + Ahead(t) = Cardinality(AsFar(pts, t))
      BY <2>2, AheadCounts
    <3>2. AsFar(pts, t) = {u \in 1..n : s[u] >= s[t]}
      BY <2>4 DEF AsFar
    <3>. QED BY <3>1, <3>2
  <2>6. ASSUME NEW j \in DOMAIN pts
        PROVE  Cardinality({t \in DOMAIN pts : 1 + Ahead(t) <= j}) <= j
    <3>1. j \in Nat
      BY <2>3
    <3> DEFINE I == 1..n
    <3>2. Cardinality({t \in I : Cardinality({u \in I : s[u] >= s[t]}) <= j}) <= j
      <4> HIDE DEF s, pts, n, Ahead
      <4>1. IsFiniteSet(I) /\ \A t \in I : s[t] \in Nat
        BY <2>3, <2>4
      <4> HIDE DEF I
      <4>. QED BY <3>1, <4>1, RanksAreExact
    <3> HIDE DEF pts, n, s
    <3>3. {t \in 1..n : Cardinality({u \in 1..n : s[u] >= s[t]}) <= j}
            = {t \in 1..n : 1 + Ahead(t) <= j}
      <4> HIDE DEF Ahead
      <4>. QED BY <2>5
    <3>. QED BY <2>3, <3>2, <3>3
  <2>. QED BY <2>6
<1>. QED BY <1>1, GateInvariance, PTL

-----------------------------------------------------------------------------
(* The energy distance *)

\* All points are in lo..hi.
Between(pts, lo, hi) ==
  /\ pts \in Seq(Point) /\ lo \in Int /\ hi \in Int
  /\ \A i \in DOMAIN pts : lo <= pts[i] /\ pts[i] <= hi

(* Points are integers, and there are finitely many of them. *)
LEMMA PointsAreBounded ==
  ASSUME NEW pts \in Seq(Point)
  PROVE  \E lo, hi \in Int : Between(pts, lo, hi)
<1> DEFINE I == DOMAIN pts
           Holds(T, lo, hi) == \A i \in T : lo <= pts[i] /\ pts[i] <= hi
           F == {T \in SUBSET I : \E lo, hi \in Int : Holds(T, lo, hi)}
<1>1. IsFiniteSet(I) /\ \A i \in I : pts[i] \in Int
  <2>1. I = 1..Len(pts) /\ Len(pts) \in Nat
    OBVIOUS
  <2>. QED BY <2>1, IndicesAreFinite, PointsOfSequence
<1>2. {} \in F
  <2>1. Holds({}, 0, 0) /\ 0 \in Int
    OBVIOUS
  <2>. QED BY <2>1
<1>3. ASSUME NEW T \in F, NEW x \in I \ T PROVE T \cup {x} \in F
  <2>1. PICK lo \in Int, hi \in Int : Holds(T, lo, hi)
    OBVIOUS
  <2> DEFINE low  == IF pts[x] < lo THEN pts[x] ELSE lo
             high == IF pts[x] > hi THEN pts[x] ELSE hi
  <2>2. /\ low \in Int /\ high \in Int
        /\ low <= lo /\ hi <= high /\ low <= pts[x] /\ pts[x] <= high
    BY <1>1
  <2>3. \A i \in T : pts[i] \in Int
    BY <1>1
  <2> HIDE DEF low, high
  <2>4. Holds(T \cup {x}, low, high)
    BY <2>1, <2>2, <2>3
  <2>. QED BY <2>2, <2>4
<1>4. F \in SUBSET SUBSET I
  OBVIOUS
<1>5. I \in F
  <2> HIDE DEF F, I
  <2>. QED BY <1>1, <1>2, <1>3, <1>4, SubsetsByElement
<1>6. PICK lo \in Int, hi \in Int : Holds(I, lo, hi)
  BY <1>5
<1>. QED BY <1>6 DEF Between

\* How many points of T are v or before it.
Upto(pts, T, v) == Cardinality({i \in T : pts[i] <= v})

(* What is counted are finite sets. *)
LEMMA UptoType ==
  ASSUME NEW pts \in Seq(Point), NEW T \in SUBSET DOMAIN pts, NEW v \in Int
  PROVE  /\ IsFiniteSet(T) /\ Cardinality(T) \in Nat
         /\ IsFiniteSet({i \in T : pts[i] <= v}) /\ Upto(pts, T, v) \in Nat
<1>1. IsFiniteSet(DOMAIN pts)
  <2>1. DOMAIN pts = 1..Len(pts) /\ Len(pts) \in Nat
    OBVIOUS
  <2>. QED BY <2>1, IndicesAreFinite
<1>2. IsFiniteSet(T)
  BY <1>1, FS_Subset
<1>3. {i \in T : pts[i] <= v} \in SUBSET T
  OBVIOUS
<1>4. IsFiniteSet({i \in T : pts[i] <= v})
  BY <1>2, <1>3, FS_Subset
<1>. QED BY <1>2, <1>4, FS_CardinalityType DEF Upto

(* Of a single point, one or none is there or before. *)
LEMMA UptoOne ==
  ASSUME NEW pts \in Seq(Point), NEW x \in DOMAIN pts, NEW v \in Int
  PROVE  Upto(pts, {x}, v) = IF pts[x] <= v THEN 1 ELSE 0
<1> DEFINE S == {i \in {x} : pts[i] <= v}
<1>1. S = IF pts[x] <= v THEN {x} ELSE {}
  OBVIOUS
<1> HIDE DEF S
<1>2. Cardinality(S) = IF pts[x] <= v THEN 1 ELSE 0
  BY <1>1, FS_Singleton, FS_EmptySet
<1>. QED BY <1>2 DEF Upto, S

(* A further point counts once. *)
LEMMA UptoAdd ==
  ASSUME NEW pts \in Seq(Point), NEW T \in SUBSET DOMAIN pts, NEW x \in DOMAIN pts \ T,
         NEW v \in Int
  PROVE  /\ Upto(pts, T \cup {x}, v) = Upto(pts, T, v) + Upto(pts, {x}, v)
         /\ Cardinality(T \cup {x}) = Cardinality(T) + 1
<1> DEFINE S == {i \in T : pts[i] <= v}
           R == {i \in T \cup {x} : pts[i] <= v}
<1>1. R = IF pts[x] <= v THEN S \cup {x} ELSE S
  OBVIOUS
<1>2. x \notin S /\ IsFiniteSet(S) /\ IsFiniteSet(T) /\ Cardinality(S) \in Nat
  BY UptoType, FS_CardinalityType
<1>3. Upto(pts, T, v) = Cardinality(S) /\ Upto(pts, T \cup {x}, v) = Cardinality(R)
  BY DEF Upto
<1> HIDE DEF S, R
<1>4. Cardinality(S \cup {x}) = Cardinality(S) + 1 /\ Cardinality(T \cup {x}) = Cardinality(T) + 1
  BY <1>2, FS_AddElement
<1>. QED BY <1>1, <1>2, <1>3, <1>4, UptoOne

\* How many pairs of points of U and W are on both sides of v: one of them is v or
\* before it and the other is not.
Apart(pts, U, W, v) ==
  Cardinality(W) * Upto(pts, U, v) + Cardinality(U) * Upto(pts, W, v)
    - 2 * (Upto(pts, U, v) * Upto(pts, W, v))

(* Pairs on both sides are counted whichever group is named first. *)
LEMMA ApartType ==
  ASSUME NEW pts \in Seq(Point), NEW U \in SUBSET DOMAIN pts, NEW W \in SUBSET DOMAIN pts,
         NEW v \in Int
  PROVE  Apart(pts, U, W, v) \in Int /\ Apart(pts, U, W, v) = Apart(pts, W, U, v)
<1>1. /\ Cardinality(U) \in Nat /\ Upto(pts, U, v) \in Nat
      /\ Cardinality(W) \in Nat /\ Upto(pts, W, v) \in Nat
  BY UptoType
<1>2. ASSUME NEW a \in Nat, NEW b \in Nat, NEW c \in Nat, NEW d \in Nat
      PROVE  a * b + c * d - 2 * (b * d) \in Int
             /\ a * b + c * d - 2 * (b * d) = c * d + a * b - 2 * (d * b)
  OBVIOUS
<1>. QED BY <1>1, <1>2 DEF Apart

(* A further point adds its pairs. *)
LEMMA ApartAdd ==
  ASSUME NEW pts \in Seq(Point), NEW U \in SUBSET DOMAIN pts, NEW W \in SUBSET DOMAIN pts,
         NEW x \in DOMAIN pts \ U, NEW v \in Int
  PROVE  Apart(pts, U \cup {x}, W, v) = Apart(pts, U, W, v) + Apart(pts, {x}, W, v)
<1>1. /\ Cardinality(U) \in Nat /\ Upto(pts, U, v) \in Nat
      /\ Cardinality(W) \in Nat /\ Upto(pts, W, v) \in Nat
      /\ Upto(pts, {x}, v) \in Nat
  BY UptoType
<1>2. Cardinality({x}) = 1
  BY FS_Singleton
<1>3. Cardinality(U \cup {x}) = Cardinality(U) + 1
      /\ Upto(pts, U \cup {x}, v) = Upto(pts, U, v) + Upto(pts, {x}, v)
  BY UptoAdd
<1>4. ASSUME NEW k \in Nat, NEW l \in Nat, NEW u \in Nat, NEW w \in Nat, NEW e \in Nat
      PROVE  l * (u + e) + (k + 1) * w - 2 * ((u + e) * w)
               = (l * u + k * w - 2 * (u * w)) + (l * e + 1 * w - 2 * (e * w))
  <2>1. l * (u + e) = l * u + l * e /\ (k + 1) * w = k * w + w /\ (u + e) * w = u * w + e * w
    OBVIOUS
  <2>2. l * u \in Nat /\ l * e \in Nat /\ k * w \in Nat /\ u * w \in Nat /\ e * w \in Nat
    OBVIOUS
  <2>. QED BY <2>1, <2>2
<1> DEFINE k == Cardinality(U)
           l == Cardinality(W)
           u == Upto(pts, U, v)
           w == Upto(pts, W, v)
           e == Upto(pts, {x}, v)
<1>5. /\ Apart(pts, U \cup {x}, W, v) = l * (u + e) + (k + 1) * w - 2 * ((u + e) * w)
      /\ Apart(pts, U, W, v) = l * u + k * w - 2 * (u * w)
      /\ Apart(pts, {x}, W, v) = l * e + 1 * w - 2 * (e * w)
  BY <1>2, <1>3 DEF Apart
<1>6. k \in Nat /\ l \in Nat /\ u \in Nat /\ w \in Nat /\ e \in Nat
  BY <1>1
<1> HIDE DEF k, l, u, w, e
<1>. QED BY <1>4, <1>5, <1>6

(* Without points there are no pairs. *)
LEMMA ApartNone ==
  ASSUME NEW pts \in Seq(Point), NEW W \in SUBSET DOMAIN pts, NEW v \in Int
  PROVE  Apart(pts, {}, W, v) = 0
<1>1. Upto(pts, {}, v) = 0 /\ Cardinality({}) = 0
  <2>1. {i \in {} : pts[i] <= v} = {}
    OBVIOUS
  <2>. QED BY <2>1, FS_EmptySet DEF Upto
<1>2. Cardinality(W) \in Nat /\ Upto(pts, W, v) \in Nat
  BY UptoType
<1>3. ASSUME NEW a \in Nat, NEW d \in Nat PROVE a * 0 + 0 * d - 2 * (0 * d) = 0
  OBVIOUS
<1>. QED BY <1>1, <1>2, <1>3 DEF Apart

\* Adds up, over the range of the points, how far those of U are apart from those of W.
Spread(pts, lo, hi, U, W) ==
  SumFunctionOnSet([v \in lo..hi |-> Apart(pts, U, W, v)], lo..hi)

SpreadIs(w, pts, lo, hi, U, W) ==
  /\ \A v \in lo..hi : w[v] = Apart(pts, U, W, v)
  /\ Weights(w, lo..hi)
  /\ Spread(pts, lo, hi, U, W) = SumFunctionOnSet(w, lo..hi)
  /\ Spread(pts, lo, hi, U, W) \in Int

(* What Spread is a sum of. *)
LEMMA SpreadTerms ==
  ASSUME NEW pts, NEW lo, NEW hi, Between(pts, lo, hi),
         NEW U \in SUBSET DOMAIN pts, NEW W \in SUBSET DOMAIN pts
  PROVE  \E w : SpreadIs(w, pts, lo, hi, U, W)
<1> DEFINE V == lo..hi
           w == [v \in V |-> Apart(pts, U, W, v)]
<1>1. pts \in Seq(Point) /\ IsFiniteSet(V) /\ V \in SUBSET Int
  BY FS_Interval DEF Between
<1>2. \A v \in V : w[v] = Apart(pts, U, W, v) /\ w[v] \in Int
  BY <1>1, ApartType
<1>3. Spread(pts, lo, hi, U, W) = SumFunctionOnSet(w, V)
  BY DEF Spread
<1> HIDE DEF w, V
<1>4. Weights(w, V)
  BY <1>2 DEF Weights
<1>5. SumFunctionOnSet(w, V) \in Int
  BY <1>1, <1>4, SumType
<1>6. SpreadIs(w, pts, lo, hi, U, W)
  BY <1>2, <1>3, <1>4, <1>5 DEF V, SpreadIs
<1>. QED BY <1>6

(* The distance of two points is the number of integers that they are apart at. *)
LEMMA DistanceOfTwo ==
  ASSUME NEW pts, NEW lo, NEW hi, Between(pts, lo, hi),
         NEW i \in DOMAIN pts, NEW j \in DOMAIN pts
  PROVE  Spread(pts, lo, hi, {i}, {j}) = Distance(pts[i], pts[j])
<1> DEFINE V == lo..hi
           a == IF pts[i] <= pts[j] THEN pts[i] ELSE pts[j]
           b == IF pts[i] <= pts[j] THEN pts[j] ELSE pts[i]
<1>1. /\ pts \in Seq(Point) /\ lo \in Int /\ hi \in Int
      /\ lo <= pts[i] /\ pts[i] <= hi /\ lo <= pts[j] /\ pts[j] <= hi
  BY DEF Between
<1>2. pts[i] \in Int /\ pts[j] \in Int
  BY <1>1, PointsOfSequence
<1>3. a \in Int /\ b \in Int /\ lo <= a /\ a <= b /\ b <= hi /\ Distance(pts[i], pts[j]) = b - a
  BY <1>1, <1>2 DEF Distance
<1>9. PICK w : SpreadIs(w, pts, lo, hi, {i}, {j})
  <2>1. {i} \in SUBSET DOMAIN pts /\ {j} \in SUBSET DOMAIN pts
    OBVIOUS
  <2>. QED BY <2>1, SpreadTerms
<1>4. \A v \in V : w[v] = IF a <= v /\ v < b THEN 1 ELSE 0
  <2> SUFFICES ASSUME NEW v \in V PROVE w[v] = IF a <= v /\ v < b THEN 1 ELSE 0
    OBVIOUS
  <2>1. v \in Int
    BY <1>1
  <2> DEFINE c == Upto(pts, {i}, v)
             d == Upto(pts, {j}, v)
  <2>2. c = (IF pts[i] <= v THEN 1 ELSE 0) /\ d = (IF pts[j] <= v THEN 1 ELSE 0)
    BY <1>1, <2>1, UptoOne
  <2>3. Cardinality({i}) = 1 /\ Cardinality({j}) = 1
    BY FS_Singleton
  <2>4. w[v] = 1 * c + 1 * d - 2 * (c * d)
    BY <1>9, <2>3 DEF Apart, SpreadIs
  <2> HIDE DEF c, d, V, a, b
  <2>5. c \in {0, 1} /\ d \in {0, 1} /\ (c = 1 <=> pts[i] <= v) /\ (d = 1 <=> pts[j] <= v)
    BY <1>2, <2>1, <2>2
  <2>6. w[v] = IF c = d THEN 0 ELSE 1
    BY <2>4, <2>5
  <2>. QED BY <1>2, <2>1, <2>5, <2>6 DEF a, b
<1>5. IsFiniteSet(V)
  BY <1>1, FS_Interval
<1>6. {v \in V : w[v] = 1} = a..(b - 1)
  BY <1>1, <1>3, <1>4
<1>7. Cardinality(a..(b - 1)) = b - a
  <2> HIDE DEF a, b
  <2>1. b - 1 \in Int
    BY <1>3
  <2>2. Cardinality(a..(b - 1)) = IF a > b - 1 THEN 0 ELSE (b - 1) - a + 1
    BY <1>3, <2>1, FS_Interval
  <2>. QED BY <1>3, <2>2
<1>8. SumFunctionOnSet(w, V) = Cardinality({v \in V : w[v] = 1})
  <2>1. \A v \in V : w[v] \in {0, 1}
    BY <1>4
  <2> HIDE DEF V, a, b
  <2>. QED BY <1>5, <2>1, SumOnes
<1>. QED BY <1>9, <1>3, <1>6, <1>7, <1>8 DEF SpreadIs

(* What is added up over the range is an integer ... *)
LEMMA SpreadType ==
  ASSUME NEW pts, NEW lo, NEW hi, Between(pts, lo, hi),
         NEW U \in SUBSET DOMAIN pts, NEW W \in SUBSET DOMAIN pts
  PROVE  Spread(pts, lo, hi, U, W) \in Int
BY SpreadTerms DEF SpreadIs

(* ... the same whichever group is named first ... *)
LEMMA SpreadSymmetric ==
  ASSUME NEW pts, NEW lo, NEW hi, Between(pts, lo, hi),
         NEW U \in SUBSET DOMAIN pts, NEW W \in SUBSET DOMAIN pts
  PROVE  Spread(pts, lo, hi, U, W) = Spread(pts, lo, hi, W, U)
<1> DEFINE V == lo..hi
<1>1. pts \in Seq(Point) /\ IsFiniteSet(V) /\ V \in SUBSET Int
  BY FS_Interval DEF Between
<1>2. PICK f : SpreadIs(f, pts, lo, hi, U, W)
  BY SpreadTerms
<1>3. PICK g : SpreadIs(g, pts, lo, hi, W, U)
  BY SpreadTerms
<1>4. \A v \in V : f[v] = g[v]
  BY <1>1, <1>2, <1>3, ApartType DEF SpreadIs
<1>5. /\ Weights(f, V) /\ Spread(pts, lo, hi, U, W) = SumFunctionOnSet(f, V)
      /\ Weights(g, V) /\ Spread(pts, lo, hi, W, U) = SumFunctionOnSet(g, V)
  BY <1>2, <1>3 DEF SpreadIs
<1> HIDE DEF V
<1>6. SumFunctionOnSet(f, V) = SumFunctionOnSet(g, V)
  BY <1>1, <1>4, <1>5, SumEqual
<1>. QED BY <1>5, <1>6

(* ... to which a further point adds its share ... *)
LEMMA SpreadAdd ==
  ASSUME NEW pts, NEW lo, NEW hi, Between(pts, lo, hi),
         NEW U \in SUBSET DOMAIN pts, NEW W \in SUBSET DOMAIN pts,
         NEW x \in DOMAIN pts, x \notin U
  PROVE  Spread(pts, lo, hi, U \cup {x}, W)
           = Spread(pts, lo, hi, U, W) + Spread(pts, lo, hi, {x}, W)
<1> DEFINE V == lo..hi
           T == U \cup {x}
<1>1. /\ pts \in Seq(Point) /\ IsFiniteSet(V) /\ V \in SUBSET Int
      /\ T \in SUBSET DOMAIN pts /\ {x} \in SUBSET DOMAIN pts
  BY FS_Interval DEF Between
<1>2. \A v \in V : Apart(pts, T, W, v) = Apart(pts, U, W, v) + Apart(pts, {x}, W, v)
  BY <1>1, ApartAdd
<1> HIDE DEF T
<1>3. PICK f : SpreadIs(f, pts, lo, hi, T, W)
  BY <1>1, SpreadTerms
<1>4. PICK g : SpreadIs(g, pts, lo, hi, U, W)
  BY <1>1, SpreadTerms
<1>5. PICK h : SpreadIs(h, pts, lo, hi, {x}, W)
  BY <1>1, SpreadTerms
<1>6. \A v \in V : f[v] = g[v] + h[v]
  BY <1>2, <1>3, <1>4, <1>5 DEF SpreadIs
<1>7. /\ Spread(pts, lo, hi, T, W) = SumFunctionOnSet(f, V)
      /\ Weights(g, V) /\ Spread(pts, lo, hi, U, W) = SumFunctionOnSet(g, V)
      /\ Weights(h, V) /\ Spread(pts, lo, hi, {x}, W) = SumFunctionOnSet(h, V)
  BY <1>3, <1>4, <1>5 DEF SpreadIs
<1> HIDE DEF V
<1>8. SumFunctionOnSet(f, V) = SumFunctionOnSet(g, V) + SumFunctionOnSet(h, V)
  BY <1>1, <1>6, <1>7, SumPlus
<1>. QED BY <1>7, <1>8 DEF T

(* ... starting from zero. *)
LEMMA SpreadNone ==
  ASSUME NEW pts, NEW lo, NEW hi, Between(pts, lo, hi), NEW W \in SUBSET DOMAIN pts
  PROVE  Spread(pts, lo, hi, {}, W) = 0
<1>1. PICK w : SpreadIs(w, pts, lo, hi, {}, W)
  BY SpreadTerms
<1>2. pts \in Seq(Point) /\ IsFiniteSet(lo..hi) /\ lo..hi \in SUBSET Int
  BY FS_Interval DEF Between
<1>3. \A v \in lo..hi : w[v] = 0
  BY <1>1, <1>2, ApartNone DEF SpreadIs
<1>. QED BY <1>1, <1>2, <1>3, SumZero DEF SpreadIs

(* The sum of the distances of one point to those of W, and of those of U to those of W. *)
LEMMA AlongValue ==
  ASSUME NEW pts, NEW lo, NEW hi, Between(pts, lo, hi),
         NEW i \in DOMAIN pts, NEW W \in SUBSET DOMAIN pts
  PROVE  Along(pts, Energy, i, W) = -Spread(pts, lo, hi, W, {i})
<1> DEFINE k == [j \in W |-> Energy[Distance(pts[i], pts[j])]]
           F == {T \in SUBSET W : SumFunctionOnSet(k, T) = -Spread(pts, lo, hi, T, {i})}
<1>1. /\ pts \in Seq(Point) /\ IsFiniteSet(W) /\ {i} \in SUBSET DOMAIN pts
      /\ \A j \in DOMAIN pts : pts[j] \in Point /\ pts[j] \in Int
  <2>1. pts \in Seq(Point)
    BY DEF Between
  <2>2. DOMAIN pts = 1..Len(pts) /\ Len(pts) \in Nat
    BY <2>1
  <2>. QED BY <2>1, <2>2, IndicesAreFinite, FS_Subset, PointsOfSequence
<1>2. \A j \in W : k[j] = -Distance(pts[i], pts[j]) /\ Distance(pts[i], pts[j]) \in Nat
  BY <1>1, EnergyValue, DistanceType
<1>3. Along(pts, Energy, i, W) = SumFunctionOnSet(k, W)
  BY DEF Along, SumFunction
<1> HIDE DEF k
<1>4. Weights(k, W)
  BY <1>2 DEF Weights
<1>5. {} \in F
  <2>1. Spread(pts, lo, hi, {}, {i}) = 0
    BY <1>1, SpreadNone
  <2>. QED BY <2>1, SumEmpty
<1>6. ASSUME NEW T \in F, NEW x \in W \ T PROVE T \cup {x} \in F
  <2>1. T \in SUBSET DOMAIN pts /\ x \in DOMAIN pts \ T /\ T \cup {x} \in SUBSET W
    OBVIOUS
  <2>2. SumFunctionOnSet(k, T \cup {x}) = k[x] + SumFunctionOnSet(k, T)
    <3>1. IsFiniteSet(T) /\ Weights(k, T \cup {x}) /\ x \notin T
      BY <1>1, <1>4, FS_Subset DEF Weights
    <3>. QED BY <3>1, SumAdd
  <2>3. /\ Spread(pts, lo, hi, T \cup {x}, {i})
             = Spread(pts, lo, hi, T, {i}) + Spread(pts, lo, hi, {x}, {i})
        /\ Spread(pts, lo, hi, T, {i}) \in Int
    <3>1. x \in DOMAIN pts /\ x \notin T /\ T \in SUBSET DOMAIN pts
      BY <2>1
    <3> HIDE DEF F
    <3>2. Spread(pts, lo, hi, T \cup {x}, {i})
            = Spread(pts, lo, hi, T, {i}) + Spread(pts, lo, hi, {x}, {i})
      BY <1>1, <3>1, SpreadAdd
    <3>. QED BY <1>1, <3>1, <3>2, SpreadType
  <2>4. Spread(pts, lo, hi, {x}, {i}) = Distance(pts[x], pts[i])
    <3>1. x \in DOMAIN pts
      BY <2>1
    <3> HIDE DEF F
    <3>. QED BY <3>1, DistanceOfTwo
  <2>5. Distance(pts[x], pts[i]) = Distance(pts[i], pts[x])
    BY <1>1, <2>1 DEF Distance
  <2>6. SumFunctionOnSet(k, T) = -Spread(pts, lo, hi, T, {i})
    OBVIOUS
  <2>7. k[x] = -Distance(pts[i], pts[x]) /\ Distance(pts[i], pts[x]) \in Nat
    BY <1>2
  <2> DEFINE s == Spread(pts, lo, hi, T, {i})
             d == Distance(pts[i], pts[x])
  <2>8. /\ SumFunctionOnSet(k, T \cup {x}) = (-d) + (-s)
        /\ Spread(pts, lo, hi, T \cup {x}, {i}) = s + d
        /\ s \in Int /\ d \in Int
    BY <2>2, <2>3, <2>4, <2>5, <2>6, <2>7
  <2>9. SumFunctionOnSet(k, T \cup {x}) = -Spread(pts, lo, hi, T \cup {x}, {i})
    <3> HIDE DEF s, d, F
    <3>. QED BY <2>8
  <2>. QED BY <2>1, <2>9
<1>7. F \in SUBSET SUBSET W
  OBVIOUS
<1>8. W \in F
  <2> HIDE DEF F
  <2>. QED BY <1>1, <1>5, <1>6, <1>7, SubsetsByElement
<1>. QED BY <1>3, <1>8

(* The sum over all pairs of two groups, likewise. *)
LEMMA AcrossValue ==
  ASSUME NEW pts, NEW lo, NEW hi, Between(pts, lo, hi),
         NEW U \in SUBSET DOMAIN pts, NEW W \in SUBSET DOMAIN pts
  PROVE  Across(pts, Energy, U, W) = -Spread(pts, lo, hi, U, W)
<1> DEFINE k == [i \in U |-> Along(pts, Energy, i, W)]
           F == {T \in SUBSET U : SumFunctionOnSet(k, T) = -Spread(pts, lo, hi, T, W)}
<1>1. pts \in Seq(Point) /\ IsFiniteSet(U)
  <2>1. pts \in Seq(Point)
    BY DEF Between
  <2>2. DOMAIN pts = 1..Len(pts) /\ Len(pts) \in Nat
    BY <2>1
  <2>. QED BY <2>1, <2>2, IndicesAreFinite, FS_Subset
<1>2. \A i \in U : k[i] = -Spread(pts, lo, hi, W, {i})
  BY AlongValue
<1>3. Across(pts, Energy, U, W) = SumFunctionOnSet(k, U)
  BY DEF Across, SumFunction
<1> HIDE DEF k
<1>4. {} \in F
  <2>1. Spread(pts, lo, hi, {}, W) = 0
    BY SpreadNone
  <2>. QED BY <2>1, SumEmpty
<1>5. \A x \in U : k[x] \in Int
  <2> SUFFICES ASSUME NEW x \in U PROVE k[x] \in Int
    OBVIOUS
  <2>1. {x} \in SUBSET DOMAIN pts
    OBVIOUS
  <2>2. PICK w : SpreadIs(w, pts, lo, hi, W, {x})
    BY <2>1, SpreadTerms
  <2>. QED BY <1>2, <2>2 DEF SpreadIs
<1>6. ASSUME NEW T \in F, NEW x \in U \ T PROVE T \cup {x} \in F
  <2>1. T \in SUBSET DOMAIN pts /\ x \in DOMAIN pts \ T /\ T \cup {x} \in SUBSET U
    OBVIOUS
  <2>2. SumFunctionOnSet(k, T \cup {x}) = k[x] + SumFunctionOnSet(k, T)
    <3>1. IsFiniteSet(T) /\ Weights(k, T \cup {x}) /\ x \notin T
      BY <1>1, <1>5, FS_Subset DEF Weights
    <3>. QED BY <3>1, SumAdd
  <2> DEFINE s == Spread(pts, lo, hi, T, W)
             d == Spread(pts, lo, hi, {x}, W)
  <2>3. /\ Spread(pts, lo, hi, T \cup {x}, W) = s + d
        /\ s \in Int /\ d \in Int /\ d = Spread(pts, lo, hi, W, {x})
    <3>1. x \in DOMAIN pts /\ x \notin T /\ T \in SUBSET DOMAIN pts /\ {x} \in SUBSET DOMAIN pts
      BY <2>1
    <3> HIDE DEF F
    <3>2. Spread(pts, lo, hi, T \cup {x}, W) = s + d
      BY <3>1, SpreadAdd
    <3>3. s \in Int /\ d \in Int
      BY <3>1, SpreadType
    <3>4. d = Spread(pts, lo, hi, W, {x})
      BY <3>1, SpreadSymmetric
    <3>. QED BY <3>2, <3>3, <3>4
  <2>4. SumFunctionOnSet(k, T \cup {x}) = (-d) + (-s)
    BY <1>2, <2>2, <2>3
  <2>5. SumFunctionOnSet(k, T \cup {x}) = -Spread(pts, lo, hi, T \cup {x}, W)
    <3> HIDE DEF s, d, F
    <3>. QED BY <2>3, <2>4
  <2>. QED BY <2>1, <2>5
<1>7. F \in SUBSET SUBSET U
  OBVIOUS
<1>8. U \in F
  <2> HIDE DEF F
  <2>. QED BY <1>1, <1>4, <1>6, <1>7, SubsetsByElement
<1>. QED BY <1>3, <1>8

\* e combines f, g and h.
Combines(e, a, f, b, g, c, h, S) ==
  /\ Weights(f, S) /\ Weights(g, S) /\ Weights(h, S)
  /\ a \in Int /\ b \in Int /\ c \in Int
  /\ \A x \in S : e[x] = a * f[x] + b * g[x] + c * h[x]

(* The sum of a combination is that of the sums. *)
LEMMA SumCombine ==
  ASSUME NEW S, IsFiniteSet(S), NEW e, NEW a, NEW f, NEW b, NEW g, NEW c, NEW h,
         Combines(e, a, f, b, g, c, h, S)
  PROVE  SumFunctionOnSet(e, S) = a * SumFunctionOnSet(f, S) + b * SumFunctionOnSet(g, S)
                                    + c * SumFunctionOnSet(h, S)
<1> DEFINE af == [x \in S |-> a * f[x]]
           bg == [x \in S |-> b * g[x]]
           ch == [x \in S |-> c * h[x]]
           t  == [x \in S |-> a * f[x] + b * g[x]]
<1>0. /\ Weights(f, S) /\ Weights(g, S) /\ Weights(h, S)
      /\ a \in Int /\ b \in Int /\ c \in Int
  BY DEF Combines
<1>1. \A x \in S : f[x] \in Int /\ g[x] \in Int /\ h[x] \in Int
  BY <1>0 DEF Weights
<1>2. \A x \in S : /\ af[x] = a * f[x] /\ bg[x] = b * g[x] /\ ch[x] = c * h[x]
                   /\ t[x] = af[x] + bg[x] /\ e[x] = t[x] + ch[x]
  BY DEF Combines
<1>3. \A x \in S : af[x] \in Int /\ bg[x] \in Int /\ ch[x] \in Int /\ t[x] \in Int
  BY <1>0, <1>1
<1> HIDE DEF af, bg, ch, t
<1>4. Weights(af, S) /\ Weights(bg, S) /\ Weights(ch, S) /\ Weights(t, S)
  BY <1>3 DEF Weights
<1>5. SumFunctionOnSet(af, S) = a * SumFunctionOnSet(f, S)
  <2>1. a \in Int /\ Weights(f, S) /\ \A x \in S : af[x] = a * f[x]
    BY <1>0, <1>2
  <2>. QED BY <2>1, SumScale
<1>6. SumFunctionOnSet(bg, S) = b * SumFunctionOnSet(g, S)
  <2>1. b \in Int /\ Weights(g, S) /\ \A x \in S : bg[x] = b * g[x]
    BY <1>0, <1>2
  <2>. QED BY <2>1, SumScale
<1>7. SumFunctionOnSet(ch, S) = c * SumFunctionOnSet(h, S)
  <2>1. c \in Int /\ Weights(h, S) /\ \A x \in S : ch[x] = c * h[x]
    BY <1>0, <1>2
  <2>. QED BY <2>1, SumScale
<1>8. SumFunctionOnSet(t, S) = SumFunctionOnSet(af, S) + SumFunctionOnSet(bg, S)
  BY <1>2, <1>4, SumPlus
<1>9. SumFunctionOnSet(e, S) = SumFunctionOnSet(t, S) + SumFunctionOnSet(ch, S)
  BY <1>2, <1>4, SumPlus
<1>. QED BY <1>5, <1>6, <1>7, <1>8, <1>9

(* What the terms of the statistic at one integer come to, for m and n points of which a
   and b are there or before: a square. *)
LEMMA EnergyTerm ==
  ASSUME NEW m \in Nat, NEW n \in Nat, NEW a \in Nat, NEW b \in Nat
  PROVE  (-(m * n * (n * n))) * (m * a + m * a - 2 * (a * a))
           + (-(m * n * (m * m))) * (n * b + n * b - 2 * (b * b))
           + (2 * (m * m) * (n * n)) * (n * a + m * b - 2 * (a * b))
         = (2 * (m * n)) * ((n * a - m * b) * (n * a - m * b))
OBVIOUS

\* X and Y are the two groups of the points.
Groups(pts, X, Y) == X \in SUBSET DOMAIN pts /\ Y = DOMAIN pts \ X

\* How far apart the shares of X and Y up to v are, times both of their sizes.
Gap(pts, X, Y, v) == Cardinality(Y) * Upto(pts, X, v) - Cardinality(X) * Upto(pts, Y, v)

\* The energy distance of the group X from the rest, times the denominators.
EnergyOf(pts, X) == Statistic(pts, Energy, X, FALSE)

SquaredGaps(e, pts, lo, hi, X, Y) ==
  \A v \in lo..hi : e[v] = (2 * (Cardinality(X) * Cardinality(Y)))
                            * (Gap(pts, X, Y, v) * Gap(pts, X, Y, v))

(* statistic_from_gram with the energy kernel is a sum of squares. *)
LEMMA EnergyIsASumOfSquares ==
  ASSUME NEW pts, NEW lo, NEW hi, Between(pts, lo, hi),
         NEW X, NEW Y, Groups(pts, X, Y),
         NEW e, SquaredGaps(e, pts, lo, hi, X, Y)
  PROVE  EnergyOf(pts, X) = SumFunctionOnSet(e, lo..hi)
<1> DEFINE V == lo..hi
           m == Cardinality(X)
           n == Cardinality(Y)
           sx == Spread(pts, lo, hi, X, X)
           sy == Spread(pts, lo, hi, Y, Y)
           sxy == Spread(pts, lo, hi, X, Y)
           a == -(m * n * (n * n))
           b == -(m * n * (m * m))
           c == 2 * (m * m) * (n * n)
<1>1. /\ pts \in Seq(Point) /\ IsFiniteSet(V) /\ V \in SUBSET Int
      /\ X \in SUBSET DOMAIN pts /\ Y \in SUBSET DOMAIN pts
  BY FS_Interval DEF Between, Groups
<1>2. m \in Nat /\ n \in Nat
  <2>1. 0 \in Int
    OBVIOUS
  <2>. QED BY <1>1, <2>1, UptoType
<1>3. /\ Across(pts, Energy, X, Y) = -sxy
      /\ Within(pts, Energy, X, FALSE) = -sx
      /\ Within(pts, Energy, Y, FALSE) = -sy
  <2>1. ASSUME NEW T \in SUBSET DOMAIN pts
        PROVE  Within(pts, Energy, T, FALSE) = -Spread(pts, lo, hi, T, T)
    <3>1. Within(pts, Energy, T, FALSE) = Across(pts, Energy, T, T)
      BY DEF Within, Across
    <3>. QED BY <3>1, AcrossValue
  <2>2. Within(pts, Energy, X, FALSE) = -sx
    BY <1>1, <2>1
  <2>3. Within(pts, Energy, Y, FALSE) = -sy
    BY <1>1, <2>1
  <2>4. Across(pts, Energy, X, Y) = -sxy
    BY <1>1, AcrossValue
  <2>. QED BY <2>2, <2>3, <2>4
<1>4. sx \in Int /\ sy \in Int /\ sxy \in Int
  BY <1>1, SpreadType
<1>5. Statistic(pts, Energy, X, FALSE) = a * sx + b * sy + c * sxy
  <2>1. Statistic(pts, Energy, X, FALSE)
          = m * n * ((n * n) * (-sx) + (m * m) * (-sy)) - 2 * (m * m) * (n * n) * (-sxy)
    BY <1>3 DEF Statistic, Pairs, Groups
  <2>2. ASSUME NEW k \in Nat, NEW l \in Nat, NEW x \in Int, NEW y \in Int, NEW z \in Int
        PROVE  k * l * ((l * l) * (-x) + (k * k) * (-y)) - 2 * (k * k) * (l * l) * (-z)
                 = (-(k * l * (l * l))) * x + (-(k * l * (k * k))) * y + (2 * (k * k) * (l * l)) * z
    OBVIOUS
  <2> HIDE DEF m, n, sx, sy, sxy
  <2>3. m * n * ((n * n) * (-sx) + (m * m) * (-sy)) - 2 * (m * m) * (n * n) * (-sxy)
          = a * sx + b * sy + c * sxy
    BY <1>2, <1>4, <2>2
  <2> HIDE DEF a, b, c
  <2>. QED BY <2>1, <2>3
<1>6. a \in Int /\ b \in Int /\ c \in Int
  <2> HIDE DEF m, n
  <2>. QED BY <1>2
<1>7. PICK f : SpreadIs(f, pts, lo, hi, X, X)
  BY <1>1, SpreadTerms
<1>8. PICK g : SpreadIs(g, pts, lo, hi, Y, Y)
  BY <1>1, SpreadTerms
<1>9. PICK h : SpreadIs(h, pts, lo, hi, X, Y)
  BY <1>1, SpreadTerms
<1>10. \A v \in V : e[v] = a * f[v] + b * g[v] + c * h[v]
  <2> SUFFICES ASSUME NEW v \in V PROVE e[v] = a * f[v] + b * g[v] + c * h[v]
    OBVIOUS
  <2> DEFINE p == Upto(pts, X, v)
             q == Upto(pts, Y, v)
  <2>1. p \in Nat /\ q \in Nat
    BY <1>1, UptoType
  <2>2. /\ f[v] = m * p + m * p - 2 * (p * p)
        /\ g[v] = n * q + n * q - 2 * (q * q)
        /\ h[v] = n * p + m * q - 2 * (p * q)
    BY <1>7, <1>8, <1>9 DEF SpreadIs, Apart
  <2>3. e[v] = (2 * (m * n)) * ((n * p - m * q) * (n * p - m * q))
    BY DEF Gap, SquaredGaps
  <2> HIDE DEF m, n, p, q
  <2>. QED BY <1>2, <2>1, <2>2, <2>3, EnergyTerm
<1>11. /\ Weights(f, V) /\ Weights(g, V) /\ Weights(h, V)
       /\ sx = SumFunctionOnSet(f, V) /\ sy = SumFunctionOnSet(g, V)
       /\ sxy = SumFunctionOnSet(h, V)
  BY <1>7, <1>8, <1>9 DEF SpreadIs
<1> HIDE DEF V, a, b, c, sx, sy, sxy
<1>12. SumFunctionOnSet(e, V) = a * SumFunctionOnSet(f, V) + b * SumFunctionOnSet(g, V)
                                  + c * SumFunctionOnSet(h, V)
  <2>1. Combines(e, a, f, b, g, c, h, V)
    BY <1>6, <1>10, <1>11 DEF Combines
  <2>. QED BY <1>1, <2>1, SumCombine
<1>. QED BY <1>5, <1>11, <1>12 DEF V, EnergyOf

Squares(e, c, g, S) ==
  /\ c \in Nat /\ c > 0 /\ Weights(g, S)
  /\ \A v \in S : e[v] = c * (g[v] * g[v])

(* Squares add up to a number that is not negative, and to zero if all are. *)
LEMMA SquaresAddUp ==
  ASSUME NEW S, IsFiniteSet(S), NEW e, NEW c, NEW g, Squares(e, c, g, S)
  PROVE  /\ SumFunctionOnSet(e, S) \in Int /\ SumFunctionOnSet(e, S) >= 0
         /\ SumFunctionOnSet(e, S) = 0 <=> \A v \in S : g[v] = 0
<1>0. c \in Nat /\ c > 0 /\ \A v \in S : g[v] \in Int
  BY DEF Squares, Weights
<1>1. ASSUME NEW k \in Int
      PROVE  c * (k * k) \in Nat /\ (c * (k * k) = 0 <=> k = 0)
  <2>1. k * k \in Nat /\ (k # 0 => k * k >= 1)
    <3>1. CASE k = 0
      BY <3>1
    <3>2. CASE k > 0
      <4>1. k >= 1
        BY <3>2
      <4>2. k * k >= k
        BY <4>1
      <4>. QED BY <4>1, <4>2
    <3>3. CASE k < 0
      <4>1. -k >= 1 /\ -k \in Int /\ (-k) * (-k) = k * k
        BY <3>3
      <4>2. (-k) * (-k) >= -k
        BY <4>1
      <4>. QED BY <4>1, <4>2
    <3>. QED BY <3>1, <3>2, <3>3
  <2> DEFINE s == k * k
  <2>2. s \in Nat /\ (k # 0 => s >= 1) /\ (k = 0 => s = 0)
    BY <2>1
  <2> HIDE DEF s
  <2>3. c * s \in Nat /\ (s >= 1 => c * s >= c) /\ (s = 0 => c * s = 0)
    BY <1>0, <2>2
  <2>4. c * s \in Nat /\ (c * s = 0 <=> k = 0)
    BY <1>0, <2>2, <2>3
  <2>. QED BY <2>4 DEF s
<1>2. \A v \in S : e[v] \in Nat /\ (e[v] = 0 <=> g[v] = 0)
  BY <1>0, <1>1 DEF Squares
<1>3. Weights(e, S)
  BY <1>2 DEF Weights
<1>4. SumFunctionOnSet(e, S) \in Int
  BY <1>3, SumType
<1>5. SumFunctionOnSet(e, S) >= 0
  <2>1. S \in SUBSET S
    OBVIOUS
  <2>2. 0 <= SumFunctionOnSet(e, S)
    BY <1>2, <2>1, SumOfSubset
  <2>. QED BY <1>4, <2>2
<1>6. ASSUME SumFunctionOnSet(e, S) = 0, NEW v \in S PROVE g[v] = 0
  <2>1. SumFunctionOnSet(e, S) = e[v] + SumFunctionOnSet(e, S \ {v})
    BY <1>3, SumRemove
  <2>2. SumFunctionOnSet(e, S \ {v}) \in Int /\ 0 <= SumFunctionOnSet(e, S \ {v})
    <3>1. S \ {v} \in SUBSET S /\ IsFiniteSet(S \ {v}) /\ Weights(e, S \ {v})
      BY <1>3, FS_Subset DEF Weights
    <3>. QED BY <1>2, <3>1, SumOfSubset, SumType
  <2>. QED BY <1>2, <1>6, <2>1, <2>2
<1>7. ASSUME \A v \in S : g[v] = 0 PROVE SumFunctionOnSet(e, S) = 0
  BY <1>2, <1>7, SumZero
<1>. QED BY <1>4, <1>5, <1>6, <1>7

(* Gaps are integers. *)
LEMMA GapType ==
  ASSUME NEW pts \in Seq(Point), NEW X \in SUBSET DOMAIN pts, NEW Y \in SUBSET DOMAIN pts,
         NEW v \in Int
  PROVE  Gap(pts, X, Y, v) \in Int
<1>1. /\ Cardinality(X) \in Nat /\ Upto(pts, X, v) \in Nat
      /\ Cardinality(Y) \in Nat /\ Upto(pts, Y, v) \in Nat
  BY UptoType
<1>2. \A a, b, c, d \in Nat : a * b - c * d \in Int
  OBVIOUS
<1>. QED BY <1>1, <1>2 DEF Gap

(* So it is not negative, and zero just where there is no gap. *)
LEMMA EnergyAndGaps ==
  ASSUME NEW pts, NEW lo, NEW hi, Between(pts, lo, hi),
         NEW X, NEW Y, Groups(pts, X, Y), X # {}, Y # {}
  PROVE  /\ EnergyOf(pts, X) >= 0
         /\ EnergyOf(pts, X) = 0 <=> \A v \in lo..hi : Gap(pts, X, Y, v) = 0
<1> DEFINE V == lo..hi
           c == 2 * (Cardinality(X) * Cardinality(Y))
           g == [v \in V |-> Gap(pts, X, Y, v)]
           e == [v \in V |-> c * (g[v] * g[v])]
<1>1. /\ pts \in Seq(Point) /\ IsFiniteSet(V) /\ V \in SUBSET Int
      /\ X \in SUBSET DOMAIN pts /\ Y \in SUBSET DOMAIN pts
  BY FS_Interval DEF Between, Groups
<1>2. c \in Nat /\ c > 0
  <2>1. IsFiniteSet(X) /\ IsFiniteSet(Y) /\ Cardinality(X) \in Nat /\ Cardinality(Y) \in Nat
    <3>1. 0 \in Int
      OBVIOUS
    <3>. QED BY <1>1, <3>1, UptoType
  <2>2. Cardinality(X) # 0 /\ Cardinality(Y) # 0
    BY <2>1, FS_EmptySet
  <2>3. ASSUME NEW m \in Nat, NEW n \in Nat, m # 0, n # 0
        PROVE  2 * (m * n) \in Nat /\ 2 * (m * n) > 0
    <3>1. m * n >= n
      BY <2>3
    <3>. QED BY <2>3, <3>1
  <2>. QED BY <2>1, <2>2, <2>3
<1>3. \A v \in V : g[v] = Gap(pts, X, Y, v) /\ Gap(pts, X, Y, v) \in Int
  BY <1>1, GapType
<1>4. \A v \in V : e[v] = c * (g[v] * g[v])
  OBVIOUS
<1>5. SquaredGaps(e, pts, lo, hi, X, Y)
  BY <1>3, <1>4 DEF SquaredGaps
<1> HIDE DEF g, e
<1>6. EnergyOf(pts, X) = SumFunctionOnSet(e, V)
  <2> HIDE DEF c
  <2>. QED BY <1>5, EnergyIsASumOfSquares
<1> HIDE DEF c
<1>7. Weights(g, V)
  BY <1>3 DEF Weights
<1> HIDE DEF V
<1>8. /\ SumFunctionOnSet(e, V) >= 0
      /\ SumFunctionOnSet(e, V) = 0 <=> \A v \in V : g[v] = 0
  <2>1. Squares(e, c, g, V)
    BY <1>2, <1>4, <1>7 DEF Squares
  <2>. QED BY <1>1, <2>1, SquaresAddUp
<1>. QED BY <1>3, <1>6, <1>8 DEF V

\* How many points of T are at v.
At(pts, T, v) == Cardinality({i \in T : pts[i] = v})

(* What is v or before it is what is before it, and what is at v. *)
LEMMA UptoStep ==
  ASSUME NEW pts \in Seq(Point), NEW T \in SUBSET DOMAIN pts, NEW v \in Int
  PROVE  /\ Upto(pts, T, v) = Upto(pts, T, v - 1) + At(pts, T, v)
         /\ Upto(pts, T, v - 1) \in Nat /\ At(pts, T, v) \in Nat
<1> DEFINE S == {i \in T : pts[i] <= v - 1}
           R == {i \in T : pts[i] = v}
           Q == {i \in T : pts[i] <= v}
<1>1. \A i \in T : pts[i] \in Int
  BY PointsOfSequence
<1>2. IsFiniteSet(S) /\ IsFiniteSet(R) /\ v - 1 \in Int
  <2>1. S \in SUBSET T /\ R \in SUBSET T /\ v - 1 \in Int
    OBVIOUS
  <2> HIDE DEF S, R
  <2>. QED BY <2>1, UptoType, FS_Subset
<1>3. Q = S \cup R /\ S \cap R = {}
  BY <1>1
<1> HIDE DEF S, R, Q
<1>4. Cardinality(S \cup R) = Cardinality(S) + Cardinality(R) - Cardinality(S \cap R)
  BY <1>2, FS_Union
<1>5. Cardinality(S \cap R) = 0 /\ Cardinality(S) \in Nat /\ Cardinality(R) \in Nat
  BY <1>2, <1>3, FS_EmptySet, FS_CardinalityType
<1>6. Cardinality(Q) = Cardinality(S) + Cardinality(R)
  BY <1>3, <1>4, <1>5
<1>. QED BY <1>5, <1>6 DEF Upto, At, S, R, Q

(* The shares up to every integer agree just if those at every integer do. *)
LEMMA GapsAndShares ==
  ASSUME NEW pts, NEW lo, NEW hi, Between(pts, lo, hi),
         NEW X \in SUBSET DOMAIN pts, NEW Y \in SUBSET DOMAIN pts
  PROVE  (\A v \in lo..hi : Gap(pts, X, Y, v) = 0)
           <=> \A v \in Point : At(pts, X, v) * Cardinality(Y) = At(pts, Y, v) * Cardinality(X)
<1> DEFINE m == Cardinality(X)
           n == Cardinality(Y)
           gap(v) == Gap(pts, X, Y, v)
           even(v) == At(pts, X, v) * n = At(pts, Y, v) * m
<1>1. /\ pts \in Seq(Point) /\ lo \in Int /\ hi \in Int
      /\ \A i \in DOMAIN pts : /\ pts[i] \in Point /\ pts[i] \in Int
                               /\ lo <= pts[i] /\ pts[i] <= hi
  BY PointsOfSequence DEF Between
<1>2. m \in Nat /\ n \in Nat
  BY <1>1, UptoType
<1>3. ASSUME NEW v \in Int
      PROVE  /\ gap(v) \in Int /\ gap(v - 1) \in Int
             /\ gap(v - 1) = 0 => (gap(v) = 0 <=> even(v))
             /\ gap(v) = 0 => (gap(v - 1) = 0 <=> even(v))
  <2> DEFINE p == Upto(pts, X, v - 1)
             q == Upto(pts, Y, v - 1)
             a == At(pts, X, v)
             b == At(pts, Y, v)
  <2>1. /\ p \in Nat /\ q \in Nat /\ a \in Nat /\ b \in Nat
        /\ Upto(pts, X, v) = p + a /\ Upto(pts, Y, v) = q + b
    BY <1>1, UptoStep
  <2>2. gap(v - 1) = n * p - m * q /\ gap(v) = n * (p + a) - m * (q + b)
        /\ (even(v) <=> a * n = b * m)
    BY <2>1 DEF Gap
  <2> HIDE DEF m, n, p, q, a, b, gap, even
  <2>3. gap(v) = (n * p - m * q) + (a * n - b * m)
    BY <1>2, <2>1, <2>2
  <2>4. n * p - m * q \in Int /\ a * n \in Int /\ b * m \in Int
    BY <1>2, <2>1
  <2> DEFINE left == n * p - m * q
             first == a * n
             second == b * m
             new == gap(v)
             old == gap(v - 1)
  <2>5. /\ old = left /\ new = left + (first - second) /\ (even(v) <=> first = second)
        /\ left \in Int /\ first \in Int /\ second \in Int
    BY <2>2, <2>3, <2>4
  <2> HIDE DEF left, first, second, new, old
  <2>6. /\ new \in Int /\ old \in Int
        /\ old = 0 => (new = 0 <=> first = second)
        /\ new = 0 => (old = 0 <=> first = second)
    BY <2>5
  <2>. QED BY <2>5, <2>6 DEF new, old
<1>4. ASSUME NEW v \in Int, \/ v < lo \/ v > hi \/ v \notin Point
      PROVE  even(v)
  <2>1. ASSUME NEW T \in SUBSET DOMAIN pts PROVE At(pts, T, v) = 0
    <3>1. {i \in T : pts[i] = v} = {}
      BY <1>1, <1>4
    <3>. QED BY <3>1, FS_EmptySet DEF At
  <2>2. At(pts, X, v) = 0 /\ At(pts, Y, v) = 0
    BY <2>1
  <2>. QED BY <1>2, <2>2
<1>5. gap(lo - 1) = 0
  <2>1. ASSUME NEW T \in SUBSET DOMAIN pts PROVE Upto(pts, T, lo - 1) = 0
    <3>1. {i \in T : pts[i] <= lo - 1} = {}
      BY <1>1
    <3>. QED BY <3>1, FS_EmptySet DEF Upto
  <2>2. Upto(pts, X, lo - 1) = 0 /\ Upto(pts, Y, lo - 1) = 0
    BY <2>1
  <2>. QED BY <1>2, <2>2 DEF Gap
<1>6. Point \subseteq Int
  BY DriftAssumption
<1> HIDE DEF gap, even
<1>7. ASSUME \A v \in lo..hi : gap(v) = 0 PROVE \A v \in Point : even(v)
  <2> SUFFICES ASSUME NEW v \in Point PROVE even(v)
    OBVIOUS
  <2>1. v \in Int /\ lo \in Int /\ hi \in Int
    BY <1>1, <1>6
  <2>2. CASE v < lo \/ v > hi
    BY <1>4, <2>1, <2>2
  <2>3. CASE lo <= v /\ v <= hi
    <3>1. gap(v) = 0
      BY <1>7, <2>1, <2>3
    <3>2. gap(v - 1) = 0
      <4>1. CASE v = lo
        BY <1>5, <4>1
      <4>2. CASE v # lo
        <5>1. v - 1 \in lo..hi
          BY <2>1, <2>3, <4>2
        <5>. QED BY <1>7, <5>1
      <4>. QED BY <4>1, <4>2
    <3>. QED BY <1>3, <2>1, <3>1, <3>2
  <2>. QED BY <2>1, <2>2, <2>3
<1>8. ASSUME \A v \in Point : even(v) PROVE \A v \in lo..hi : gap(v) = 0
  <2> DEFINE D == {k \in Nat : gap(lo - 1 + k) = 0}
  <2>1. 0 \in D
    BY <1>1, <1>5
  <2>2. ASSUME NEW k \in D PROVE k + 1 \in D
    <3> DEFINE v == lo + k
    <3>1. v \in Int /\ v - 1 = lo - 1 + k /\ v = lo - 1 + (k + 1) /\ k + 1 \in Nat
      BY <1>1
    <3>2. gap(lo - 1 + k) = 0
      OBVIOUS
    <3> HIDE DEF v, D
    <3>3. even(v)
      BY <1>4, <1>8, <3>1
    <3>4. gap(v) = 0
      BY <1>3, <3>1, <3>2, <3>3
    <3>5. gap(lo - 1 + (k + 1)) = 0
      BY <3>1, <3>4
    <3>. QED BY <3>1, <3>5 DEF D
  <2>3. D \in SUBSET Nat
    OBVIOUS
  <2>4. D = Nat
    <3> HIDE DEF D
    <3>. QED BY <2>1, <2>2, <2>3, NaturalsBySuccessor
  <2> SUFFICES ASSUME NEW v \in lo..hi PROVE gap(v) = 0
    OBVIOUS
  <2>5. v - lo + 1 \in Nat /\ lo - 1 + (v - lo + 1) = v
    BY <1>1
  <2>6. v - lo + 1 \in D
    BY <2>4, <2>5
  <2>7. gap(lo - 1 + (v - lo + 1)) = 0
    BY <2>6
  <2>. QED BY <2>5, <2>7
<1>. QED BY <1>7, <1>8 DEF gap, even

(* For two groups of points of a run and its baseline, whatever they are. *)
LEMMA EnergyOfTwo ==
  ASSUME NEW x \in Seq(Point), NEW y \in Seq(Point), x # << >>, y # << >>
  PROVE  LET Share(s, v) == Cardinality({k \in DOMAIN s : s[k] = v})
             d == Observed(x, y, Energy, FALSE)
         IN /\ d >= 0
            /\ d = 0 <=> \A v \in Point : Share(x, v) * Len(y) = Share(y, v) * Len(x)
<1> DEFINE pts == x \o y
           m == Len(x)
           n == Len(y)
           X == 1..m
           Y == DOMAIN pts \ X
           Share(s, v) == Cardinality({k \in DOMAIN s : s[k] = v})
<1>1. m \in Nat /\ n \in Nat /\ m # 0 /\ n # 0
  OBVIOUS
<1>2. /\ pts \in Seq(Point) /\ DOMAIN pts = 1..(m + n)
      /\ \A k \in 1..m : pts[k] = x[k]
      /\ \A k \in 1..n : pts[m + k] = y[k]
  OBVIOUS
<1>3. /\ DOMAIN x = 1..m /\ DOMAIN y = 1..n
  OBVIOUS
<1> HIDE DEF pts, m, n
<1>4. X \in SUBSET DOMAIN pts /\ Y = (m + 1)..(m + n) /\ X # {} /\ Y # {}
  <2>1. X \in SUBSET DOMAIN pts
    BY <1>1, <1>2
  <2>2. Y = (m + 1)..(m + n)
    BY <1>1, <1>2
  <2>3. 1 \in X /\ m + 1 \in Y
    BY <1>1, <2>2
  <2>. QED BY <2>1, <2>2, <2>3
<1>5. Cardinality(X) = m /\ Cardinality(Y) = n
  <2>1. Cardinality(X) = m
    BY <1>1, IndicesAreFinite
  <2>2. m + 1 \in Int /\ m + n \in Int
    BY <1>1
  <2>3. Cardinality((m + 1)..(m + n)) = IF m + 1 > m + n THEN 0 ELSE (m + n) - (m + 1) + 1
    BY <2>2, FS_Interval
  <2>4. Cardinality((m + 1)..(m + n)) = n
    BY <1>1, <2>3
  <2>. QED BY <1>4, <2>1, <2>4
<1>6. \A v \in Point : At(pts, X, v) = Share(x, v)
  BY <1>2, <1>3 DEF At
<1>7. ASSUME NEW v \in Point PROVE At(pts, Y, v) = Share(y, v)
  <2> DEFINE S == {k \in DOMAIN y : y[k] = v}
             T == {i \in Y : pts[i] = v}
             f == [k \in S |-> m + k]
  <2>1. /\ f \in [S -> T]
        /\ \A k, l \in S : f[k] = f[l] => k = l
        /\ \A i \in T : \E k \in S : f[k] = i
    <3>1. \A k \in S : m + k \in T
      BY <1>1, <1>2, <1>3, <1>4
    <3>2. \A i \in T : i - m \in S /\ m + (i - m) = i
      <4> SUFFICES ASSUME NEW i \in T PROVE i - m \in S /\ m + (i - m) = i
        OBVIOUS
      <4>1. i \in (m + 1)..(m + n) /\ pts[i] = v
        BY <1>4
      <4>2. i - m \in 1..n /\ m + (i - m) = i
        BY <1>1, <4>1
      <4>. QED BY <1>2, <1>3, <4>1, <4>2
    <3>3. \A k \in S : k \in Int /\ m \in Int
      BY <1>1, <1>3
    <3> HIDE DEF S, T, Y
    <3>4. \A i \in T : f[i - m] = i
      BY <3>2
    <3>. QED BY <3>1, <3>2, <3>3, <3>4
  <2> HIDE DEF f
  <2>2. ExistsBijection(S, T)
    <3> HIDE DEF S, T
    <3>1. f \in Bijection(S, T)
      BY <2>1 DEF Bijection, Injection, Surjection, IsInjective
    <3>. QED BY <3>1 DEF ExistsBijection
  <2>3. IsFiniteSet(S)
    <3>1. IsFiniteSet(DOMAIN y) /\ S \in SUBSET DOMAIN y
      BY <1>1, <1>3, IndicesAreFinite
    <3> HIDE DEF S
    <3>. QED BY <3>1, FS_Subset
  <2> HIDE DEF S, T
  <2>4. Cardinality(T) = Cardinality(S)
    BY <2>2, <2>3, FS_Bijection
  <2>. QED BY <2>4 DEF S, T, At
<1>8. PICK lo \in Int, hi \in Int : Between(pts, lo, hi)
  BY <1>2, PointsAreBounded
<1>9. Groups(pts, X, Y)
  BY <1>4 DEF Groups
<1>10. Observed(x, y, Energy, FALSE) = EnergyOf(pts, X)
  BY DEF Observed, EnergyOf, pts, m
<1>11. Y \in SUBSET DOMAIN pts
  OBVIOUS
<1> HIDE DEF X, Y, Share
<1>12. /\ EnergyOf(pts, X) >= 0
       /\ EnergyOf(pts, X) = 0 <=> \A v \in lo..hi : Gap(pts, X, Y, v) = 0
  <2>1. Between(pts, lo, hi) /\ X # {} /\ Y # {}
    BY <1>4, <1>8
  <2>2. EnergyOf(pts, X) >= 0
    BY <1>9, <2>1, EnergyAndGaps
  <2>3. EnergyOf(pts, X) = 0 <=> \A v \in lo..hi : Gap(pts, X, Y, v) = 0
    BY <1>9, <2>1, EnergyAndGaps
  <2>. QED BY <2>2, <2>3
<1>13. (\A v \in lo..hi : Gap(pts, X, Y, v) = 0)
         <=> \A v \in Point : At(pts, X, v) * Cardinality(Y) = At(pts, Y, v) * Cardinality(X)
  <2>1. Between(pts, lo, hi) /\ X \in SUBSET DOMAIN pts
    BY <1>4, <1>8
  <2>. QED BY <1>11, <2>1, GapsAndShares
<1>14. (\A v \in Point : At(pts, X, v) * Cardinality(Y) = At(pts, Y, v) * Cardinality(X))
         <=> \A v \in Point : Share(x, v) * n = Share(y, v) * m
  BY <1>5, <1>6, <1>7
<1>. QED BY <1>10, <1>12, <1>13, <1>14 DEF Share, m, n

(* The test statistic of twosample.rs is a distance: it is never negative, and zero just
   if every point has the same share of the run and of the baseline, for any number of
   points anywhere. *)
THEOREM EnergyHolds == Spec => []EnergyIsADistance
<1>1. GInv => EnergyIsADistance
  <2> SUFFICES ASSUME GInv, NEW i \in Usable PROVE
        LET x == cloud[i]  y == samples[i]
            Share(s, v) == Cardinality({k \in DOMAIN s : s[k] = v})
            d == Observed(x, y, Energy, FALSE)
        IN /\ d >= 0
           /\ d = 0 <=> \A v \in Point : Share(x, v) * Len(y) = Share(y, v) * Len(x)
    BY DEF EnergyIsADistance
  <2>1. samples[i] \in Seq(Point) /\ cloud[i] \in Seq(Point)
    BY UsableIsFinite DEF GInv, GateShape
  <2>2. samples[i] # << >> /\ cloud[i] # << >>
    BY DEF Usable
  <2>. QED BY <2>1, <2>2, EnergyOfTwo
<1>. QED BY <1>1, GateInvariance, PTL
=============================================================================
