---------------------------- MODULE ProviderProofs ----------------------------
(***************************************************************************)
(* Theorems about ProbeRunner and about ProviderClient, which extends it,   *)
(* for every value of their constants.  The first part is about a run whose *)
(* provider may answer anything (Spec), and cites no assumption but that of *)
(* ProbeRunner; the second is about a run with the adapters for its         *)
(* provider (ClientSpec).                                                   *)
(***************************************************************************)
EXTENDS ProviderClient, SequenceTheorems, FiniteSetTheorems, WellFoundedInduction, TLAPS

-----------------------------------------------------------------------------
(* A run: the first of some calls *)

(* A set of natural numbers that is not empty has one least element, which is First. *)
LEMMA FirstIsLeast ==
  ASSUME NEW S \in SUBSET Nat, S # {}
  PROVE  First(S) \in S /\ \A j \in S : First(S) <= j
<1>1. \E i \in S : \A j \in S : ~(<<j, i>> \in OpToRel(<, Nat))
  BY NatLessThanWellFounded, WFMin
<1>2. PICK i \in S : \A j \in S : ~(<<j, i>> \in OpToRel(<, Nat))
  BY <1>1
<1>3. \A j \in S : i <= j
  <2>1. SUFFICES ASSUME NEW j \in S, ~(i <= j) PROVE FALSE
    OBVIOUS
  <2>2. j \in Nat /\ i \in Nat /\ j < i
    BY <2>1
  <2>3. <<j, i>> \in {s \in Nat \X Nat : s[1] < s[2]}
    BY <2>2
  <2> QED
    BY <2>3, <1>2 DEF OpToRel
<1> QED
  BY <1>2, <1>3 DEF First

-----------------------------------------------------------------------------
(* A run: the inductive invariant *)

(* A waiting prompt has not been asked, one that asks has calls left, and one that has
   asked has none; vectors come last and from a provider that has them. *)
Places ==
  \A i \in Prompt :
    /\ pc[i] = "waiting" => replies[i] = << >>
    /\ pc[i] = "completing" => Len(replies[i]) < Draws
    /\ pc[i] \in {"embedding", "done"} => Len(replies[i]) = Draws
    /\ pc[i] = "embedding" => mode = "embeddings" /\ answers[i] # {}
    /\ pc[i] # "done" \/ mode = "completions" => vectors[i] = {}

FirstVersion(calls) ==
  IF Named(calls) = {} THEN Unnamed ELSE calls[First(Named(calls))].version

(* What a future keeps is what it was answered. *)
Remembers ==
  \A i \in Prompt :
    /\ answers[i] = Usable(replies[i])
    /\ vectors[i] \subseteq answers[i]
    /\ version[i] = FirstVersion(replies[i])

(* A run is put together when all prompts have ended, and nothing happens after. *)
Joined ==
  result # NoRun =>
    /\ Unended = {}
    /\ result = [embeddings  |-> vectors,
                 completions |-> [i \in Prompt |-> Representative(i)],
                 version     |-> RunVersion,
                 status      |-> ClassifyStatus(Cardinality(FailedPrompts), N)]

RInv == TypeOK /\ Places /\ Remembers /\ PermitsAreUsed /\ Joined

USE RunnerAssumption DEF Prompt, Cap, AtLeastOne, AsksAgain, kept, vars

LEMMA UsableGrows ==
  ASSUME NEW calls \in Seq(Reply), NEW r \in Reply
  PROVE  Usable(Append(calls, r)) =
           IF Answered(r) THEN Usable(calls) \cup {Len(calls) + 1} ELSE Usable(calls)
BY DEF Usable

LEMMA NamedGrows ==
  ASSUME NEW calls \in Seq(Reply), NEW r \in Reply
  PROVE  Named(Append(calls, r)) =
           IF r # Failed /\ r.version # Unnamed THEN Named(calls) \cup {Len(calls) + 1}
                                                ELSE Named(calls)
BY DEF Named

(* A later call does not change the first version named. *)
LEMMA FirstVersionStays ==
  ASSUME NEW calls \in Seq(Reply), NEW r \in Reply
  PROVE  FirstVersion(Append(calls, r)) = FirstNamed(FirstVersion(calls), r)
<1> DEFINE longer == Append(calls, r)
<1>1. Named(calls) \in SUBSET Nat /\ Named(longer) \in SUBSET Nat
  BY DEF Named
<1>2. CASE Named(calls) = {}
  <2>1. First({Len(calls) + 1}) = Len(calls) + 1
    BY FirstIsLeast, Len(calls) + 1 \in Nat
  <2>2. longer[Len(calls) + 1] = r
    OBVIOUS
  <2> QED
    BY <1>2, <2>1, <2>2, NamedGrows DEF FirstVersion, FirstNamed
<1>3. CASE Named(calls) # {}
  <2>1. /\ First(Named(calls)) \in Named(calls)
        /\ \A k \in Named(calls) : First(Named(calls)) <= k
    BY <1>1, <1>3, FirstIsLeast
  <2>2. Named(longer) = Named(calls) \/ Named(longer) = Named(calls) \cup {Len(calls) + 1}
    BY NamedGrows
  <2>3. First(Named(calls)) \in 1..Len(calls)
    BY <2>1 DEF Named
  <2>4. /\ First(Named(calls)) \in Named(longer)
        /\ \A k \in Named(longer) : First(Named(calls)) <= k
    BY <2>1, <2>2, <2>3
  <2>5. First(Named(longer)) \in Named(longer) /\ \A k \in Named(longer) : First(Named(longer)) <= k
    BY <1>1, <2>4, FirstIsLeast
  <2>6. First(Named(longer)) \in Nat /\ First(Named(calls)) \in Nat
    BY <1>1, <2>4, <2>5
  <2>7. First(Named(longer)) = First(Named(calls))
    BY <2>4, <2>5, <2>6
  <2>8. longer[First(Named(calls))] = calls[First(Named(calls))]
    BY <2>3
  <2>9. calls[First(Named(calls))].version # Unnamed
    BY <2>1 DEF Named
  <2> QED
    BY <1>3, <2>4, <2>7, <2>8, <2>9 DEF FirstVersion, FirstNamed
<1> QED
  BY <1>2, <1>3

-----------------------------------------------------------------------------
(* A run: permits *)

LEMMA PromptSetsAreFinite ==
  /\ IsFiniteSet(Prompt) /\ Cardinality(Prompt) = N
  /\ \A S \in SUBSET Prompt : IsFiniteSet(S) /\ Cardinality(S) \in Nat /\ Cardinality(S) <= N
<1>1. IsFiniteSet(Prompt) /\ Cardinality(Prompt) = N
  BY FS_Interval
<1>2. ASSUME NEW S \in SUBSET Prompt
      PROVE  IsFiniteSet(S) /\ Cardinality(S) \in Nat /\ Cardinality(S) <= N
  BY <1>1, FS_Subset, FS_CardinalityType
<1> QED
  BY <1>1, <1>2

(* The first poll uses all permits, or starts all prompts. *)
LEMMA PollingUsesPermits ==
  ASSUME pc = Polled
  PROVE  PermitsAreUsed
<1>1. Unended = Prompt
  BY DEF Unended, Polled
<1>2. InFlight = {i \in Prompt : i <= Cap}
  BY DEF InFlight, Polled
<1>3. CASE N < Cap
  BY <1>1, <1>2, <1>3, PromptSetsAreFinite, InFlight = Prompt DEF PermitsAreUsed
<1>4. CASE ~(N < Cap)
  <2>1. InFlight = 1..Cap
    BY <1>2, <1>4
  <2>2. Cardinality(InFlight) = Cap
    BY <2>1, FS_Interval
  <2> QED
    BY <1>1, <1>4, <2>2, PromptSetsAreFinite DEF PermitsAreUsed
<1> QED
  BY <1>3, <1>4

(* So does a prompt that ends: its permit goes to one that waits, if any does. *)
LEMMA LeavingUsesPermits ==
  ASSUME PermitsAreUsed, NEW i \in Prompt, pc[i] \in {"completing", "embedding"},
         pc \in [Prompt -> {"waiting", "completing", "embedding", "done"}],
         Leave(i)
  PROVE  PermitsAreUsed'
<1>1. /\ Unended' = Unended \ {i} /\ i \in Unended /\ i \in InFlight
      /\ Unended = InFlight \cup Waiting /\ InFlight \cap Waiting = {}
  BY FirstIsLeast DEF Unended, InFlight, Waiting, Leave, HandOver
<1>2. /\ InFlight \in SUBSET Prompt /\ Unended \in SUBSET Prompt /\ Waiting \in SUBSET Nat
  BY DEF InFlight, Unended, Waiting
<1>3. /\ IsFiniteSet(InFlight) /\ IsFiniteSet(Unended)
      /\ Cardinality(InFlight) \in Nat /\ Cardinality(Unended) \in Nat
  BY <1>2, PromptSetsAreFinite
<1>4. Cardinality(Unended') = Cardinality(Unended) - 1
  BY <1>1, <1>3, FS_RemoveElement
<1>5. /\ Cardinality(InFlight \ {i}) = Cardinality(InFlight) - 1
      /\ IsFiniteSet(InFlight \ {i})
  BY <1>1, <1>3, FS_RemoveElement
<1>6. CASE Waiting = {}
  <2>1. InFlight' = InFlight \ {i}
    BY <1>6 DEF InFlight, Leave, HandOver
  <2> QED
    BY <1>1, <1>3, <1>4, <1>5, <1>6, <2>1 DEF PermitsAreUsed
<1>7. CASE Waiting # {}
  <2>1. First(Waiting) \in Waiting
    BY <1>2, <1>7, FirstIsLeast
  <2>2. InFlight' = (InFlight \ {i}) \cup {First(Waiting)}
    BY <1>7, <2>1 DEF InFlight, Waiting, Leave, HandOver
  <2>3. Cardinality(InFlight') = Cardinality(InFlight)
    <3>1. First(Waiting) \notin InFlight \ {i}
      BY <1>1, <2>1
    <3>2. Cardinality((InFlight \ {i}) \cup {First(Waiting)}) = Cardinality(InFlight \ {i}) + 1
      BY <1>5, <3>1, FS_AddElement
    <3> QED
      BY <1>3, <1>5, <2>2, <3>2
  <2>4. InFlight \cup {First(Waiting)} \in SUBSET Unended
    BY <1>1, <2>1
  <2>5. Cardinality(InFlight \cup {First(Waiting)}) = Cardinality(InFlight) + 1
    BY <1>1, <1>3, <2>1, FS_AddElement
  <2>6. Cardinality(InFlight) + 1 <= Cardinality(Unended)
    BY <1>3, <2>4, <2>5, FS_Subset
  <2> QED
    BY <1>3, <1>4, <2>3, <2>6 DEF PermitsAreUsed
<1> QED
  BY <1>6, <1>7

-----------------------------------------------------------------------------
(* A run: steps *)

LEMMA InitHolds == Init => RInv
<1> SUFFICES ASSUME Init PROVE RInv
  OBVIOUS
<1>1. TypeOK
  BY DEF Init, TypeOK, Polled, Nothing, Draws
<1>2. Places
  BY DEF Init, Places, Polled, Nothing, Draws
<1>3. Remembers
  BY DEF Init, Remembers, Nothing, Usable, Named, FirstVersion
<1>4. PermitsAreUsed
  BY PollingUsesPermits DEF Init
<1>5. Joined
  BY DEF Init, Joined
<1> QED
  BY <1>1, <1>2, <1>3, <1>4, <1>5 DEF RInv

LEMMA AgainHolds == Again => RInv'
<1>1. Again => Init'
  BY DEF Again, AgainWith, Init, Polled, Nothing
<1>2. Init' => RInv'
  BY InitHolds, PTL
<1> QED
  BY <1>1, <1>2

(* A future that is under way keeps the run from being put together. *)
LEMMA NotJoinedYet ==
  ASSUME RInv, NEW i \in Prompt, pc[i] # "done"
  PROVE  result = NoRun
BY DEF RInv, Joined, Unended

LEMMA CompleteHolds ==
  ASSUME RInv, NEW i \in Prompt, Complete(i) \/ CompleteOnly(i)
  PROVE  RInv'
<1> USE DEF RInv
<1>1. PICK r \in Reply :
        /\ replies' = [replies EXCEPT ![i] = Append(@, r)]
        /\ version' = [version EXCEPT ![i] = FirstNamed(@, r)]
        /\ answers' = [answers EXCEPT ![i] =
                         IF Answered(r) THEN @ \cup {Len(replies[i]) + 1} ELSE @]
  BY DEF Complete, CompleteOnly, CompleteWith, CompleteOnlyWith, Heard
<1>2. /\ pc[i] = "completing" /\ Len(replies[i]) < Draws /\ replies[i] \in Seq(Reply)
      /\ Draws \in Nat /\ Draws' = Draws /\ mode' = mode
      /\ vectors' = vectors /\ result' = result /\ result = NoRun
  BY NotJoinedYet DEF Complete, CompleteOnly, CompleteWith, CompleteOnlyWith, TypeOK, Places, Draws
<1>3. /\ replies'[i] = Append(replies[i], r) /\ Len(replies'[i]) = Len(replies[i]) + 1
      /\ replies' \in [Prompt -> Seq(Reply)]
      /\ \A j \in Prompt \ {i} : replies'[j] = replies[j]
  BY <1>1, <1>2 DEF TypeOK
<1>4. /\ pc' \in [Prompt -> {"waiting", "completing", "embedding", "done"}]
      /\ pc'[i] \in {"completing", "embedding", "done"}
      /\ pc'[i] = "completing" => Len(replies[i]) + 1 < Draws
      /\ pc'[i] # "completing" => Len(replies[i]) + 1 = Draws
      /\ pc'[i] = "embedding" => mode = "embeddings" /\ answers'[i] # {}
  <2>1. Len(replies[i]) \in Nat
    BY <1>2, LenProperties
  <2>2. CASE Complete(i)
    <3>1. \/ AsksAgain(i) /\ UNCHANGED pc
          \/ ~AsksAgain(i) /\ answers'[i] # {} /\ pc' = [pc EXCEPT ![i] = "embedding"]
          \/ ~AsksAgain(i) /\ answers'[i] = {} /\ Leave(i)
      BY <2>2 DEF Complete, CompleteWith
    <3>2. mode = "embeddings"
      BY <2>2 DEF Complete, CompleteWith
    <3>3. CASE ~AsksAgain(i) /\ Leave(i)
      BY <1>2, <2>1, <3>3 DEF Leave, TypeOK
    <3>4. CASE AsksAgain(i) /\ UNCHANGED pc
      BY <1>2, <2>1, <3>4 DEF TypeOK
    <3>5. CASE ~AsksAgain(i) /\ answers'[i] # {} /\ pc' = [pc EXCEPT ![i] = "embedding"]
      BY <1>2, <2>1, <3>2, <3>5 DEF TypeOK
    <3> QED
      BY <3>1, <3>3, <3>4, <3>5
  <2>3. CASE CompleteOnly(i)
    <3>1. Draws = 1 /\ pc'[i] = "done"
      BY <2>3 DEF CompleteOnly, CompleteOnlyWith, Leave, Draws
    <3>2. pc' \in [Prompt -> {"waiting", "completing", "embedding", "done"}]
      BY <2>3 DEF CompleteOnly, CompleteOnlyWith, Leave, TypeOK
    <3> QED
      BY <1>2, <2>1, <3>1, <3>2
  <2> QED
    BY <2>2, <2>3
<1>5. \A j \in Prompt \ {i} : \/ pc'[j] = pc[j]
                              \/ pc[j] = "waiting" /\ pc'[j] = "completing"
  <2>1. Waiting # {} => First(Waiting) \in Waiting
    BY FirstIsLeast DEF Waiting
  <2> QED
    BY <2>1 DEF Complete, CompleteOnly, CompleteWith, CompleteOnlyWith, Leave, HandOver,
                Waiting, TypeOK
<1>6. TypeOK'
  <2>1. answers' \in [Prompt -> SUBSET (1..Draws)]
    BY <1>1, <1>2 DEF TypeOK
  <2>2. version' \in [Prompt -> Version \cup {Unnamed}]
    BY <1>1 DEF TypeOK, FirstNamed, Reply
  <2>3. ASSUME NEW j \in Prompt PROVE Len(replies'[j]) <= Draws
    <3>1. CASE j = i
      <4>1. Len(replies[i]) \in Nat
        BY <1>2, LenProperties
      <4> QED
        BY <1>2, <1>3, <3>1, <4>1
    <3>2. CASE j # i
      BY <1>3, <3>2 DEF TypeOK
    <3> QED
      BY <3>1, <3>2
  <2> QED
    BY <1>2, <1>3, <1>4, <2>1, <2>2, <2>3 DEF TypeOK
<1>7. Places'
  <2>1. Draws > 0
    BY DEF Draws
  <2> SUFFICES ASSUME NEW j \in Prompt
               PROVE  /\ pc'[j] = "waiting" => replies'[j] = << >>
                      /\ pc'[j] = "completing" => Len(replies'[j]) < Draws
                      /\ pc'[j] \in {"embedding", "done"} => Len(replies'[j]) = Draws
                      /\ pc'[j] = "embedding" => mode = "embeddings" /\ answers'[j] # {}
                      /\ pc'[j] # "done" \/ mode = "completions" => vectors[j] = {}
    BY <1>2 DEF Places
  <2>2. CASE j = i
    BY <1>2, <1>3, <1>4, <2>2 DEF Places
  <2>3. CASE j # i
    <3>1. answers'[j] = answers[j] /\ replies'[j] = replies[j]
      BY <1>1, <1>3, <2>3 DEF TypeOK
    <3> QED
      BY <1>2, <1>5, <2>1, <2>3, <3>1 DEF Places
  <2> QED
    BY <2>2, <2>3
<1>8. Remembers'
  <2> SUFFICES ASSUME NEW j \in Prompt
               PROVE  /\ answers'[j] = Usable(replies'[j])
                      /\ vectors[j] \subseteq answers'[j]
                      /\ version'[j] = FirstVersion(replies'[j])
    BY <1>2 DEF Remembers, FirstVersion, Usable, Named, Answered
  <2>1. CASE j = i
    <3>1. answers'[i] = IF Answered(r) THEN answers[i] \cup {Len(replies[i]) + 1} ELSE answers[i]
      BY <1>1 DEF TypeOK
    <3>2. version'[i] = FirstNamed(version[i], r)
      BY <1>1 DEF TypeOK
    <3>3. answers'[i] = Usable(replies'[i])
      BY <1>2, <1>3, <3>1, UsableGrows DEF Remembers
    <3>4. version'[i] = FirstVersion(replies'[i])
      BY <1>2, <1>3, <3>2, FirstVersionStays DEF Remembers
    <3>5. vectors[i] \subseteq answers'[i]
      BY <1>2 DEF Places
    <3> QED
      BY <2>1, <3>3, <3>4, <3>5
  <2>2. CASE j # i
    BY <1>1, <1>3, <2>2 DEF Remembers, TypeOK
  <2> QED
    BY <2>1, <2>2
<1>9. PermitsAreUsed'
  <2>1. CASE Leave(i)
    BY <1>2, <2>1, LeavingUsesPermits DEF TypeOK
  <2>2. CASE pc' = pc \/ pc' = [pc EXCEPT ![i] = "embedding"]
    <3>1. InFlight' = InFlight /\ Unended' = Unended
      BY <1>2, <2>2 DEF InFlight, Unended, TypeOK
    <3> QED
      BY <3>1 DEF PermitsAreUsed
  <2> QED
    BY <2>1, <2>2 DEF Complete, CompleteOnly, CompleteWith, CompleteOnlyWith
<1>10. Joined'
  BY <1>2 DEF Joined
<1> QED
  BY <1>6, <1>7, <1>8, <1>9, <1>10

LEMMA EmbedHolds ==
  ASSUME RInv, NEW i \in Prompt, Embed(i)
  PROVE  RInv'
<1> USE DEF RInv
<1>1. /\ pc[i] = "embedding" /\ Leave(i)
      /\ mode' = mode /\ replies' = replies /\ answers' = answers /\ version' = version
      /\ result' = result /\ result = NoRun /\ Draws' = Draws /\ Draws > 0 /\ Draws \in Nat
  BY NotJoinedYet DEF Embed, EmbedWith, Draws
<1>2. PICK embedded \in SUBSET answers[i] : vectors' = [vectors EXCEPT ![i] = embedded]
  BY DEF Embed, EmbedWith
<1>3. /\ pc' \in [Prompt -> {"waiting", "completing", "embedding", "done"}] /\ pc'[i] = "done"
      /\ \A j \in Prompt \ {i} : \/ pc'[j] = pc[j]
                                 \/ pc[j] = "waiting" /\ pc'[j] = "completing"
  <2>1. Waiting # {} => First(Waiting) \in Waiting
    BY FirstIsLeast DEF Waiting
  <2> QED
    BY <1>1, <2>1 DEF Leave, HandOver, Waiting, TypeOK
<1>4. TypeOK'
  <2>1. vectors' \in [Prompt -> SUBSET (1..Draws)]
    BY <1>1, <1>2 DEF TypeOK
  <2> QED
    BY <1>1, <1>3, <2>1 DEF TypeOK
<1>5. Places'
  BY <1>1, <1>2, <1>3 DEF Places, TypeOK
<1>6. Remembers'
  BY <1>1, <1>2 DEF Remembers, TypeOK, FirstVersion
<1>7. PermitsAreUsed'
  BY <1>1, LeavingUsesPermits DEF TypeOK
<1>8. Joined'
  BY <1>1 DEF Joined
<1> QED
  BY <1>4, <1>5, <1>6, <1>7, <1>8

LEMMA JoinHolds ==
  ASSUME RInv, Join
  PROVE  RInv'
<1> USE DEF RInv
<1>1. /\ mode' = mode /\ pc' = pc /\ replies' = replies /\ answers' = answers
      /\ version' = version /\ vectors' = vectors
  BY DEF Join
<1>2. result' \in ProbeRun
  <2>1. \A S \in SUBSET Nat : S # {} => First(S) \in S
    BY FirstIsLeast
  <2>2. vectors \in [Prompt -> SUBSET (1..AtLeastOne(Samples))]
    BY DEF TypeOK, Draws
  <2>3. [i \in Prompt |-> Representative(i)] \in [Prompt -> 0..AtLeastOne(Samples)]
    <3> SUFFICES ASSUME NEW i \in Prompt PROVE Representative(i) \in 0..AtLeastOne(Samples)
      OBVIOUS
    <3>1. answers[i] \in SUBSET (1..AtLeastOne(Samples)) /\ answers[i] \in SUBSET Nat
      BY DEF TypeOK, Draws
    <3> QED
      BY <2>1, <3>1 DEF Representative, Empty
  <2>4. RunVersion \in Version \cup {Unnamed}
    BY <2>1, {i \in Prompt : version[i] # Unnamed} \in SUBSET Nat DEF RunVersion, TypeOK
  <2>5. ClassifyStatus(Cardinality(FailedPrompts), N) \in {"Success", "PartialFailure", "Failed"}
    BY DEF ClassifyStatus
  <2> QED
    BY <2>2, <2>3, <2>4, <2>5 DEF Join, ProbeRun
<1>3. TypeOK'
  BY <1>1, <1>2 DEF TypeOK, Draws
<1>4. Places' /\ Remembers'
  BY <1>1 DEF Places, Remembers, Draws, FirstVersion
<1>5. PermitsAreUsed'
  BY <1>1 DEF PermitsAreUsed, InFlight, Unended
<1>6. Joined'
  BY <1>1 DEF Join, Joined, Unended, Representative, RunVersion, FailedPrompts
<1> QED
  BY <1>3, <1>4, <1>5, <1>6

LEMMA StutterHolds == RInv /\ UNCHANGED vars => RInv'
BY DEF RInv, TypeOK, Places, Remembers, Joined, PermitsAreUsed, InFlight, Unended, Draws,
       Representative, RunVersion, FailedPrompts, FirstVersion

LEMMA StepHolds == RInv /\ [Next]_vars => RInv'
<1> SUFFICES ASSUME RInv, [Next]_vars PROVE RInv'
  OBVIOUS
<1>1. ASSUME NEW i \in Prompt, Complete(i) \/ CompleteOnly(i) PROVE RInv'
  BY <1>1, CompleteHolds
<1>2. ASSUME NEW i \in Prompt, Embed(i) PROVE RInv'
  BY <1>2, EmbedHolds
<1>3. CASE Join
  BY <1>3, JoinHolds
<1>4. CASE Again
  BY <1>4, AgainHolds
<1>5. CASE UNCHANGED vars
  BY <1>5, StutterHolds
<1> QED
  BY <1>1, <1>2, <1>3, <1>4, <1>5 DEF Next, FutureStep

-----------------------------------------------------------------------------
(* A run: theorems *)

(* What a run and its prompts have kept is what they were answered, from the first poll
   to the end of every run of the runner. *)
THEOREM RunnerInvariance == Spec => []RInv
BY InitHolds, StepHolds, PTL DEF Spec

(* Every variable stays in its range (ProbeRunner::run asks no prompt too often). *)
THEOREM RunnerTyped == Spec => []TypeOK
<1>1. RInv => TypeOK
  BY DEF RInv
<1> QED
  BY <1>1, RunnerInvariance, PTL

(* No permit of the run's semaphore is lost or given out twice, for any number of
   prompts and permits. *)
THEOREM PermitsNeverIdle == Spec => []PermitsAreUsed
<1>1. RInv => PermitsAreUsed
  BY DEF RInv
<1> QED
  BY <1>1, RunnerInvariance, PTL

(* However the prompts of a run overlap, it is what they would have given one after the
   other. *)
THEOREM RunsAreDeterminate == Spec => []OverlapDoesNotShow
<1>1. RInv => OverlapDoesNotShow
  <2> SUFFICES ASSUME RInv, result # NoRun PROVE OverlapDoesNotShow
    BY DEF OverlapDoesNotShow
  <2> DEFINE named == {i \in Prompt : Named(replies[i]) # {}}
  <2>1. /\ result.embeddings = vectors
        /\ result.completions = [i \in Prompt |-> Representative(i)]
        /\ result.version = RunVersion
    BY DEF RInv, Joined
  <2>2. \A i \in Prompt : version[i] # Unnamed <=> Named(replies[i]) # {}
    <3> TAKE i \in Prompt
    <3>1. Named(replies[i]) # {} => First(Named(replies[i])) \in Named(replies[i])
      <4>1. Named(replies[i]) \in SUBSET Nat
        BY DEF Named, RInv, TypeOK
      <4> QED
        BY <4>1, FirstIsLeast
    <3> QED
      BY <3>1 DEF RInv, Remembers, FirstVersion, Named
  <2>3. named = {i \in Prompt : version[i] # Unnamed}
    BY <2>2
  <2>4. named # {} => First(named) \in named
    BY FirstIsLeast, named \in SUBSET Nat
  <2>5. result.version = IF named = {} THEN Unnamed
                         ELSE replies[First(named)][First(Named(replies[First(named)]))].version
    BY <2>1, <2>3, <2>4 DEF RunVersion, RInv, Remembers, FirstVersion
  <2>6. \A i \in Prompt :
          /\ result.completions[i] =
               IF Usable(replies[i]) = {} THEN Empty ELSE First(Usable(replies[i]))
          /\ result.embeddings[i] \subseteq Usable(replies[i])
    BY <2>1 DEF RInv, Remembers, Representative
  <2> QED
    BY <2>5, <2>6 DEF OverlapDoesNotShow
<1> QED
  BY <1>1, RunnerInvariance, PTL

(* A run's status says how much of it can be compared. *)
THEOREM StatusTold == Spec => []StatusIsHonest
<1>1. RInv => StatusIsHonest
  <2> SUFFICES ASSUME RInv, result # NoRun PROVE StatusIsHonest
    BY DEF StatusIsHonest
  <2> DEFINE failed == IF mode = "embeddings" THEN {i \in Prompt : result.embeddings[i] = {}}
                                             ELSE {i \in Prompt : replies[i] = <<Failed>>}
  <2>1. result.embeddings = vectors /\ Unended = {}
        /\ result.status = ClassifyStatus(Cardinality(FailedPrompts), N)
    BY DEF RInv, Joined
  <2>2. FailedPrompts = failed
    <3>1. CASE mode = "embeddings"
      BY <2>1, <3>1 DEF FailedPrompts, RInv, Remembers
    <3>2. CASE mode # "embeddings"
      <4>1. \A i \in Prompt : replies[i] \in Seq(Reply) /\ Len(replies[i]) = 1
        BY <2>1, <3>2 DEF RInv, TypeOK, Places, Draws, Unended
      <4>2. \A i \in Prompt : replies[i][1] = Failed <=> replies[i] = <<Failed>>
        BY <4>1
      <4> QED
        BY <3>2, <4>2 DEF FailedPrompts
    <3> QED
      BY <3>1, <3>2
  <2>3. failed \in SUBSET Prompt
    OBVIOUS
  <2>4. Cardinality(failed) = 0 <=> failed = {}
    BY <2>3, PromptSetsAreFinite, FS_EmptySet
  <2>5. Cardinality(failed) >= N <=> failed = Prompt
    BY <2>3, PromptSetsAreFinite, FS_Subset
  <2>6. Cardinality(failed) \in Nat
    BY <2>3, PromptSetsAreFinite
  <2> QED
    BY <2>1, <2>2, <2>4, <2>5, <2>6 DEF StatusIsHonest, ClassifyStatus
<1> QED
  BY <1>1, RunnerInvariance, PTL

-----------------------------------------------------------------------------
(* The adapters: the inductive invariant *)

HIDE RunnerAssumption DEF Prompt, Cap, AtLeastOne, AsksAgain, kept, vars

(* The provider of the run is one that build_provider returned, and the run is of the
   kind that its embedding_dim asks for. *)
Built ==
  /\ provider.api \in Api
  /\ provider.api = "anthropic" => provider.dim = 0
  /\ mode = ModeOf(provider)

IsFun(f) == f = [i \in Prompt |-> f[i]]

Asking(i) == pc[i] = "completing" /\ wire[i] # NoRequest

(* A completion in flight has a serial number and a nonce of its own. *)
AsksItsOwn ==
  \A i \in Prompt : Asking(i) =>
    /\ wire[i].serial \in 1..asked
    /\ wire[i].request.to = provider.api
    /\ provider.api \in Cloud => wire[i].request.nonce = wire[i].serial
    /\ \A a \in DOMAIN drawn : drawn[a] # wire[i].serial
    /\ \A c \in cache : c.id # wire[i].serial
    /\ \A j \in Prompt : j # i /\ Asking(j) => wire[j].serial # wire[i].serial

(* What the cache has seen are requests with nonces. *)
CacheSeen ==
  \A c \in cache : /\ c.id \in 1..asked
                   /\ c.request.to \in Cloud /\ c.request.nonce = c.id

Drawn ==
  /\ asked \in Nat
  /\ drawn \in Seq(1..asked)
  /\ DrawsAreIndependent

(* A call of embed has its texts from the answers, and its vectors from its texts. *)
Embeds ==
  \A i \in Prompt :
    /\ pc[i] \in {"waiting", "done"} => wire[i] = NoRequest
    /\ pc[i] \in {"waiting", "completing"} => DOMAIN held[i] = {}
    /\ DOMAIN held[i] \subseteq answers[i]
    /\ pc[i] = "embedding" => DOMAIN held[i] # answers[i]
    /\ pc[i] = "embedding" /\ wire[i] # NoRequest =>
         wire[i].input \subseteq answers[i] \ DOMAIN held[i]

(* What a prompt keeps are the vectors of its call, or none, and they have the width
   that the service is configured for. *)
Fit ==
  \A i \in Prompt :
    /\ vectors[i] \in {{}, DOMAIN held[i]}
    /\ provider.api = "ollama" => vectors[i] \in {{}, answers[i]}
    /\ provider.api # "ollama" /\ pc[i] = "embedding" => DOMAIN held[i] = {}
    /\ \A k \in DOMAIN held[i] :
         /\ held[i][k] # 0
         /\ provider.api \in {"openai", "azure"} => held[i][k] = provider.dim

(* The origin of a reply is known, and that of an answer is whole. *)
Origins ==
  \A i \in Prompt :
    /\ origin[i] \in Seq([id : Nat, end : {"whole", "truncated", "blocked", "nothing"}])
    /\ Len(origin[i]) = Len(replies[i])
    /\ \A k \in answers[i] : origin[i][k].end = "whole"

CInv ==
  /\ RInv /\ Built /\ AsksItsOwn /\ CacheSeen /\ Drawn /\ Embeds /\ Fit /\ Origins
  /\ IsFun(wire) /\ IsFun(held) /\ IsFun(origin)

-----------------------------------------------------------------------------
(* The adapters: what they return *)

LEMMA BuiltByFactory ==
  ASSUME NEW s \in Specs, NEW stored \in BOOLEAN, BuildProvider(s, stored) # Refused
  PROVE  /\ BuildProvider(s, stored).api \in Api
         /\ BuildProvider(s, stored).api = "anthropic" => BuildProvider(s, stored).dim = 0
<1>1. s.api \in Api
  BY ClientAssumption DEF ProviderSpec
<1>2. CASE s.api = "openai"
  BY <1>2 DEF BuildProvider, OpenAi, Api, Cloud
<1>3. CASE s.api = "anthropic"
  BY <1>3 DEF BuildProvider, Anthropic, Api, Cloud
<1>4. CASE s.api = "ollama"
  <2>1. BuildProvider(s, stored) = Ollama(s)
    BY <1>4 DEF BuildProvider, Cloud
  <2>2. Ollama(s).api = s.api
    BY <2>1 DEF Ollama
  <2> QED
    BY <1>1, <1>4, <2>1, <2>2
<1>5. CASE s.api = "azure"
  BY <1>5 DEF BuildProvider, Azure, Api, Cloud
<1> QED
  BY <1>1, <1>2, <1>3, <1>4, <1>5 DEF Api

(* Whatever a service generates, the adapter returns an error or a completion as the
   runner takes it, and a text only of what was whole. *)
LEMMA ServedWell ==
  ASSUME provider.api \in Api, NEW g \in Generated
  PROVE  /\ CompletionOf(Ok(Served(g))) \in Reply
         /\ Answered(CompletionOf(Ok(Served(g)))) => g.end = "whole"
<1> DEFINE reply == Ok(Served(g))
<1>1. /\ g.end \in {"whole", "truncated", "blocked", "nothing"}
      /\ g.text \in BOOLEAN /\ Reported(g.model) \in Version \cup {Unnamed}
      /\ reply.status = "ok" /\ reply.body = Served(g)
      /\ provider.api = "ollama" => g.end # "blocked"
  BY ClientAssumption DEF Generated, Ok, Reported, ModelField
<1>2. [text |-> g.text, version |-> Reported(g.model)] \in Reply
  BY <1>1, ClientAssumption DEF Reply
<1>3. CASE provider.api \in {"openai", "azure"}
  <2>1. reply.body = ChatResponse(g) /\ CompletionOf(reply) = OpenAiCompletion(reply)
    BY <1>1, <1>3 DEF Served, CompletionOf, AzureCompletion
  <2>2. CASE g.end = "nothing"
    BY <1>1, <2>1, <2>2 DEF ChatResponse, OpenAiCompletion, Answered, Reply
  <2>3. CASE g.end # "nothing"
    <3>1. /\ reply.body.choices =
               <<[content |-> g.text, finish_reason |-> FinishReason[g.end]]>>
          /\ reply.body.model = g.model
      BY <2>1, <2>3 DEF ChatResponse
    <3>2. /\ Head(reply.body.choices) =
               [content |-> g.text, finish_reason |-> FinishReason[g.end]]
          /\ reply.body.choices # << >>
      BY <3>1
    <3>3. CompletionOf(reply) =
            IF ~UsableFinish(FinishReason[g.end]) THEN Failed
            ELSE [text |-> g.text, version |-> Reported(g.model)]
      BY <1>1, <2>1, <3>1, <3>2 DEF OpenAiCompletion
    <3>4. UsableFinish(FinishReason[g.end]) => g.end = "whole"
      BY <1>1, <2>3 DEF UsableFinish, FinishReason
    <3> QED
      BY <1>2, <3>3, <3>4 DEF Reply, Answered
  <2> QED
    BY <2>2, <2>3
<1>4. CASE provider.api = "anthropic"
  <2>1. reply.body = MessagesResponse(g) /\ CompletionOf(reply) = AnthropicCompletion(reply)
    BY <1>1, <1>4 DEF Served, CompletionOf
  <2>2. reply.body.stop_reason = StopReason[g.end] /\ reply.body.model = g.model
    BY <2>1 DEF MessagesResponse
  <2> DEFINE texts == {k \in DOMAIN reply.body.content : reply.body.content[k].type = "text"}
  <2>3. CASE g.end \in {"truncated", "blocked"}
    BY <1>1, <2>1, <2>2, <2>3 DEF AnthropicCompletion, StopReason, Reply, Answered
  <2>4. CASE g.end = "nothing"
    <3>1. reply.body.content = <<[type |-> "thinking"]>>
      BY <2>1, <2>4 DEF MessagesResponse
    <3>2. texts = {}
      BY <3>1
    <3>3. CompletionOf(reply) = Failed
      BY <2>1, <3>2 DEF AnthropicCompletion
    <3> QED
      BY <3>3 DEF Reply, Answered
  <2>5. CASE g.end = "whole"
    <3>1. reply.body.content = <<[type |-> "thinking"], [type |-> "text", text |-> g.text]>>
      BY <2>1, <2>5 DEF MessagesResponse
    <3>2. texts = {2}
      BY <3>1
    <3>3. First({2}) = 2
      BY FirstIsLeast
    <3>4. StopReason[g.end] \notin {"refusal", "max_tokens"}
      BY <2>5 DEF StopReason
    <3>5. reply.body.content[2].text = g.text
      BY <3>1
    <3>6. CompletionOf(reply) = [text |-> g.text, version |-> Reported(g.model)]
      BY <1>1, <2>1, <2>2, <3>2, <3>3, <3>4, <3>5 DEF AnthropicCompletion
    <3> QED
      BY <1>2, <2>5, <3>6
  <2> QED
    BY <1>1, <2>3, <2>4, <2>5
<1>5. CASE provider.api = "ollama"
  <2>1. reply.body = GenerateResponse(g) /\ CompletionOf(reply) = OllamaCompletion(reply)
    BY <1>1, <1>5 DEF Served, CompletionOf
  <2>2. CASE g.end = "truncated"
    BY <1>1, <2>1, <2>2 DEF OllamaCompletion, GenerateResponse, Reply, Answered
  <2>3. CASE g.end = "nothing"
    <3>1. CompletionOf(reply) = [text |-> FALSE, version |-> Reported(g.model)]
      BY <1>1, <2>1, <2>3 DEF OllamaCompletion, GenerateResponse
    <3>2. [text |-> FALSE, version |-> Reported(g.model)] \in Reply
      BY <1>1, ClientAssumption DEF Reply
    <3>3. ~[text |-> FALSE, version |-> Reported(g.model)].text
      OBVIOUS
    <3> QED
      BY <3>1, <3>2, <3>3 DEF Answered
  <2>4. CASE g.end = "whole"
    <3>1. CompletionOf(reply) = [text |-> g.text, version |-> Reported(g.model)]
      BY <1>1, <2>1, <2>4 DEF OllamaCompletion, GenerateResponse
    <3> QED
      BY <1>2, <2>4, <3>1
  <2> QED
    BY <1>1, <1>5, <2>2, <2>3, <2>4
<1> QED
  BY <1>3, <1>4, <1>5 DEF Api

(* An error of any kind is an error of the call. *)
LEMMA TroubleFails ==
  ASSUME provider.api \in Api, NEW reply \in Trouble
  PROVE  CompletionOf(reply) = Failed
<1>1. reply.status # "ok"
  BY DEF Trouble
<1> QED
  BY <1>1 DEF CompletionOf, OpenAiCompletion, AzureCompletion, AnthropicCompletion,
              OllamaCompletion, Api

-----------------------------------------------------------------------------
(* The adapters: steps *)

(* A future that leaves lets at most one waiting prompt begin. *)
LEMMA LeaveMoves ==
  ASSUME RInv, NEW i \in Prompt, pc[i] # "waiting", Leave(i)
  PROVE  /\ pc'[i] = "done"
         /\ \A j \in Prompt \ {i} : pc'[j] = pc[j] \/ (pc[j] = "waiting" /\ pc'[j] = "completing")
<1>1. Waiting # {} => First(Waiting) \in Waiting
  BY FirstIsLeast, RunnerAssumption DEF Waiting, Prompt
<1> QED
  BY <1>1 DEF Leave, HandOver, Waiting, RInv, TypeOK

(* What complete's return does to the prompts. *)
LEMMA CompletionMoves ==
  ASSUME RInv, NEW i \in Prompt, NEW r \in Reply, CompleteWith(i, r) \/ CompleteOnlyWith(i, r)
  PROVE  /\ pc'[i] \in {"completing", "embedding", "done"}
         /\ pc'[i] = "embedding" => answers'[i] # {}
         /\ \A j \in Prompt \ {i} :
              /\ pc'[j] = pc[j] \/ (pc[j] = "waiting" /\ pc'[j] = "completing")
              /\ answers'[j] = answers[j] /\ replies'[j] = replies[j]
         /\ replies'[i] = Append(replies[i], r) /\ replies[i] \in Seq(Reply)
         /\ answers'[i] = IF Answered(r) THEN answers[i] \cup {Len(replies[i]) + 1} ELSE answers[i]
         /\ answers[i] \subseteq 1..Len(replies[i])
         /\ mode' = mode /\ vectors' = vectors /\ pc[i] = "completing" /\ vectors[i] = {}
<1>1. /\ Heard(i, r) /\ pc[i] = "completing" /\ mode' = mode /\ vectors' = vectors
      /\ vectors[i] = {}
  BY DEF CompleteWith, CompleteOnlyWith, RInv, Places
<1>2. /\ replies'[i] = Append(replies[i], r) /\ replies[i] \in Seq(Reply)
      /\ answers'[i] = IF Answered(r) THEN answers[i] \cup {Len(replies[i]) + 1} ELSE answers[i]
      /\ \A j \in Prompt \ {i} : answers'[j] = answers[j] /\ replies'[j] = replies[j]
  BY <1>1 DEF Heard, RInv, TypeOK
<1>3. answers[i] \subseteq 1..Len(replies[i])
  BY <1>2 DEF RInv, Remembers, Usable
<1>4. \/ Leave(i)
      \/ UNCHANGED pc
      \/ answers'[i] # {} /\ pc' = [pc EXCEPT ![i] = "embedding"]
  BY DEF CompleteWith, CompleteOnlyWith
<1>5. CASE Leave(i)
  BY <1>1, <1>2, <1>3, <1>5, LeaveMoves
<1>6. CASE UNCHANGED pc
  BY <1>1, <1>2, <1>3, <1>6
<1>7. CASE answers'[i] # {} /\ pc' = [pc EXCEPT ![i] = "embedding"]
  BY <1>1, <1>2, <1>3, <1>7 DEF RInv, TypeOK
<1> QED
  BY <1>4, <1>5, <1>6, <1>7

LEMMA ReturnHolds ==
  ASSUME CInv, NEW i \in Prompt, Asking(i), NEW reply,
         NEW from \in [id : Nat, end : {"whole", "truncated", "blocked", "nothing"}],
         ReturnCompletion(i, reply, from),
         CompletionOf(reply) \in Reply,
         Answered(CompletionOf(reply)) => from.end = "whole" /\ from.id = wire[i].serial,
         \A c \in cache' : \/ c \in cache
                           \/ /\ provider.api \in Cloud
                              /\ c.request = wire[i].request /\ c.id = wire[i].serial
  PROVE  Next /\ CInv'
<1> DEFINE r == CompletionOf(reply)
<1>1. Next
  BY DEF ReturnCompletion, Next, FutureStep, Complete, CompleteOnly
<1>2. RInv'
  BY <1>1, StepHolds DEF CInv
<1>3. /\ CompleteWith(i, r) \/ CompleteOnlyWith(i, r)
      /\ origin' = [origin EXCEPT ![i] = Append(@, from)]
      /\ drawn' = IF Answered(r) THEN Append(drawn, from.id) ELSE drawn
      /\ wire' = [wire EXCEPT ![i] = NoRequest]
      /\ provider' = provider /\ held' = held /\ asked' = asked
  BY DEF ReturnCompletion
<1>4. /\ pc'[i] \in {"completing", "embedding", "done"}
      /\ pc'[i] = "embedding" => answers'[i] # {}
      /\ \A j \in Prompt \ {i} :
           /\ pc'[j] = pc[j] \/ (pc[j] = "waiting" /\ pc'[j] = "completing")
           /\ answers'[j] = answers[j] /\ replies'[j] = replies[j]
      /\ replies'[i] = Append(replies[i], r) /\ replies[i] \in Seq(Reply)
      /\ answers'[i] = IF Answered(r) THEN answers[i] \cup {Len(replies[i]) + 1} ELSE answers[i]
      /\ answers[i] \subseteq 1..Len(replies[i])
      /\ mode' = mode /\ vectors' = vectors /\ pc[i] = "completing" /\ vectors[i] = {}
  BY <1>3, CompletionMoves DEF CInv
<1>5. /\ wire'[i] = NoRequest /\ origin'[i] = Append(origin[i], from)
      /\ \A j \in Prompt \ {i} : wire'[j] = wire[j] /\ origin'[j] = origin[j]
      /\ IsFun(wire)' /\ IsFun(origin)' /\ IsFun(held)'
  BY <1>3 DEF CInv, IsFun
<1>6. \A j \in Prompt : Asking(j)' => j # i /\ Asking(j) /\ wire'[j] = wire[j]
  BY <1>4, <1>5 DEF Asking, CInv, Embeds
<1>7. wire[i].serial \in 1..asked /\ asked \in Nat
  BY DEF CInv, AsksItsOwn, Drawn
<1>8. Built'
  BY <1>3, <1>4 DEF CInv, Built, ModeOf, EmbeddingDim
<1>9. Drawn'
  <2>1. CASE Answered(r)
    <3>1. drawn' = Append(drawn, wire[i].serial)
      BY <1>3, <2>1
    <3>2. \A a \in DOMAIN drawn : drawn[a] # wire[i].serial
      BY DEF CInv, AsksItsOwn
    <3>3. drawn \in Seq(1..asked) /\ \A a, b \in DOMAIN drawn : a # b => drawn[a] # drawn[b]
      BY DEF CInv, Drawn, DrawsAreIndependent
    <3>4. /\ drawn' \in Seq(1..asked) /\ DOMAIN drawn' = 1..Len(drawn) + 1
          /\ \A a \in DOMAIN drawn' :
               \/ a \in DOMAIN drawn /\ drawn'[a] = drawn[a]
               \/ a = Len(drawn) + 1 /\ drawn'[a] = wire[i].serial
      BY <1>7, <3>1, <3>3
    <3>5. \A a, b \in DOMAIN drawn' : a # b => drawn'[a] # drawn'[b]
      BY <3>2, <3>3, <3>4
    <3> QED
      BY <1>3, <1>7, <3>4, <3>5 DEF Drawn, DrawsAreIndependent
  <2>2. CASE ~Answered(r)
    BY <1>3, <2>2 DEF CInv, Drawn, DrawsAreIndependent
  <2> QED
    BY <2>1, <2>2
<1>10. CacheSeen'
  BY <1>3, <1>7 DEF CInv, CacheSeen, AsksItsOwn
<1>11. AsksItsOwn'
  <2> SUFFICES ASSUME NEW j \in Prompt, Asking(j)'
               PROVE  /\ wire'[j].serial \in 1..asked'
                      /\ wire'[j].request.to = provider'.api
                      /\ provider'.api \in Cloud => wire'[j].request.nonce = wire'[j].serial
                      /\ \A a \in DOMAIN drawn' : drawn'[a] # wire'[j].serial
                      /\ \A c \in cache' : c.id # wire'[j].serial
                      /\ \A h \in Prompt : h # j /\ Asking(h)' => wire'[h].serial # wire'[j].serial
    BY DEF AsksItsOwn
  <2>1. j # i /\ Asking(j) /\ wire'[j] = wire[j] /\ wire[j].serial # wire[i].serial
    BY <1>6 DEF CInv, AsksItsOwn
  <2>2. \A a \in DOMAIN drawn' : drawn'[a] # wire[j].serial
    BY <1>3, <1>7, <2>1 DEF CInv, AsksItsOwn, Drawn
  <2>3. \A c \in cache' : c.id # wire[j].serial
    BY <2>1 DEF CInv, AsksItsOwn
  <2>4. \A h \in Prompt : h # j /\ Asking(h)' => wire'[h].serial # wire'[j].serial
    BY <1>6, <2>1 DEF CInv, AsksItsOwn
  <2> QED
    BY <1>3, <2>1, <2>2, <2>3, <2>4 DEF CInv, AsksItsOwn
<1>12. Embeds'
  <2> SUFFICES ASSUME NEW j \in Prompt
               PROVE  /\ pc'[j] \in {"waiting", "done"} => wire'[j] = NoRequest
                      /\ pc'[j] \in {"waiting", "completing"} => DOMAIN held'[j] = {}
                      /\ DOMAIN held'[j] \subseteq answers'[j]
                      /\ pc'[j] = "embedding" => DOMAIN held'[j] # answers'[j]
                      /\ pc'[j] = "embedding" /\ wire'[j] # NoRequest =>
                           wire'[j].input \subseteq answers'[j] \ DOMAIN held'[j]
    BY DEF Embeds
  <2>1. CASE j = i
    BY <1>3, <1>4, <1>5, <2>1 DEF CInv, Embeds
  <2>2. CASE j # i
    BY <1>3, <1>4, <1>5, <2>2 DEF CInv, Embeds
  <2> QED
    BY <2>1, <2>2
<1>13. Origins'
  <2> SUFFICES ASSUME NEW j \in Prompt
               PROVE  /\ origin'[j] \in Seq([id : Nat, end : {"whole", "truncated", "blocked", "nothing"}])
                      /\ Len(origin'[j]) = Len(replies'[j])
                      /\ \A k \in answers'[j] : origin'[j][k].end = "whole"
    BY DEF Origins
  <2>1. CASE j = i
    <3>1. /\ origin[i] \in Seq([id : Nat, end : {"whole", "truncated", "blocked", "nothing"}])
          /\ Len(origin[i]) = Len(replies[i])
          /\ \A k \in answers[i] : origin[i][k].end = "whole"
      BY DEF CInv, Origins
    <3>2. /\ \A k \in 1..Len(replies[i]) : origin'[i][k] = origin[i][k]
          /\ origin'[i][Len(replies[i]) + 1] = from
      BY <1>5, <3>1
    <3>3. ASSUME NEW k \in answers'[i] PROVE origin'[i][k].end = "whole"
      <4>1. CASE k \in answers[i]
        BY <1>4, <3>1, <3>2, <4>1
      <4>2. CASE k \notin answers[i]
        BY <1>4, <3>2, <4>2
      <4> QED
        BY <4>1, <4>2
    <3>4. /\ origin'[i] \in Seq([id : Nat, end : {"whole", "truncated", "blocked", "nothing"}])
          /\ Len(origin'[i]) = Len(origin[i]) + 1
      BY <1>5, <3>1, AppendProperties
    <3>5. Len(replies'[i]) = Len(replies[i]) + 1
      BY <1>4, AppendProperties
    <3> QED
      BY <2>1, <3>1, <3>3, <3>4, <3>5
  <2>2. CASE j # i
    BY <1>4, <1>5, <2>2 DEF CInv, Origins
  <2> QED
    BY <2>1, <2>2
<1>14. Fit'
  BY <1>3, <1>4 DEF CInv, Fit, Embeds
<1> QED
  BY <1>1, <1>2, <1>5, <1>8, <1>9, <1>10, <1>11, <1>12, <1>13, <1>14 DEF CInv

LEMMA AskCompletionHolds ==
  ASSUME CInv, NEW i \in Prompt, AskCompletion(i)
  PROVE  UNCHANGED vars /\ CInv'
<1> DEFINE new == [request |-> ChatRequest(i), serial |-> asked + 1]
<1>1. /\ UNCHANGED vars /\ pc[i] = "completing" /\ wire[i] = NoRequest
      /\ asked' = asked + 1 /\ wire' = [wire EXCEPT ![i] = new]
      /\ provider' = provider /\ held' = held /\ origin' = origin /\ drawn' = drawn
      /\ cache' = cache
  BY DEF AskCompletion
<1>2. /\ pc' = pc /\ mode' = mode /\ answers' = answers /\ replies' = replies
      /\ vectors' = vectors
  BY <1>1 DEF vars, kept
<1>3. RInv'
  BY <1>1, StutterHolds DEF CInv
<1>4. wire'[i] = new /\ \A j \in Prompt \ {i} : wire'[j] = wire[j]
  BY <1>1 DEF CInv, IsFun
<1>5. IsFun(wire)' /\ IsFun(held)' /\ IsFun(origin)'
  BY <1>1 DEF CInv, IsFun
<1>6. asked \in Nat /\ drawn \in Seq(1..asked) /\ provider.api \in Api
  BY DEF CInv, Drawn, Built
<1>7. Drawn'
  <2>1. drawn' \in Seq(1..asked')
    BY <1>1, <1>6
  <2> QED
    BY <1>1, <1>6, <2>1 DEF CInv, Drawn, DrawsAreIndependent
<1>8. Built'
  BY <1>1, <1>2 DEF CInv, Built, ModeOf, EmbeddingDim
<1>9. CacheSeen'
  BY <1>1, <1>6 DEF CInv, CacheSeen
<1>10. /\ new.request.to = provider.api
       /\ provider.api \in Cloud => new.request.nonce = new.serial
  BY <1>6 DEF ChatRequest, OpenAiChat, AzureChat, AnthropicMessage, OllamaGenerate, Nonce,
              Api, Cloud
<1>11. AsksItsOwn'
  <2>1. /\ \A a \in DOMAIN drawn : drawn[a] # asked + 1
        /\ \A c \in cache : c.id # asked + 1
        /\ \A j \in Prompt : Asking(j) => wire[j].serial # asked + 1
    BY <1>6 DEF CInv, CacheSeen, AsksItsOwn
  <2>2. \A j \in Prompt : Asking(j)' => j = i \/ Asking(j)
    BY <1>2, <1>4 DEF Asking
  <2> SUFFICES ASSUME NEW j \in Prompt, Asking(j)'
               PROVE  /\ wire'[j].serial \in 1..asked'
                      /\ wire'[j].request.to = provider'.api
                      /\ provider'.api \in Cloud => wire'[j].request.nonce = wire'[j].serial
                      /\ \A a \in DOMAIN drawn' : drawn'[a] # wire'[j].serial
                      /\ \A c \in cache' : c.id # wire'[j].serial
                      /\ \A h \in Prompt : h # j /\ Asking(h)' => wire'[h].serial # wire'[j].serial
    BY DEF AsksItsOwn
  <2>3. CASE j = i
    <3>1. wire'[i].serial = asked + 1
      BY <1>4
    <3>2. \A h \in Prompt : h # i /\ Asking(h)' => wire'[h].serial # asked + 1
      BY <1>4, <2>1, <2>2
    <3> QED
      BY <1>1, <1>4, <1>6, <1>10, <2>1, <2>3, <3>1, <3>2
  <2>4. CASE j # i
    <3>1. Asking(j) /\ wire'[j] = wire[j]
      BY <1>4, <2>2, <2>4
    <3>2. \A h \in Prompt : h # j /\ Asking(h)' => wire'[h].serial # wire'[j].serial
      <4> SUFFICES ASSUME NEW h \in Prompt, h # j, Asking(h)'
                   PROVE  wire'[h].serial # wire'[j].serial
        OBVIOUS
      <4>1. CASE h = i
        BY <1>4, <2>1, <3>1, <4>1
      <4>2. CASE h # i
        BY <1>4, <2>2, <3>1, <4>2 DEF CInv, AsksItsOwn
      <4> QED
        BY <4>1, <4>2
    <3>3. wire[j].serial \in 1..asked'
      BY <1>1, <1>6, <3>1 DEF CInv, AsksItsOwn
    <3> QED
      BY <1>1, <3>1, <3>2, <3>3 DEF CInv, AsksItsOwn
  <2> QED
    BY <2>3, <2>4
<1>12. Embeds'
  BY <1>1, <1>2, <1>4 DEF CInv, Embeds
<1>13. Origins'
  BY <1>1, <1>2 DEF CInv, Origins
<1>14. Fit'
  BY <1>1, <1>2 DEF CInv, Fit
<1> QED
  BY <1>1, <1>3, <1>5, <1>7, <1>8, <1>9, <1>11, <1>12, <1>13, <1>14 DEF CInv

LEMMA HearServiceHolds ==
  ASSUME CInv, NEW i \in Prompt, HearService(i)
  PROVE  Next /\ CInv'
<1>1. PICK g \in Generated, id \in {wire[i].serial} \cup Remembered(wire[i].request) :
        ReturnCompletion(i, Ok(Served(g)), [id |-> id, end |-> g.end])
  BY DEF HearService
<1>2. Asking(i) /\ provider.api \in Api
  BY DEF HearService, Asking, CInv, Built
<1>3. Remembered(wire[i].request) = {}
  <2> SUFFICES ASSUME NEW c \in cache, c.request = wire[i].request PROVE FALSE
    BY DEF Remembered
  <2>1. provider.api \in Cloud /\ c.id = wire[i].serial
    BY <1>2 DEF CInv, CacheSeen, AsksItsOwn
  <2> QED
    BY <1>2, <2>1 DEF CInv, AsksItsOwn
<1>4. id = wire[i].serial /\ wire[i].serial \in Nat
  BY <1>1, <1>2, <1>3 DEF CInv, AsksItsOwn, Drawn
<1>5. g.end \in {"whole", "truncated", "blocked", "nothing"}
  BY ClientAssumption DEF Generated
<1>6. \A c \in cache' : \/ c \in cache
                        \/ /\ provider.api \in Cloud
                           /\ c.request = wire[i].request /\ c.id = wire[i].serial
  BY DEF HearService
<1> QED
  BY <1>1, <1>2, <1>4, <1>5, <1>6, ServedWell, ReturnHolds

LEMMA HearNothingHolds ==
  ASSUME CInv, NEW i \in Prompt, HearNothing(i)
  PROVE  Next /\ CInv'
<1>1. PICK reply \in Trouble : ReturnCompletion(i, reply, [id |-> 0, end |-> "nothing"])
  BY DEF HearNothing
<1>2. Asking(i) /\ provider.api \in Api /\ cache' = cache
  BY DEF HearNothing, Asking, CInv, Built
<1>3. CompletionOf(reply) = Failed
  BY <1>2, TroubleFails
<1> QED
  BY <1>1, <1>2, <1>3, ReturnHolds DEF Reply, Answered

(* A return of embed, if the vectors it keeps are all of its texts' and of the width. *)
LEMMA EmbedReturns ==
  ASSUME CInv, NEW i \in Prompt, NEW S \in SUBSET answers[i], EmbedWith(i, S),
         IsFun(wire)', wire'[i] = NoRequest, \A j \in Prompt \ {i} : wire'[j] = wire[j],
         IsFun(held)', DOMAIN held'[i] \subseteq answers[i],
         \A j \in Prompt \ {i} : held'[j] = held[j],
         S \in {{}, DOMAIN held'[i]}, provider.api = "ollama" => S \in {{}, answers[i]},
         \A k \in DOMAIN held'[i] :
           /\ held'[i][k] # 0
           /\ provider.api \in {"openai", "azure"} => held'[i][k] = provider.dim,
         UNCHANGED <<provider, origin, drawn, cache, asked>>
  PROVE  Next /\ CInv'
<1>1. Next
  BY DEF Next, FutureStep, Embed
<1>2. RInv'
  BY <1>1, StepHolds DEF CInv
<1>3. /\ pc[i] = "embedding" /\ Leave(i) /\ mode' = mode /\ replies' = replies
      /\ answers' = answers /\ vectors' = [vectors EXCEPT ![i] = S]
  BY DEF EmbedWith
<1>4. /\ pc'[i] = "done"
      /\ \A j \in Prompt \ {i} : pc'[j] = pc[j] \/ (pc[j] = "waiting" /\ pc'[j] = "completing")
      /\ vectors'[i] = S /\ \A j \in Prompt \ {i} : vectors'[j] = vectors[j]
  BY <1>3, LeaveMoves DEF CInv, RInv, TypeOK
<1>5. \A j \in Prompt : Asking(j)' => j # i /\ Asking(j) /\ wire'[j] = wire[j]
  BY <1>4 DEF Asking, CInv, Embeds
<1>6. AsksItsOwn'
  BY <1>5 DEF CInv, AsksItsOwn
<1>7. Built' /\ CacheSeen' /\ Drawn' /\ Origins' /\ IsFun(origin)'
  BY <1>3 DEF CInv, Built, ModeOf, EmbeddingDim, CacheSeen, Drawn, DrawsAreIndependent,
              Origins, IsFun
<1>8. Embeds'
  BY <1>3, <1>4 DEF CInv, Embeds
<1>9. Fit'
  <2> SUFFICES ASSUME NEW j \in Prompt
               PROVE  /\ vectors'[j] \in {{}, DOMAIN held'[j]}
                      /\ provider'.api = "ollama" => vectors'[j] \in {{}, answers'[j]}
                      /\ provider'.api # "ollama" /\ pc'[j] = "embedding" => DOMAIN held'[j] = {}
                      /\ \A k \in DOMAIN held'[j] :
                           /\ held'[j][k] # 0
                           /\ provider'.api \in {"openai", "azure"} => held'[j][k] = provider'.dim
    BY DEF Fit
  <2>1. CASE j = i
    BY <1>3, <1>4, <2>1
  <2>2. CASE j # i
    BY <1>3, <1>4, <2>2 DEF CInv, Fit
  <2> QED
    BY <2>1, <2>2
<1> QED
  BY <1>1, <1>2, <1>6, <1>7, <1>8, <1>9 DEF CInv

LEMMA AskEmbeddingsHolds ==
  ASSUME CInv, NEW i \in Prompt, AskEmbeddings(i)
  PROVE  [Next]_vars /\ CInv'
<1>1. /\ pc[i] = "embedding" /\ wire[i] = NoRequest
      /\ UNCHANGED <<provider, held, origin, drawn, cache, asked>>
      /\ IsFun(held)' /\ IsFun(origin)'
  BY DEF AskEmbeddings, CInv, IsFun
<1>2. CASE CanEmbed(provider)
  <2>1. UNCHANGED vars /\ wire' = [wire EXCEPT ![i] = [input |-> Input(i)]]
    BY <1>2 DEF AskEmbeddings
  <2>2. /\ pc' = pc /\ mode' = mode /\ answers' = answers /\ replies' = replies
        /\ vectors' = vectors
    BY <2>1 DEF vars, kept
  <2>3. /\ wire'[i] = [input |-> Input(i)] /\ IsFun(wire)'
        /\ \A j \in Prompt \ {i} : wire'[j] = wire[j]
    BY <2>1 DEF CInv, IsFun
  <2>4. /\ answers[i] \subseteq Nat /\ DOMAIN held[i] \subseteq answers[i]
        /\ DOMAIN held[i] # answers[i]
    <3>1. answers[i] \subseteq Nat
      BY DEF CInv, RInv, Remembers, Usable, TypeOK
    <3> QED
      BY <1>1, <3>1 DEF CInv, Embeds
  <2>5. Input(i) \subseteq answers[i] \ DOMAIN held[i]
    <3>1. CASE provider.api = "ollama"
      <4>1. First(answers[i] \ DOMAIN held[i]) \in answers[i] \ DOMAIN held[i]
        BY <2>4, FirstIsLeast
      <4> QED
        BY <3>1, <4>1 DEF Input
    <3>2. CASE provider.api # "ollama"
      <4>1. DOMAIN held[i] = {}
        BY <1>1, <3>2 DEF CInv, Fit
      <4> QED
        BY <3>2, <4>1 DEF Input
    <3> QED
      BY <3>1, <3>2
  <2>6. RInv'
    BY <2>1, StutterHolds DEF CInv
  <2>7. AsksItsOwn'
    BY <1>1, <2>2, <2>3 DEF CInv, AsksItsOwn, Asking
  <2>8. Built' /\ CacheSeen' /\ Drawn' /\ Origins' /\ Fit'
    BY <1>1, <2>2 DEF CInv, Built, ModeOf, EmbeddingDim, CacheSeen, Drawn,
                      DrawsAreIndependent, Origins, Fit
  <2>9. Embeds'
    BY <1>1, <2>2, <2>3, <2>5 DEF CInv, Embeds
  <2> QED
    BY <1>1, <2>1, <2>3, <2>6, <2>7, <2>8, <2>9 DEF CInv
<1>3. CASE ~CanEmbed(provider)
  <2>1. EmbedWith(i, {}) /\ UNCHANGED wire
    BY <1>3 DEF AskEmbeddings
  <2>2. /\ DOMAIN held'[i] \subseteq answers[i]
        /\ \A k \in DOMAIN held'[i] :
             /\ held'[i][k] # 0
             /\ provider.api \in {"openai", "azure"} => held'[i][k] = provider.dim
    BY <1>1 DEF CInv, Embeds, Fit
  <2> QED
    BY <1>1, <2>1, <2>2, EmbedReturns DEF CInv, IsFun
<1> QED
  BY <1>2, <1>3

LEMMA HearBatchHolds ==
  ASSUME CInv, NEW i \in Prompt, HearBatch(i)
  PROVE  Next /\ CInv'
<1>1. /\ pc[i] = "embedding" /\ wire[i] # NoRequest /\ provider.api \in {"openai", "azure"}
      /\ wire' = [wire EXCEPT ![i] = NoRequest]
      /\ UNCHANGED <<provider, origin, drawn, cache, asked>>
  BY DEF HearBatch
<1>2. PICK reply \in EmbeddingReply(wire[i].input) :
        /\ held' = [held EXCEPT ![i] = OpenAiEmbedded(reply)]
        /\ EmbedWith(i, DOMAIN OpenAiEmbedded(reply))
  BY DEF HearBatch, AzureEmbedded
<1> DEFINE fitting == OpenAiEmbedded(reply)
<1>3. /\ IsFun(wire)' /\ wire'[i] = NoRequest /\ \A j \in Prompt \ {i} : wire'[j] = wire[j]
      /\ IsFun(held)' /\ held'[i] = fitting /\ \A j \in Prompt \ {i} : held'[j] = held[j]
  BY <1>1, <1>2 DEF CInv, IsFun
<1>4. wire[i].input \subseteq answers[i]
  BY <1>1 DEF CInv, Embeds
<1>5. /\ DOMAIN fitting \subseteq answers[i]
      /\ \A k \in DOMAIN fitting : fitting[k] # 0 /\ fitting[k] = provider.dim
  <2>1. CASE fitting = NoVectors
    BY <2>1 DEF NoVectors
  <2>2. CASE fitting # NoVectors
    <3>1. /\ reply.status = "ok"
          /\ \A k \in DOMAIN reply.body :
               reply.body[k].width = provider.dim /\ IsEmbedding(reply.body[k])
          /\ fitting = [k \in DOMAIN reply.body |-> reply.body[k].width]
      BY <2>2 DEF OpenAiEmbedded
    <3>2. PICK got \in SUBSET wire[i].input : reply.body \in [got -> Vector]
      BY <3>1 DEF EmbeddingReply, Trouble, Ok
    <3> QED
      BY <1>4, <3>1, <3>2 DEF IsEmbedding
  <2> QED
    BY <2>1, <2>2
<1> QED
  BY <1>1, <1>2, <1>3, <1>5, EmbedReturns

LEMMA HearOneHolds ==
  ASSUME CInv, NEW i \in Prompt, HearOne(i)
  PROVE  [Next]_vars /\ CInv'
<1>1. /\ pc[i] = "embedding" /\ wire[i] # NoRequest /\ provider.api = "ollama"
      /\ wire' = [wire EXCEPT ![i] = NoRequest]
      /\ UNCHANGED <<provider, origin, drawn, cache, asked>>
  BY DEF HearOne
<1>2. PICK k \in wire[i].input :
        \E reply \in Trouble \cup {Ok(body) : body \in [{k} -> Vector]} :
          LET results == OllamaEmbedded(i, k, reply)
          IN /\ held' = [held EXCEPT ![i] = results]
             /\ IF DOMAIN results \in {{}, answers[i]} THEN EmbedWith(i, DOMAIN results)
                                                       ELSE UNCHANGED vars
  BY DEF HearOne
<1>2a. PICK reply \in Trouble \cup {Ok(body) : body \in [{k} -> Vector]} :
        /\ held' = [held EXCEPT ![i] = OllamaEmbedded(i, k, reply)]
        /\ IF DOMAIN OllamaEmbedded(i, k, reply) \in {{}, answers[i]}
             THEN EmbedWith(i, DOMAIN OllamaEmbedded(i, k, reply)) ELSE UNCHANGED vars
  BY <1>2
<1> DEFINE results == OllamaEmbedded(i, k, reply)
<1>3. /\ IsFun(wire)' /\ wire'[i] = NoRequest /\ \A j \in Prompt \ {i} : wire'[j] = wire[j]
      /\ IsFun(held)' /\ held'[i] = results /\ \A j \in Prompt \ {i} : held'[j] = held[j]
  BY <1>1, <1>2a DEF CInv, IsFun
<1>4. /\ k \in answers[i] /\ DOMAIN held[i] \subseteq answers[i]
      /\ \A t \in DOMAIN held[i] : held[i][t] # 0
  BY <1>1 DEF CInv, Embeds, Fit
<1>5. DOMAIN results \subseteq answers[i] /\ \A t \in DOMAIN results : results[t] # 0
  <2>1. CASE results = NoVectors
    BY <2>1 DEF NoVectors
  <2>2. CASE results # NoVectors
    <3>1. /\ IsEmbedding(reply.body[k])
          /\ results = [t \in DOMAIN held[i] \cup {k} |->
                         IF t = k THEN reply.body[k].width ELSE held[i][t]]
      BY <2>2 DEF OllamaEmbedded
    <3> QED
      BY <1>4, <3>1 DEF IsEmbedding
  <2> QED
    BY <2>1, <2>2
<1>6. CASE DOMAIN results \in {{}, answers[i]}
  BY <1>1, <1>2a, <1>3, <1>5, <1>6, EmbedReturns
<1>7. CASE DOMAIN results \notin {{}, answers[i]}
  <2>1. UNCHANGED vars
    BY <1>2a, <1>7
  <2>2. /\ pc' = pc /\ mode' = mode /\ answers' = answers /\ replies' = replies
        /\ vectors' = vectors
    BY <2>1 DEF vars, kept
  <2>3. RInv'
    BY <2>1, StutterHolds DEF CInv
  <2>4. AsksItsOwn'
    BY <1>1, <1>3, <2>2 DEF CInv, AsksItsOwn, Asking
  <2>5. Built' /\ CacheSeen' /\ Drawn' /\ Origins' /\ IsFun(origin)'
    BY <1>1, <2>2 DEF CInv, Built, ModeOf, EmbeddingDim, CacheSeen, Drawn,
                      DrawsAreIndependent, Origins, IsFun
  <2>6. Embeds'
    BY <1>1, <1>3, <1>5, <1>7, <2>2 DEF CInv, Embeds
  <2>7. vectors[i] = {}
    BY <1>1 DEF CInv, RInv, Places
  <2>8. Fit'
    BY <1>1, <1>3, <1>5, <2>2, <2>7 DEF CInv, Fit
  <2> QED
    BY <1>3, <2>1, <2>3, <2>4, <2>5, <2>6, <2>8 DEF CInv
<1> QED
  BY <1>6, <1>7

LEMMA JoinRunHolds == CInv /\ JoinRun => Next /\ CInv'
<1> SUFFICES ASSUME CInv, JoinRun PROVE Next /\ CInv'
  OBVIOUS
<1>1. Next /\ UNCHANGED clientVars /\ UNCHANGED <<mode, pc, replies, answers, vectors>>
  BY DEF JoinRun, Join, Next, kept
<1>2. RInv'
  BY <1>1, StepHolds DEF CInv
<1> QED
  BY <1>1, <1>2 DEF CInv, Built, ModeOf, EmbeddingDim, AsksItsOwn, Asking, CacheSeen, Drawn,
                    DrawsAreIndependent, Embeds, Fit, Origins, IsFun, clientVars

LEMMA NextRunHolds == CInv /\ NextRun => Next /\ CInv'
<1> SUFFICES ASSUME CInv, NextRun PROVE Next /\ CInv'
  OBVIOUS
<1>1. PICK s \in Specs, stored \in BOOLEAN : provider' = BuildProvider(s, stored)
  BY DEF NextRun
<1>2. /\ AgainWith(ModeOf(provider')) /\ provider' # Refused
      /\ held' = NoneOf(NoVectors) /\ origin' = NoneOf(<< >>)
      /\ UNCHANGED <<wire, drawn, cache, asked>>
  BY DEF NextRun
<1>3. /\ result # NoRun /\ mode' = ModeOf(provider') /\ pc' = Polled
      /\ replies' = [i \in Prompt |-> << >>] /\ answers' = Nothing /\ vectors' = Nothing
  BY <1>2 DEF AgainWith
<1>4. Next
  BY <1>2 DEF Next, Again, ModeOf
<1>5. RInv'
  BY <1>4, StepHolds DEF CInv
<1>6. Built'
  BY <1>1, <1>2, <1>3, BuiltByFactory DEF Built, ModeOf, EmbeddingDim
<1>7. \A i \in Prompt : wire[i] = NoRequest
  BY <1>3 DEF CInv, RInv, Joined, Unended, Embeds
<1>8. AsksItsOwn' /\ CacheSeen' /\ Drawn'
  BY <1>2, <1>7 DEF CInv, AsksItsOwn, Asking, CacheSeen, Drawn, DrawsAreIndependent
<1>9. /\ \A i \in Prompt : held'[i] = NoVectors /\ DOMAIN held'[i] = {} /\ origin'[i] = << >>
      /\ IsFun(held)' /\ IsFun(origin)' /\ IsFun(wire)'
  BY <1>2 DEF NoneOf, NoVectors, IsFun, CInv
<1>10. Embeds'
  BY <1>2, <1>3, <1>7, <1>9 DEF Embeds, Polled, Nothing
<1>11. Fit'
  BY <1>3, <1>9 DEF Fit, Nothing, Polled
<1>12. Origins'
  <2>1. \A i \in Prompt : origin'[i] = << >> /\ replies'[i] = << >> /\ answers'[i] = {}
    BY <1>3, <1>9 DEF Nothing
  <2> QED
    BY <2>1, EmptySeq DEF Origins
<1> QED
  BY <1>4, <1>5, <1>6, <1>8, <1>9, <1>10, <1>11, <1>12 DEF CInv

LEMMA ClientInitHolds == ClientInit => Init /\ CInv
<1> SUFFICES ASSUME ClientInit PROVE Init /\ CInv
  OBVIOUS
<1>1. PICK s \in Specs, stored \in BOOLEAN : provider = BuildProvider(s, stored)
  BY DEF ClientInit
<1>2. /\ Init /\ provider # Refused /\ mode = ModeOf(provider)
      /\ drawn = << >> /\ cache = {} /\ asked = 0
      /\ wire = NoneOf(NoRequest) /\ held = NoneOf(NoVectors) /\ origin = NoneOf(<< >>)
  BY DEF ClientInit
<1>3. RInv
  BY <1>2, InitHolds
<1>4. Built
  BY <1>1, <1>2, BuiltByFactory DEF Built
<1>5. /\ pc = Polled /\ answers = Nothing /\ vectors = Nothing
      /\ replies = [i \in Prompt |-> << >>]
  BY <1>2 DEF Init
<1>6. /\ \A i \in Prompt : wire[i] = NoRequest /\ held[i] = NoVectors
                           /\ DOMAIN held[i] = {} /\ origin[i] = << >>
      /\ IsFun(held) /\ IsFun(origin) /\ IsFun(wire)
  BY <1>2 DEF NoneOf, NoVectors, IsFun
<1>7. AsksItsOwn /\ CacheSeen /\ Drawn
  BY <1>2, <1>6 DEF AsksItsOwn, Asking, CacheSeen, Drawn, DrawsAreIndependent
<1>8. Embeds /\ Fit
  BY <1>5, <1>6 DEF Embeds, Fit, Polled, Nothing
<1>9. Origins
  <2>1. \A i \in Prompt : origin[i] = << >> /\ replies[i] = << >> /\ answers[i] = {}
    BY <1>5, <1>6 DEF Nothing
  <2> QED
    BY <2>1, EmptySeq DEF Origins
<1> QED
  BY <1>2, <1>3, <1>4, <1>6, <1>7, <1>8, <1>9 DEF CInv

-----------------------------------------------------------------------------
(* The adapters: theorems *)

(* A step of the adapters is a step of the runner's provider or none, and keeps the
   invariant. *)
LEMMA ClientStep == CInv /\ [ClientNext]_<<vars, clientVars>> => [Next]_vars /\ CInv'
<1> SUFFICES ASSUME CInv, [ClientNext]_<<vars, clientVars>> PROVE [Next]_vars /\ CInv'
  OBVIOUS
<1>1. ASSUME NEW i \in Prompt, AskCompletion(i) PROVE [Next]_vars /\ CInv'
  BY <1>1, AskCompletionHolds
<1>2. ASSUME NEW i \in Prompt, AskEmbeddings(i) PROVE [Next]_vars /\ CInv'
  BY <1>2, AskEmbeddingsHolds
<1>3. ASSUME NEW i \in Prompt, Receive(i) PROVE [Next]_vars /\ CInv'
  BY <1>3, HearServiceHolds, HearNothingHolds, HearBatchHolds, HearOneHolds DEF Receive
<1>4. CASE JoinRun
  BY <1>4, JoinRunHolds
<1>5. CASE NextRun
  BY <1>5, NextRunHolds
<1>6. CASE UNCHANGED <<vars, clientVars>>
  <2>1. RInv'
    BY <1>6, StutterHolds DEF CInv
  <2>2. UNCHANGED vars
    BY <1>6
  <2> QED
    BY <1>6, <2>1, <2>2 DEF CInv, Built, ModeOf, EmbeddingDim, AsksItsOwn, Asking, CacheSeen,
                    Drawn, DrawsAreIndependent, Embeds, Fit, Origins, IsFun, clientVars, vars, kept
<1> QED
  BY <1>1, <1>2, <1>3, <1>4, <1>5, <1>6 DEF ClientNext

(* Requests, histories, draws and the cache agree at all times. *)
THEOREM ClientInvariance == ClientSpec => []CInv
BY ClientInitHolds, ClientStep, PTL DEF ClientSpec

(* Whatever the services reply, the adapters are a provider as the runner takes it. *)
THEOREM AdaptersImplementProvider == ClientSpec => Spec
<1>1. ClientInit => Init
  BY ClientInitHolds
<1>2. CInv /\ [ClientNext]_<<vars, clientVars>> => [Next]_vars
  BY ClientStep
<1> QED
  BY <1>1, <1>2, ClientInvariance, PTL DEF ClientSpec, Spec

(* So all that is proved of the runner holds of runs against the real services. *)
THEOREM ClientRunsAreDeterminate == ClientSpec => []OverlapDoesNotShow
BY AdaptersImplementProvider, RunsAreDeterminate

(* No text that was cut off, refused or filtered is an answer, by any service. *)
THEOREM AnswersAreWhole == ClientSpec => []OnlyWholeAnswers
<1>1. CInv => OnlyWholeAnswers
  BY DEF CInv, Origins, OnlyWholeAnswers
<1> QED
  BY <1>1, ClientInvariance, PTL

(* No cache on the way answers one completion with another. *)
THEOREM NoCachedDraws == ClientSpec => []DrawsAreIndependent
<1>1. CInv => DrawsAreIndependent
  BY DEF CInv, Drawn
<1> QED
  BY <1>1, ClientInvariance, PTL

(* The vectors that are kept are of a width, and all of them or none. *)
THEOREM VectorsFit == ClientSpec => []EmbeddingsFit
<1>1. CInv => EmbeddingsFit
  <2> SUFFICES ASSUME CInv PROVE EmbeddingsFit
    OBVIOUS
  <2>1. EmbeddingIsPossible
    <3> SUFFICES ASSUME NEW i \in Prompt, pc[i] = "embedding" PROVE CanEmbed(provider)
      BY DEF EmbeddingIsPossible
    <3>1. EmbeddingDim(provider) > 0
      BY DEF CInv, RInv, Places, Built, ModeOf
    <3>2. provider.api = "anthropic" => EmbeddingDim(provider) = 0
      BY DEF EmbeddingDim, CInv, Built
    <3> QED
      BY <3>1, <3>2 DEF EmbeddingDim, CanEmbed
  <2>2. WidthIsConfigured
    BY DEF CInv, Fit, WidthIsConfigured
  <2>3. AllOrNone
    BY DEF CInv, Fit, AllOrNone
  <2> QED
    BY <2>1, <2>2, <2>3 DEF EmbeddingsFit, CInv, Fit
<1> QED
  BY <1>1, ClientInvariance, PTL
=============================================================================
