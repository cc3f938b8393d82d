---------------------------- MODULE PlatformProofs ----------------------------
(***************************************************************************)
(* Proofs about parts of a platform that share no state.  About            *)
(* HelmReleases, for any releases and dependencies: type correctness, and  *)
(* that no release is deleted while one that stays depends on it.  About   *)
(* SyncWaves, for any services: type correctness, and that every service   *)
(* that depends on no cycle has the wave it is promised.  About            *)
(* SearchIndexing, for any resources and bounds: type correctness, and     *)
(* that a resource that is gone is not found any more.  About              *)
(* SearchPaging, for any documents and bounds: type correctness, that a    *)
(* walk returns every document once, and that the pages and the values     *)
(* are those of the index.  About Bootstrap: type correctness, and what    *)
(* is there when the mesh becomes ready.  About ClusterCache, for any      *)
(* clusters: type correctness, that a resolver that is not cancelled is    *)
(* registered, and that a batch sees one StoreID.                          *)
(***************************************************************************)
EXTENDS HelmReleases, SyncWaves, SearchIndexing, SearchPaging, Bootstrap, ClusterCache,
        FiniteSetTheorems, TLAPS

-----------------------------------------------------------------------------
(* Finite sets.                                                            *)

(* A strict order on a finite set that is not empty has a minimal element: *)
(* the one with the least set of smaller ones.                             *)
LEMMA FiniteHasMinimal ==
  ASSUME NEW S, IsFiniteSet(S), S # {}, NEW R,
         \A x \in S : <<x, x>> \notin R,
         \A x, y, z \in S : <<x, y>> \in R /\ <<y, z>> \in R => <<x, z>> \in R
  PROVE  \E x \in S : \A y \in S : <<y, x>> \notin R
<1> DEFINE Smaller(x) == {y \in S : <<y, x>> \in R}
           Families == {Smaller(x) : x \in S}
<1>1. Families \subseteq FiniteSubsetsOf(S) /\ Families # {}
  <2>1. \A x \in S : Smaller(x) \in SUBSET S
    OBVIOUS
  <2>2. FiniteSubsetsOf(S) = SUBSET S
    BY FS_FiniteSubsetsOfFinite
  <2> HIDE DEF Smaller
  <2>3. \A F \in Families : F \in SUBSET S
    BY <2>1
  <2>4. Families # {}
    OBVIOUS
  <2> QED  BY <2>2, <2>3, <2>4
<1>2. IsWellFoundedOn(StrictSubsetOrdering(S), FiniteSubsetsOf(S))
  BY FS_StrictSubsetOrderingWellFounded
<1>3. PICK F \in Families : \A G \in Families : <<G, F>> \notin StrictSubsetOrdering(S)
  <2> HIDE DEF Families
  <2> QED  BY <1>1, <1>2, WFMin
<1>4. PICK x \in S : F = Smaller(x)
  OBVIOUS
<1>5. ASSUME NEW y \in S, <<y, x>> \in R
      PROVE  FALSE
  <2>1. Smaller(y) \subseteq Smaller(x) /\ y \in Smaller(x) /\ y \notin Smaller(y)
    BY <1>5
  <2>2. <<Smaller(y), Smaller(x)>> \in StrictSubsetOrdering(S)
    BY <2>1 DEF StrictSubsetOrdering
  <2> QED  BY <2>2, <1>3, <1>4
<1> QED  BY <1>5

LEMMA MaxIsGreatest ==
  ASSUME NEW S, S \subseteq Int, IsFiniteSet(S), S # {}
  PROVE  Max(S) \in S /\ \A y \in S : y <= Max(S)
<1> DEFINE R == {p \in Int \X Int : p[1] > p[2]}
<1>1. \A x, y \in Int : <<x, y>> \in R <=> x > y
  OBVIOUS
<1>2. \A x \in S : x \in Int
  OBVIOUS
<1> HIDE DEF R
<1>3. /\ \A x \in S : <<x, x>> \notin R
      /\ \A x, y, z \in S : <<x, y>> \in R /\ <<y, z>> \in R => <<x, z>> \in R
  BY <1>1, <1>2
<1>4. PICK x \in S : \A y \in S : <<y, x>> \notin R
  BY <1>3, FiniteHasMinimal
<1>5. \A y \in S : x >= y
  <2> SUFFICES ASSUME NEW y \in S PROVE x >= y
    OBVIOUS
  <2>1. x \in Int /\ y \in Int
    BY <1>2
  <2>2. ~(y > x)
    BY <2>1, <1>1, <1>4
  <2> QED  BY <2>1, <2>2
<1>6. Max(S) \in S /\ \A y \in S : Max(S) >= y
  BY <1>5 DEF Max
<1> QED  BY <1>2, <1>6

LEMMA LeastExists ==
  ASSUME NEW S, S \subseteq Int, IsFiniteSet(S), S # {}
  PROVE  \E x \in S : \A y \in S : x <= y
<1> DEFINE R == {p \in Int \X Int : p[1] < p[2]}
<1>1. \A x, y \in Int : <<x, y>> \in R <=> x < y
  OBVIOUS
<1>2. \A x \in S : x \in Int
  OBVIOUS
<1> HIDE DEF R
<1>3. /\ \A x \in S : <<x, x>> \notin R
      /\ \A x, y, z \in S : <<x, y>> \in R /\ <<y, z>> \in R => <<x, z>> \in R
  BY <1>1, <1>2
<1>4. PICK x \in S : \A y \in S : <<y, x>> \notin R
  BY <1>3, FiniteHasMinimal
<1>5. \A y \in S : x <= y
  <2> SUFFICES ASSUME NEW y \in S PROVE x <= y
    OBVIOUS
  <2>1. x \in Int /\ y \in Int
    BY <1>2
  <2>2. ~(y < x)
    BY <2>1, <1>1, <1>4
  <2> QED  BY <2>1, <2>2
<1> QED  BY <1>5


-----------------------------------------------------------------------------
(* HelmReleases.                                                           *)

LEMMA RenderedType ==
  ASSUME ReleasesTypeOK, NEW rs
  PROVE  Rendered(rs) \in [HelmRelease -> {"absent", "waiting", "ready", "terminating"}]
BY DEF Rendered, ReleasesTypeOK

(* Applying a release does not make it absent or terminating.              *)
LEMMA RenderedKeeps ==
  ASSUME ReleasesTypeOK, NEW rs, NEW r \in HelmRelease
  PROVE  /\ Rendered(rs)[r] = "absent" => state[r] = "absent"
         /\ Rendered(rs)[r] = "terminating" <=> state[r] = "terminating"
         /\ r \in rs => Rendered(rs)[r] # "absent"
BY DEF Rendered, Exists, ReleasesTypeOK

LEMMA ReleasesTypeInit == ReleasesInit => ReleasesTypeOK
BY ReleaseAssumption DEF ReleasesInit, ReleasesTypeOK

LEMMA ReleasesTypeStep == ReleasesTypeOK /\ [ReleasesNext]_releaseVars => ReleasesTypeOK'
<1> SUFFICES ASSUME ReleasesTypeOK, [ReleasesNext]_releaseVars
             PROVE  ReleasesTypeOK'
  OBVIOUS
<1>1. CASE UNCHANGED releaseVars
  BY <1>1 DEF releaseVars, ReleasesTypeOK
<1>2. ASSUME NEW r \in HelmRelease, Toggle(r)
      PROVE  ReleasesTypeOK'
  BY <1>2, ReleaseAssumption DEF Toggle, ReleasesTypeOK
<1>3. CASE ApplyInfra
  BY <1>3, RenderedType, RenderedKeeps DEF ApplyInfra, ReleasesTypeOK
<1>4. CASE ApplyComponents
  <2>1. \A s \in ServiceReleases : Pruned(s) \subseteq HelmRelease
    BY ReleaseAssumption DEF Pruned
  <2>2. dependsOn' \in [HelmRelease -> SUBSET HelmRelease]
    BY <1>4, <2>1 DEF ApplyComponents, ReleasesTypeOK
  <2>3. \A r \in HelmRelease : state'[r] = "absent" => dependsOn'[r] = {}
    BY <1>4, RenderedKeeps DEF ApplyComponents, ReleasesTypeOK
  <2> QED
    BY <1>4, <2>2, <2>3, RenderedType DEF ApplyComponents, ReleasesTypeOK, Disabled
<1>5. ASSUME NEW r \in HelmRelease, Delete(r)
      PROVE  ReleasesTypeOK'
  BY <1>5 DEF Delete, ReleasesTypeOK, Exists
<1>6. CASE PassEnds
  BY <1>6 DEF PassEnds, AllDeleted, ReleasesTypeOK
<1>7. CASE PassFails
  BY <1>7, ReleaseAssumption DEF PassFails, ReleasesTypeOK
<1>8. ASSUME NEW r \in HelmRelease, FluxInstalls(r)
      PROVE  ReleasesTypeOK'
  BY <1>8 DEF FluxInstalls, ReleasesTypeOK
<1>9. ASSUME NEW r \in HelmRelease, FluxUninstalls(r)
      PROVE  ReleasesTypeOK'
  BY <1>9 DEF FluxUninstalls, ReleasesTypeOK
<1> QED
  BY <1>1, <1>2, <1>3, <1>4, <1>5, <1>6, <1>7, <1>8, <1>9 DEF ReleasesNext, Pass

-------------------------------------------------------------------------------
(* While a pass deletes, a service that it does not delete, or has deleted *)
(* already, depends on nothing that it still has to delete.                *)
PrunedInv ==
  pass = "delete" =>
    \A s \in ServiceReleases \ disabled :
      state[s] = "terminating" \/ dependsOn[s] \cap disabled = {}

ReleasesInv == ReleasesTypeOK /\ PrunedInv

LEMMA ReleasesInvInit == ReleasesInit => ReleasesInv
BY ReleasesTypeInit DEF ReleasesInit, ReleasesInv, PrunedInv

LEMMA ReleasesInvStep == ReleasesInv /\ [ReleasesNext]_releaseVars => ReleasesInv'
<1> SUFFICES ASSUME ReleasesInv, [ReleasesNext]_releaseVars
             PROVE  PrunedInv'
  BY ReleasesTypeStep DEF ReleasesInv
<1> USE DEF ReleasesInv
<1>1. CASE UNCHANGED releaseVars
  BY <1>1 DEF releaseVars, PrunedInv
<1>2. ASSUME NEW r \in HelmRelease, Toggle(r)
      PROVE  PrunedInv'
  BY <1>2 DEF Toggle, PrunedInv
<1>3. CASE ApplyInfra \/ PassEnds \/ PassFails
  BY <1>3 DEF ApplyInfra, PassEnds, PassFails, PrunedInv
<1>4. CASE ApplyComponents
  <2>1. SUFFICES ASSUME NEW s \in ServiceReleases, s \notin disabled'
                 PROVE  dependsOn'[s] \cap disabled' = {}
    BY DEF PrunedInv
  <2>2. s \in HelmRelease /\ s \in enabled
    BY <1>4, <2>1 DEF ApplyComponents, Disabled, HelmRelease
  <2>3. dependsOn'[s] = Requires[s] \ disabled'
    BY <1>4, <2>1, <2>2 DEF ApplyComponents, Pruned
  <2> QED
    BY <2>3
<1>5. ASSUME NEW r \in HelmRelease, Delete(r)
      PROVE  PrunedInv'
  <2>1. SUFFICES ASSUME NEW s \in ServiceReleases, s \notin disabled'
                 PROVE  state'[s] = "terminating" \/ dependsOn'[s] \cap disabled' = {}
    BY DEF PrunedInv
  <2>2. CASE s = r
    BY <1>5, <2>1, <2>2 DEF Delete, Exists, ReleasesTypeOK
  <2>3. CASE s # r
    <3>1. s \in HelmRelease /\ s \notin disabled /\ pass = "delete"
      BY <1>5, <2>1, <2>3 DEF Delete, HelmRelease
    <3>2. state[s] = "terminating" \/ dependsOn[s] \cap disabled = {}
      BY <3>1, <2>1 DEF PrunedInv
    <3> QED
      BY <1>5, <2>3, <3>1, <3>2 DEF Delete, ReleasesTypeOK
  <2> QED
    BY <2>2, <2>3
<1>6. ASSUME NEW r \in HelmRelease, FluxInstalls(r)
      PROVE  PrunedInv'
  BY <1>6 DEF FluxInstalls, ReleasesTypeOK, PrunedInv, HelmRelease
<1>7. ASSUME NEW r \in HelmRelease, FluxUninstalls(r)
      PROVE  PrunedInv'
  BY <1>7 DEF FluxUninstalls, ReleasesTypeOK, PrunedInv, HelmRelease
<1> QED
  BY <1>1, <1>2, <1>3, <1>4, <1>5, <1>6, <1>7 DEF ReleasesNext, Pass

(* A release becomes terminating in Delete only.                           *)
LEMMA OnlyDeleteTerminates ==
  ASSUME ReleasesTypeOK, ReleasesNext, NEW r \in HelmRelease,
         state[r] # "terminating", state'[r] = "terminating"
  PROVE  Delete(r)
<1>1. ~ApplyInfra /\ ~ApplyComponents
  BY RenderedKeeps DEF ApplyInfra, ApplyComponents
<1>2. ~PassEnds /\ ~PassFails
  BY DEF PassEnds, PassFails
<1>3. ASSUME NEW q \in HelmRelease
      PROVE  ~Toggle(q) /\ ~FluxInstalls(q) /\ ~FluxUninstalls(q) /\ (Delete(q) => q = r)
  BY DEF Toggle, FluxInstalls, FluxUninstalls, Delete, ReleasesTypeOK
<1> QED
  BY <1>1, <1>2, <1>3 DEF ReleasesNext, Pass

(* Flux finds the dependencies of every release that stays: a pass deletes *)
(* a release only after it has applied dependsOn without that release,     *)
(* whatever is switched on and off in between and wherever a pass ends.    *)
THEOREM DependenciesKept == ReleasesSpec => NoDependencyDeleted
<1>1. ReleasesInv /\ [ReleasesNext]_releaseVars =>
        [\A r \in HelmRelease :
           state[r] # "terminating" /\ state'[r] = "terminating" =>
             \A s \in ServiceReleases : r \in dependsOn[s] =>
               state[s] = "terminating" \/ s \in disabled]_releaseVars
  <2> SUFFICES ASSUME ReleasesInv, ReleasesNext, NEW r \in HelmRelease,
                      state[r] # "terminating", state'[r] = "terminating",
                      NEW s \in ServiceReleases, r \in dependsOn[s], s \notin disabled
               PROVE  state[s] = "terminating"
    OBVIOUS
  <2>1. pass = "delete" /\ r \in disabled
    BY OnlyDeleteTerminates DEF ReleasesInv, Delete
  <2> QED
    BY <2>1 DEF ReleasesInv, PrunedInv
<1> QED
  BY <1>1, ReleasesInvInit, ReleasesInvStep, PTL DEF ReleasesSpec, NoDependencyDeleted

(* The state of the releases has its type in every behaviour.              *)
THEOREM ReleasesTypeCorrect == ReleasesSpec => []ReleasesTypeOK
BY ReleasesTypeInit, ReleasesTypeStep, PTL DEF ReleasesSpec

-----------------------------------------------------------------------------
(* SyncWaves.                                                              *)

(* The new wave of a service: not negative, after every dependency and,    *)
(* unless it is 0, right after one of them.                                *)
NewWaves ==
  \A s \in Service :
    /\ NewWave(s) \in Int /\ NewWave(s) >= 0
    /\ \A d \in dependencies[s] : waves[d] + 1 <= NewWave(s)
    /\ NewWave(s) = 0 \/ \E d \in dependencies[s] : NewWave(s) = waves[d] + 1

LEMMA NewWaveIs == WavesTypeOK => NewWaves
<1> SUFFICES ASSUME WavesTypeOK, NEW s \in Service
             PROVE  /\ NewWave(s) \in Int /\ NewWave(s) >= 0
                    /\ \A d \in dependencies[s] : waves[d] + 1 <= NewWave(s)
                    /\ NewWave(s) = 0 \/ \E d \in dependencies[s] : NewWave(s) = waves[d] + 1
  BY DEF NewWaves
<1> DEFINE W == {waves[d] : d \in dependencies[s]}
           T == {-1} \cup W
<1>1. dependencies[s] \subseteq Service /\ dependencies[s] \in SUBSET Service /\ W \subseteq Int
  BY DEF WavesTypeOK
<1>2. IsFiniteSet(dependencies[s])
  BY <1>1, WavesAssumption, FS_Subset
<1>3. IsFiniteSet(W)
  <2> DEFINE f == [d \in dependencies[s] |-> waves[d]]
  <2>1. f \in Surjection(dependencies[s], W)
    BY DEF Surjection
  <2> HIDE DEF f
  <2> QED  BY <1>2, <2>1, FS_Surjection
<1>4. IsFiniteSet(T) /\ T # {} /\ T \subseteq Int
  <2>1. IsFiniteSet(W \cup {-1})
    BY <1>3, FS_AddElement
  <2> QED  BY <2>1, <1>1
<1>5. Max(T) \in T /\ \A y \in T : y <= Max(T)
  <2> HIDE DEF T
  <2> QED  BY <1>4, MaxIsGreatest
<1>6. NewWave(s) = Max(T) + 1
  BY DEF NewWave
<1>7. Max(T) \in Int /\ -1 <= Max(T)
  BY <1>4, <1>5
<1>8. \A d \in dependencies[s] : waves[d] \in Int /\ waves[d] <= Max(T)
  BY <1>1, <1>5
<1>9. Max(T) = -1 \/ \E d \in dependencies[s] : Max(T) = waves[d]
  BY <1>5
<1> HIDE DEF T
<1> QED  BY <1>6, <1>7, <1>8, <1>9

(* What the comment promises and what the loop computes are the same.      *)
LEMMA PromisedWave ==
  ASSUME WavesTypeOK, NEW s \in Service
  PROVE  Max({0} \cup {waves[d] + 1 : d \in dependencies[s]}) = NewWave(s)
<1> DEFINE T == {0} \cup {waves[d] + 1 : d \in dependencies[s]}
<1>1. \A d \in dependencies[s] : waves[d] \in Int
  BY DEF WavesTypeOK
<1>2. NewWave(s) \in T
  BY NewWaveIs DEF NewWaves
<1>3. \A y \in T : NewWave(s) >= y
  BY NewWaveIs, <1>1 DEF NewWaves
<1>4. \A x \in T : x \in Int
  BY <1>1
<1>5. \A x \in T : (\A y \in T : x >= y) => x = NewWave(s)
  BY <1>2, <1>3, <1>4, NewWaveIs DEF NewWaves
<1>6. Max(T) = NewWave(s)
  <2> HIDE DEF T
  <2> QED  BY <1>2, <1>3, <1>5 DEF Max
<1> QED  BY <1>6

-----------------------------------------------------------------------------
(* Dependencies over any number of steps.                                  *)
LEMMA DependenciesAreBelow ==
  ASSUME WavesTypeOK, NEW s \in Service
  PROVE  dependencies[s] \subseteq Below(s)
BY DEF WavesTypeOK, Below

LEMMA BelowIsTransitive ==
  ASSUME NEW s \in Service, NEW d \in Below(s)
  PROVE  Below(d) \subseteq Below(s)
BY DEF Below, Closed

LEMMA BelowIsFinite ==
  ASSUME NEW s \in Service
  PROVE  /\ IsFiniteSet(Below(s)) /\ Cardinality(Below(s)) \in Nat
         /\ Cardinality(Below(s)) <= Services /\ Services \in Nat
<1>1. Below(s) \in SUBSET Service
  BY DEF Below
<1> QED  BY <1>1, WavesAssumption, FS_Subset, FS_CardinalityType DEF Services

(* Below a service that is in no cycle are fewer services at each step.    *)
LEMMA SoundIsBelow ==
  ASSUME NEW s \in Service, Sound(s), NEW d \in Below(s)
  PROVE  d \in Service /\ Sound(d) /\ Cardinality(Below(d)) < Cardinality(Below(s))
<1>1. d \in Service
  BY DEF Below
<1>2. Below(d) \subseteq Below(s)
  BY BelowIsTransitive
<1>3. Sound(d)
  BY <1>2 DEF Sound
<1>4. d \notin Below(d)
  BY DEF Sound
<1>5. Below(d) # Below(s) /\ Below(d) \in SUBSET Below(s)
  BY <1>2, <1>4
<1>6. Cardinality(Below(d)) <= Cardinality(Below(s)) /\ Cardinality(Below(d)) # Cardinality(Below(s))
  BY <1>5, BelowIsFinite, FS_Subset
<1>7. Cardinality(Below(d)) \in Nat /\ Cardinality(Below(s)) \in Nat
  BY BelowIsFinite, <1>1
<1> QED  BY <1>1, <1>3, <1>6, <1>7

-----------------------------------------------------------------------------
(* The rounds end at their maximum.                                        *)
RoundsEnd == rounds = MaxRounds => finished

LEMMA WavesTypeInit == WavesInit => WavesTypeOK /\ RoundsEnd
<1> SUFFICES ASSUME WavesInit PROVE WavesTypeOK /\ RoundsEnd
  OBVIOUS
<1>1. Services \in Nat
  BY WavesAssumption, FS_CardinalityType DEF Services
<1>2. \A s \in Service : InitialWave(s) \in Int
  <2> SUFFICES ASSUME NEW s \in Service, user[s] # {}
               PROVE  (CHOOSE w \in user[s] : TRUE) \in Int
    BY DEF InitialWave
  <2>1. user[s] \subseteq UserWaves
    BY DEF WavesInit
  <2> QED  BY <2>1, WavesAssumption
<1>3. waves \in [Service -> Int]
  BY <1>2 DEF WavesInit
<1>4. position \in 1..Services + 1 /\ rounds \in 0..MaxRounds /\ RoundsEnd
  BY <1>1 DEF WavesInit, MaxRounds, RoundsEnd
<1> QED  BY <1>3, <1>4 DEF WavesInit, WavesTypeOK

LEMMA WavesTypeStep ==
  WavesTypeOK /\ RoundsEnd /\ [WavesNext]_waveVars => WavesTypeOK' /\ RoundsEnd'
<1> SUFFICES ASSUME WavesTypeOK, RoundsEnd, [WavesNext]_waveVars
             PROVE  WavesTypeOK' /\ RoundsEnd'
  OBVIOUS
<1>1. Services \in Nat
  BY WavesAssumption, FS_CardinalityType DEF Services
<1>2. CASE UNCHANGED waveVars
  BY <1>2 DEF waveVars, WavesTypeOK, RoundsEnd
<1>3. CASE EndRound
  <2>1. rounds' \in 0..MaxRounds /\ position' \in 1..Services + 1
    BY <1>1, <1>3 DEF EndRound, WavesTypeOK, MaxRounds, RoundsEnd
  <2>2. finished' \in BOOLEAN /\ changed' \in BOOLEAN /\ RoundsEnd'
    BY <1>3 DEF EndRound, RoundsEnd
  <2> QED  BY <2>1, <2>2, <1>3 DEF EndRound, WavesTypeOK
<1>4. ASSUME NEW s \in Service, Visit(s)
      PROVE  WavesTypeOK' /\ RoundsEnd'
  <2>1. NewWave(s) \in Int
    BY NewWaveIs DEF NewWaves
  <2>2. waves' \in [Service -> Int] /\ changed' \in BOOLEAN
    BY <1>4, <2>1 DEF Visit, WavesTypeOK
  <2>3. position' \in 1..Services + 1
    BY <1>4, <1>1 DEF Visit, WavesTypeOK
  <2> QED  BY <2>2, <2>3, <1>4 DEF Visit, WavesTypeOK, RoundsEnd
<1> QED  BY <1>2, <1>3, <1>4 DEF WavesNext

(* The sync waves are integers, and the rounds stay within their maximum.  *)
THEOREM WavesTypeCorrect == WavesSpec => []WavesTypeOK
<1>1. WavesSpec => [](WavesTypeOK /\ RoundsEnd)
  BY WavesTypeInit, WavesTypeStep, PTL DEF WavesSpec
<1> QED  BY <1>1, PTL

-----------------------------------------------------------------------------
(* A wave a user chose is never overwritten.                               *)
UserWavesKept == \A s \in Service : user[s] # {} => waves[s] = InitialWave(s)

(* No wave the loop computes is ahead of what it should be.                *)
WavesAtMostNew == \A s \in Service : user[s] = {} => waves[s] >= 0 /\ waves[s] <= NewWave(s)

Settled(s) == user[s] # {} \/ NewWave(s) <= waves[s]

VisitedIn(s) == \E i \in 1..Services : i < position /\ serviceNames[i] = s

(* As long as a round changed nothing, what it visited is settled.         *)
QuietRoundSettles == ~changed => \A s \in Service : VisitedIn(s) => Settled(s)

(* A round settles the services whose dependencies are: after so many      *)
(* rounds, the services with fewer services below them.                    *)
RoundsSettle ==
  \A s \in Service :
    /\ Sound(s)
    /\ \/ Cardinality(Below(s)) < rounds
       \/ Cardinality(Below(s)) = rounds /\ VisitedIn(s)
    => Settled(s)

FinalSettled == finished => rounds = MaxRounds \/ \A s \in Service : Settled(s)

WavesInv ==
  /\ WavesTypeOK /\ RoundsEnd /\ UserWavesKept /\ WavesAtMostNew
  /\ QuietRoundSettles /\ RoundsSettle /\ FinalSettled

LEMMA WavesInvInit == WavesInit => WavesInv
<1> SUFFICES ASSUME WavesInit PROVE WavesInv
  OBVIOUS
<1>1. WavesTypeOK /\ RoundsEnd
  BY WavesTypeInit
<1>2. UserWavesKept
  BY DEF WavesInit, UserWavesKept
<1>3. WavesAtMostNew
  BY <1>1, NewWaveIs DEF WavesInit, WavesAtMostNew, InitialWave, NewWaves
<1>4. \A s \in Service : ~VisitedIn(s)
  BY DEF WavesInit, VisitedIn
<1>5. \A s \in Service : ~(Cardinality(Below(s)) < rounds)
  BY BelowIsFinite DEF WavesInit
<1> QED  BY <1>1, <1>2, <1>3, <1>4, <1>5 DEF WavesInv, QuietRoundSettles, RoundsSettle, FinalSettled, WavesInit

(* A step changes neither what depends on what nor the user's waves.       *)
LEMMA GraphKept ==
  ASSUME [WavesNext]_waveVars
  PROVE  /\ dependencies' = dependencies /\ user' = user /\ serviceNames' = serviceNames
         /\ \A s : InitialWave(s)' = InitialWave(s) /\ Below(s)' = Below(s)
                   /\ (Sound(s)' <=> Sound(s))
<1>1. dependencies' = dependencies /\ user' = user /\ serviceNames' = serviceNames
  BY DEF WavesNext, EndRound, Visit, waveVars
<1>2. \A s : InitialWave(s)' = InitialWave(s)
  BY <1>1 DEF InitialWave
<1>3. \A s : Below(s)' = Below(s)
  BY <1>1 DEF Below, Closed
<1>4. \A s : Sound(s)' <=> Sound(s)
  BY <1>3 DEF Sound
<1> QED  BY <1>1, <1>2, <1>3, <1>4

(* Waves only grow, and with them what is due to the others.               *)
LEMMA WavesGrow ==
  ASSUME WavesTypeOK, RoundsEnd, NEW t \in Service, Visit(t)
  PROVE  /\ \A s \in Service : waves[s] <= waves'[s]
         /\ \A s \in Service : NewWave(s) <= NewWave(s)'
<1>0. [WavesNext]_waveVars
  BY DEF WavesNext
<1>1. WavesTypeOK' /\ NewWaves'
  <2>1. WavesTypeOK'
    BY <1>0, WavesTypeStep
  <2> QED  BY <2>1, NewWaveIs, PTL
<1>2. \A s \in Service : waves[s] \in Int /\ waves'[s] \in Int
  BY <1>1 DEF WavesTypeOK
<1>3. \A s \in Service : waves[s] <= waves'[s]
  <2> TAKE s \in Service
  <2>1. NewWave(t) \in Int
    BY NewWaveIs DEF NewWaves
  <2>2. CASE Outdated(t)
    BY <1>2, <2>1, <2>2 DEF Visit, Outdated, WavesTypeOK
  <2>3. CASE ~Outdated(t)
    BY <1>2, <2>3 DEF Visit
  <2> QED  BY <2>2, <2>3
<1>4. ASSUME NEW s \in Service
      PROVE  NewWave(s) <= NewWave(s)'
  <2>1. NewWave(s)' >= 0 /\ NewWave(s)' \in Int
    BY <1>1 DEF NewWaves
  <2>2. \A d \in dependencies[s] : waves'[d] + 1 <= NewWave(s)'
    BY <1>1, <1>0, GraphKept DEF NewWaves
  <2>3. \A d \in dependencies[s] : d \in Service
    BY DEF WavesTypeOK
  <2> QED  BY <2>1, <2>2, <2>3, <1>2, <1>3, NewWaveIs DEF NewWaves
<1> QED  BY <1>3, <1>4

(* A settled service keeps its wave when it is visited.                    *)
LEMMA SettledKept ==
  ASSUME WavesTypeOK, NEW t \in Service, Visit(t), NEW s \in Service, Settled(s)
  PROVE  waves'[s] = waves[s]
<1>1. waves[s] \in Int /\ NewWave(s) \in Int
  BY NewWaveIs DEF WavesTypeOK, NewWaves
<1>2. CASE s = t
  BY <1>1, <1>2 DEF Visit, Outdated, Settled
<1>3. CASE s # t
  BY <1>3 DEF Visit, WavesTypeOK
<1> QED  BY <1>2, <1>3

(* What is due to a service changes only with one of its dependencies.     *)
LEMMA NewWaveKept ==
  ASSUME WavesTypeOK, NEW s \in Service, [WavesNext]_waveVars,
         \A d \in dependencies[s] : waves'[d] = waves[d]
  PROVE  NewWave(s)' = NewWave(s)
<1>1. dependencies' = dependencies
  BY GraphKept
<1>2. {waves'[d] : d \in dependencies[s]} = {waves[d] : d \in dependencies[s]}
  OBVIOUS
<1> QED  BY <1>1, <1>2 DEF NewWave

(* The service a step visits is settled by it, if no service depends on    *)
(* itself there.                                                           *)
LEMMA VisitSettles ==
  ASSUME WavesTypeOK, WavesAtMostNew, NEW t \in Service, Visit(t),
         t \notin dependencies[t] \/ ~Outdated(t)
  PROVE  Settled(t)'
<1>0. [WavesNext]_waveVars
  BY DEF WavesNext
<1>1. NewWave(t) \in Int /\ waves[t] \in Int
  BY NewWaveIs DEF WavesTypeOK, NewWaves
<1>2. \A d \in dependencies[t] : waves'[d] = waves[d]
  BY DEF Visit, WavesTypeOK
<1>3. NewWave(t)' = NewWave(t)
  BY <1>0, <1>2, NewWaveKept
<1>4. CASE Outdated(t)
  BY <1>1, <1>3, <1>4 DEF Visit, Settled, WavesTypeOK
<1>5. CASE ~Outdated(t)
  <2>1. dependencies[t] = {} => NewWave(t) = 0
    BY NewWaveIs DEF NewWaves
  <2>2. user[t] = {} => waves[t] >= 0
    BY DEF WavesAtMostNew
  <2>3. user[t] # {} \/ NewWave(t) <= waves[t]
    BY <1>1, <1>5, <2>1, <2>2 DEF Outdated
  <2>4. waves' = waves /\ user' = user
    BY <1>5 DEF Visit
  <2> QED  BY <1>3, <2>3, <2>4 DEF Settled
<1> QED  BY <1>4, <1>5

LEMMA WavesInvEndRound == WavesInv /\ EndRound => WavesInv'
<1> SUFFICES ASSUME WavesInv, EndRound
             PROVE  WavesInv'
  OBVIOUS
<1>0. [WavesNext]_waveVars /\ WavesTypeOK /\ RoundsEnd
  BY DEF WavesNext, WavesInv
<1>1. WavesTypeOK' /\ RoundsEnd'
  BY <1>0, WavesTypeStep
<1>2. waves' = waves
  BY DEF EndRound
<1>3. \A s \in Service : NewWave(s)' = NewWave(s)
  BY <1>0, <1>2, NewWaveKept
<1>4. \A s \in Service : Settled(s)' <=> Settled(s)
  BY <1>0, <1>2, <1>3, GraphKept DEF Settled
<1>5. UserWavesKept'
  BY <1>0, <1>2, GraphKept DEF UserWavesKept, WavesInv
<1>6. WavesAtMostNew'
  BY <1>0, <1>2, <1>3, GraphKept DEF WavesAtMostNew, WavesInv
<1>7. \A s \in Service : VisitedIn(s)
  <2> SUFFICES ASSUME NEW s \in Service PROVE VisitedIn(s)
    OBVIOUS
  <2>1. PICK i \in 1..Services : serviceNames[i] = s
    BY <1>0 DEF WavesTypeOK, Orders
  <2>2. i < position
    BY BelowIsFinite DEF EndRound
  <2> QED  BY <2>1, <2>2 DEF VisitedIn
<1>8. \A s \in Service : ~VisitedIn(s)'
  BY DEF EndRound, VisitedIn
<1>9. QuietRoundSettles'
  BY <1>8 DEF QuietRoundSettles
<1>10. RoundsSettle'
  <2> SUFFICES ASSUME NEW s \in Service, Sound(s)', Cardinality(Below(s)') < rounds'
               PROVE  Settled(s)'
    BY <1>8 DEF RoundsSettle
  <2>1. Sound(s) /\ Cardinality(Below(s)) < rounds + 1
    BY <1>0, GraphKept DEF EndRound
  <2>2. rounds \in Nat
    BY <1>0, BelowIsFinite DEF WavesTypeOK, MaxRounds
  <2>3. Cardinality(Below(s)) < rounds \/ Cardinality(Below(s)) = rounds
    BY <2>1, <2>2, BelowIsFinite
  <2>4. Settled(s)
    BY <2>1, <2>3, <1>7 DEF RoundsSettle, WavesInv
  <2> QED  BY <2>4, <1>4
<1>11. FinalSettled'
  <2>1. ~changed => \A s \in Service : Settled(s)
    BY <1>7 DEF WavesInv, QuietRoundSettles
  <2>2. MaxRounds' = MaxRounds
    BY DEF MaxRounds
  <2> QED  BY <2>1, <2>2, <1>4 DEF EndRound, FinalSettled
<1> QED  BY <1>1, <1>5, <1>6, <1>9, <1>10, <1>11 DEF WavesInv

LEMMA WavesInvVisit ==
  ASSUME WavesInv, NEW t \in Service, Visit(t)
  PROVE  WavesInv'
<1>0. [WavesNext]_waveVars /\ WavesTypeOK /\ RoundsEnd /\ WavesAtMostNew
  BY DEF WavesNext, WavesInv
<1>1. WavesTypeOK' /\ RoundsEnd'
  BY <1>0, WavesTypeStep
<1>2. \A s \in Service : s # t \/ ~Outdated(t) => waves'[s] = waves[s]
  BY <1>0 DEF Visit, WavesTypeOK
<1>3. \A s \in Service : NewWave(s) \in Int /\ NewWave(s)' \in Int /\ waves[s] \in Int /\ NewWave(s) >= 0
  <2>1. NewWaves'
    BY <1>1, NewWaveIs, PTL
  <2> QED  BY <2>1, <1>0, NewWaveIs DEF NewWaves, WavesTypeOK
<1>4. \A s \in Service : VisitedIn(s)' => VisitedIn(s) \/ s = t
  <2> SUFFICES ASSUME NEW s \in Service, VisitedIn(s)'
               PROVE  VisitedIn(s) \/ s = t
    OBVIOUS
  <2>1. PICK i \in 1..Services : i < position + 1 /\ serviceNames[i] = s
    BY <1>0, GraphKept DEF VisitedIn, Visit
  <2>2. position \in Int
    BY <1>0, BelowIsFinite DEF WavesTypeOK
  <2>3. i < position \/ i = position
    BY <2>1, <2>2
  <2> QED  BY <2>1, <2>3 DEF VisitedIn, Visit
<1>5. UserWavesKept'
  BY <1>0, <1>2, GraphKept DEF UserWavesKept, WavesInv, Outdated
<1>6. WavesAtMostNew'
  <2> SUFFICES ASSUME NEW s \in Service, user[s] = {}
               PROVE  waves'[s] >= 0 /\ waves'[s] <= NewWave(s)'
    BY <1>0, GraphKept DEF WavesAtMostNew
  <2>1. NewWave(s) <= NewWave(s)'
    BY <1>0, WavesGrow
  <2>2. waves[s] >= 0 /\ waves[s] <= NewWave(s)
    BY <1>0 DEF WavesAtMostNew
  <2>3. CASE s # t \/ ~Outdated(t)
    <3>1. waves'[s] = waves[s]
      BY <1>2, <2>3
    <3> QED  BY <3>1, <2>1, <2>2, <1>3
  <2>4. CASE s = t /\ Outdated(t)
    <3>1. waves'[s] = NewWave(s)
      BY <2>4, <1>0 DEF Visit, WavesTypeOK
    <3> QED  BY <3>1, <2>1, <1>3
  <2> QED  BY <2>3, <2>4
<1>7. QuietRoundSettles'
  <2> SUFFICES ASSUME ~changed', NEW s \in Service, VisitedIn(s)'
               PROVE  Settled(s)'
    BY DEF QuietRoundSettles
  <2>1. ~changed /\ ~Outdated(t) /\ waves' = waves
    BY DEF Visit
  <2>2. CASE s = t
    BY <2>1, <2>2, <1>0, VisitSettles
  <2>3. CASE s # t
    <3>1. Settled(s)
      BY <2>1, <2>3, <1>4 DEF WavesInv, QuietRoundSettles
    <3>2. NewWave(s)' = NewWave(s)
      BY <2>1, <1>0, NewWaveKept
    <3> QED  BY <2>1, <3>1, <3>2, <1>0, GraphKept DEF Settled
  <2> QED  BY <2>2, <2>3
<1>8. RoundsSettle'
  <2> SUFFICES ASSUME NEW s \in Service, Sound(s),
                      \/ Cardinality(Below(s)) < rounds
                      \/ Cardinality(Below(s)) = rounds /\ VisitedIn(s)'
               PROVE  Settled(s)'
    <3>1. rounds' = rounds
      BY DEF Visit
    <3> QED  BY <3>1, <1>0, GraphKept DEF RoundsSettle
  <2>1. rounds \in Nat /\ Cardinality(Below(s)) \in Nat
    BY <1>0, BelowIsFinite DEF WavesTypeOK, MaxRounds
  <2>2. ASSUME NEW d \in dependencies[s]
        PROVE  waves'[d] = waves[d]
    <3>1. d \in Below(s)
      BY <1>0, DependenciesAreBelow
    <3>2. d \in Service /\ Sound(d) /\ Cardinality(Below(d)) < Cardinality(Below(s))
      BY <3>1, SoundIsBelow
    <3>3. Cardinality(Below(d)) < rounds
      BY <3>2, <2>1, BelowIsFinite
    <3>4. Settled(d)
      BY <3>2, <3>3 DEF RoundsSettle, WavesInv
    <3> QED  BY <3>2, <3>4, <1>0, SettledKept
  <2>3. NewWave(s)' = NewWave(s)
    BY <2>2, <1>0, NewWaveKept
  <2>4. CASE Settled(s)
    <3>1. waves'[s] = waves[s]
      BY <2>4, <1>0, SettledKept
    <3> QED  BY <3>1, <2>3, <2>4, <1>0, GraphKept DEF Settled
  <2>5. CASE ~Settled(s)
    <3>1. s = t
      BY <2>5, <1>4 DEF RoundsSettle, WavesInv
    <3>2. t \notin dependencies[t]
      BY <3>1, <1>0, DependenciesAreBelow DEF Sound
    <3> QED  BY <3>1, <3>2, <1>0, VisitSettles
  <2> QED  BY <2>4, <2>5
<1>9. FinalSettled'
  BY DEF FinalSettled, Visit
<1> QED  BY <1>1, <1>5, <1>6, <1>7, <1>8, <1>9 DEF WavesInv

LEMMA WavesInvStep == WavesInv /\ [WavesNext]_waveVars => WavesInv'
<1> SUFFICES ASSUME WavesInv, [WavesNext]_waveVars
             PROVE  WavesInv'
  OBVIOUS
<1>1. CASE UNCHANGED waveVars
  <2>1. WavesTypeOK /\ RoundsEnd /\ WavesTypeOK' /\ RoundsEnd'
    BY WavesTypeStep DEF WavesInv
  <2>2. /\ waves' = waves /\ changed' = changed /\ finished' = finished
        /\ rounds' = rounds /\ position' = position
    BY <1>1 DEF waveVars
  <2>3. \A s \in Service : NewWave(s)' = NewWave(s)
    BY <2>1, <2>2, NewWaveKept
  <2>4. \A s \in Service : (Settled(s)' <=> Settled(s)) /\ (VisitedIn(s)' <=> VisitedIn(s))
    BY <2>2, <2>3, GraphKept DEF Settled, VisitedIn
  <2>5. UserWavesKept' /\ WavesAtMostNew'
    BY <2>2, <2>3, GraphKept DEF WavesInv, UserWavesKept, WavesAtMostNew
  <2>6. QuietRoundSettles' /\ RoundsSettle' /\ FinalSettled'
    BY <2>2, <2>4, GraphKept DEF WavesInv, QuietRoundSettles, RoundsSettle, FinalSettled, MaxRounds
  <2> QED  BY <2>1, <2>5, <2>6 DEF WavesInv
<1>2. CASE EndRound
  BY <1>2, WavesInvEndRound
<1>3. ASSUME NEW t \in Service, Visit(t)
      PROVE  WavesInv'
  BY <1>3, WavesInvVisit
<1> QED  BY <1>1, <1>2, <1>3 DEF WavesNext

(* When the waves are final, the services that neither are in a cycle nor  *)
(* depend on one have the waves they should have.                          *)
LEMMA WavesInvEnough == WavesInv => WavesFollowDependencies
<1> SUFFICES ASSUME WavesInv, finished, NEW s \in Service, Sound(s)
             PROVE  waves[s] = IF user[s] # {} THEN InitialWave(s)
                               ELSE Max({0} \cup {waves[d] + 1 : d \in dependencies[s]})
  BY DEF WavesFollowDependencies
<1>1. WavesTypeOK
  BY DEF WavesInv
<1>2. Settled(s)
  <2>1. CASE rounds = MaxRounds
    <3>1. Cardinality(Below(s)) < rounds
      BY <2>1, BelowIsFinite DEF MaxRounds
    <3> QED  BY <3>1 DEF WavesInv, RoundsSettle
  <2> QED  BY <2>1 DEF WavesInv, FinalSettled
<1>3. CASE user[s] # {}
  BY <1>3 DEF WavesInv, UserWavesKept
<1>4. CASE user[s] = {}
  <2>1. waves[s] <= NewWave(s) /\ NewWave(s) <= waves[s]
    BY <1>2, <1>4 DEF WavesInv, WavesAtMostNew, Settled
  <2>2. waves[s] \in Int /\ NewWave(s) \in Int
    BY <1>1, NewWaveIs DEF WavesTypeOK, NewWaves
  <2>3. waves[s] = NewWave(s)
    BY <2>1, <2>2
  <2> QED  BY <2>3, <1>1, <1>4, PromisedWave
<1> QED  BY <1>3, <1>4

(* For any services, dependencies, waves of users and order of the map:    *)
(* the waves calculateSyncWaves ends with are those its comment promises.  *)
THEOREM WavesFollow == WavesSpec => []WavesFollowDependencies
<1>1. WavesSpec => []WavesInv
  BY WavesInvInit, WavesInvStep, PTL DEF WavesSpec
<1> QED  BY <1>1, WavesInvEnough, PTL

-----------------------------------------------------------------------------
(* SearchIndexing.                                                         *)

IndexingPass == [pc : {"idle", "lookup", "write", "release"}, copy : Resources, index : IndexName]

LEMMA Bounds == MaxEdition \in Nat /\ MaxTroubles \in Nat
BY IndexingAssumption

LEMMA NoTypes ==
  /\ NoIndex \in SearchIndices /\ NoObject \in Resources
  /\ BindingIdle \in [pc : {"idle", "write"}, found : BOOLEAN, want : 0..(MaxTroubles + 1)]
  /\ IndexIdle \in [pc : {"idle", "ensure", "status", "drop", "release"}, copy : SearchIndices]
  /\ ResourceIdle \in IndexingPass
<1>1. NoIndex \in SearchIndices /\ NoObject \in Resources
  BY Bounds DEF NoIndex, NoObject, SearchIndices, Resources, IndexName
<1>2. BindingIdle \in [pc : {"idle", "write"}, found : BOOLEAN, want : 0..(MaxTroubles + 1)]
  BY Bounds DEF BindingIdle
<1>3. IndexIdle \in [pc : {"idle", "ensure", "status", "drop", "release"}, copy : SearchIndices]
  BY <1>1 DEF IndexIdle
<1>4. ResourceIdle \in IndexingPass
  BY <1>1 DEF ResourceIdle, IndexingPass, IndexName
<1> QED
  BY <1>1, <1>2, <1>3, <1>4

LEMMA IndexingTypeInit == IndexingInit => IndexingTypeOK
<1> SUFFICES ASSUME IndexingInit PROVE IndexingTypeOK
  OBVIOUS
<1>1. /\ fields \in 1..(MaxTroubles + 1) /\ troubles \in 0..MaxTroubles /\ fields <= troubles + 1
      /\ docs \in [Index -> [Resource -> 0..MaxEdition]]
  BY Bounds DEF IndexingInit
<1>2. /\ object \in [Resource -> Resources] /\ cached \in [Resource -> Resources]
      /\ passes \in [Resource -> IndexingPass]
  BY NoTypes DEF IndexingInit
<1>3. /\ opensearch \in [desired : {"absent", "mapped", "dynamic"},
                         legacy : BOOLEAN, alias : BOOLEAN]
      /\ si \in SearchIndices /\ current \subseteq {"binding", "lifecycle"}
      /\ binding \in [pc : {"idle", "write"}, found : BOOLEAN, want : 0..(MaxTroubles + 1)]
      /\ lifecycle \in [pc : {"idle", "ensure", "status", "drop", "release"}, copy : SearchIndices]
  BY NoTypes DEF IndexingInit
<1>4. /\ unseen \subseteq Resource /\ queued \subseteq Resource
      /\ account \in BOOLEAN /\ removed \in BOOLEAN
  BY DEF IndexingInit
<1> QED
  BY <1>1, <1>2, <1>3, <1>4 DEF IndexingTypeOK, IndexingPass

LEMMA ObjectTypes ==
  ASSUME NEW o \in Resources
  PROVE  /\ \A held \in BOOLEAN : [o EXCEPT !.held = held] \in Resources
         /\ [o EXCEPT !.deleting = TRUE] \in Resources
         /\ o.edition < MaxEdition =>
              [o EXCEPT !.exists = TRUE, !.edition = @ + 1] \in Resources
<1>1. \A held \in BOOLEAN : [o EXCEPT !.held = held] \in Resources
  BY DEF Resources
<1>2. [o EXCEPT !.deleting = TRUE] \in Resources
  BY DEF Resources
<1>3. ASSUME o.edition < MaxEdition
      PROVE  [o EXCEPT !.exists = TRUE, !.edition = @ + 1] \in Resources
  <2>1. o.edition + 1 \in 0..MaxEdition
    BY <1>3, Bounds DEF Resources
  <2> QED
    BY <2>1 DEF Resources
<1> QED
  BY <1>1, <1>2, <1>3

LEMMA PassSteps ==
  ASSUME IndexingTypeOK, NEW r \in Resource
  PROVE  /\ passes[r] \in IndexingPass /\ object[r] \in Resources /\ cached[r] \in Resources
         /\ passes[r].copy \in Resources /\ passes[r].index \in IndexName
         /\ [passes[r] EXCEPT !.pc = "release"] \in IndexingPass
         /\ \A name \in IndexName : [passes[r] EXCEPT !.pc = "write", !.index = name] \in IndexingPass
<1>1. passes[r] \in IndexingPass /\ object[r] \in Resources /\ cached[r] \in Resources
  BY DEF IndexingTypeOK, IndexingPass
<1> QED
  BY <1>1 DEF IndexingPass

(* What an action may do to the passes, the queue and the objects.         *)
LEMMA StoreType ==
  ASSUME IndexingTypeOK, NEW r \in Resource, NEW o \in Resources, Store(r, o)
  PROVE  object' \in [Resource -> Resources] /\ unseen' \subseteq Resource
BY NoTypes DEF IndexingTypeOK, Store, Gone

LEMMA PassPut ==
  ASSUME IndexingTypeOK, NEW r \in Resource, NEW p \in IndexingPass,
         passes' = [passes EXCEPT ![r] = p]
  PROVE  passes' \in [Resource -> IndexingPass]
BY DEF IndexingTypeOK, IndexingPass

LEMMA PassTypes ==
  ASSUME IndexingTypeOK, NEW r \in Resource
  PROVE  /\ EndPass(r) => passes' \in [Resource -> IndexingPass]
         /\ \A o \in Resources : Look(r, o) => passes' \in [Resource -> IndexingPass]
<1>1. \A o \in Resources : [pc |-> "lookup", copy |-> o, index |-> "none"] \in IndexingPass
  BY DEF IndexingPass, IndexName
<1>2. EndPass(r) => passes' \in [Resource -> IndexingPass]
  BY NoTypes, PassPut DEF EndPass
<1>3. \A o \in Resources : Look(r, o) => passes' \in [Resource -> IndexingPass]
  BY <1>1, PassPut DEF Look
<1> QED
  BY <1>2, <1>3

LEMMA BindingType == IndexingTypeOK /\ BindingStep => IndexingTypeOK'
<1> SUFFICES ASSUME IndexingTypeOK, BindingStep
             PROVE  IndexingTypeOK'
  OBVIOUS
<1> USE DEF IndexingTypeOK, resourceVars
<1>1. CASE BindingReads
  <2>1. binding' \in [pc : {"idle", "write"}, found : BOOLEAN, want : 0..(MaxTroubles + 1)]
    BY <1>1, Bounds DEF BindingReads, SearchIndices
  <2>2. current' \subseteq {"binding", "lifecycle"}
    BY <1>1 DEF BindingReads
  <2> QED
    BY <1>1, <2>1, <2>2 DEF BindingReads
<1>2. CASE EnsureSearchIndex
  <2>1. si' \in SearchIndices
    BY <1>2, NoTypes DEF EnsureSearchIndex, SearchIndices, NoIndex
  <2> QED
    BY <1>2, <2>1, NoTypes DEF EnsureSearchIndex
<1> QED
  BY <1>1, <1>2 DEF BindingStep

LEMMA LifecycleType == IndexingTypeOK /\ LifecycleStep => IndexingTypeOK'
<1> SUFFICES ASSUME IndexingTypeOK, LifecycleStep
             PROVE  IndexingTypeOK'
  OBVIOUS
<1> USE DEF IndexingTypeOK, resourceVars
<1>1. CASE LifecycleStart
  <2>1. si' \in SearchIndices
    BY <1>1 DEF LifecycleStart, SearchIndices
  <2> QED
    BY <1>1, <2>1 DEF LifecycleStart
<1>2. CASE EnsureIndex
  <2>1. \A name \in IndexName : [lifecycle.copy EXCEPT !.name = name] \in SearchIndices
    BY DEF SearchIndices
  <2>2. \A name \in IndexName :
          [lifecycle EXCEPT !.pc = "status", !.copy.name = name]
            \in [pc : {"idle", "ensure", "status", "drop", "release"}, copy : SearchIndices]
    BY <2>1
  <2>3. "desired" \in IndexName /\ "legacy" \in IndexName
    BY DEF IndexName, Index
  <2>4. lifecycle' \in [pc : {"idle", "ensure", "status", "drop", "release"},
                        copy : SearchIndices]
    BY <1>2, <2>2, <2>3, NoTypes DEF EnsureIndex
  <2>5. opensearch' \in [desired : {"absent", "mapped", "dynamic"},
                         legacy : BOOLEAN, alias : BOOLEAN]
    BY <1>2 DEF EnsureIndex
  <2> QED
    BY <1>2, <2>4, <2>5 DEF EnsureIndex
<1>3. CASE LifecycleStatus
  <2>1. StoreIndexName \in SearchIndices
    BY DEF StoreIndexName, SearchIndices
  <2> QED
    BY <1>3, <2>1, NoTypes DEF LifecycleStatus
<1>4. CASE DropIndex
  <2>1. lifecycle.copy.name \in IndexName
    BY DEF SearchIndices
  <2>2. docs' \in [Index -> [Resource -> 0..MaxEdition]]
    BY <1>4, <2>1, Bounds DEF DropIndex, IndexName
  <2> QED
    BY <1>4, <2>2 DEF DropIndex
<1>5. CASE ReleaseIndex
  <2>1. [si EXCEPT !.held = FALSE] \in SearchIndices
    BY DEF SearchIndices
  <2>2. si' \in SearchIndices
    BY <1>5, <2>1, NoTypes DEF ReleaseIndex, Collected
  <2> QED
    BY <1>5, <2>2, NoTypes DEF ReleaseIndex
<1> QED
  BY <1>1, <1>2, <1>3, <1>4, <1>5 DEF LifecycleStep

LEMMA ResourceStepType ==
  ASSUME IndexingTypeOK, NEW r \in Resource, ResourceStep(r)
  PROVE  IndexingTypeOK'
<1> USE DEF IndexingTypeOK, indexVars
<1>1. CASE ResourceStart(r)
  <2>1. cached[r] \in Resources /\ [object[r] EXCEPT !.held = TRUE] \in Resources
    BY PassSteps, ObjectTypes
  <2>2. object' \in [Resource -> Resources] /\ unseen' \subseteq Resource
    BY <1>1, <2>1, StoreType DEF ResourceStart, Keep
  <2>3. passes' \in [Resource -> IndexingPass]
    <3>1. object'[r] \in Resources
      BY <2>2
    <3> QED
      BY <1>1, <2>1, <3>1, PassTypes DEF ResourceStart, IndexingPass
  <2> QED
    BY <1>1, <2>2, <2>3 DEF ResourceStart, IndexingPass
<1>2. CASE ResourceLookup(r)
  <2>1. passes' \in [Resource -> IndexingPass] /\ queued' \subseteq Resource
    <3>1. CASE Later(r)
      BY <3>1, PassTypes DEF Later
    <3>2. CASE passes' = [passes EXCEPT ![r].pc = "release"] /\ UNCHANGED queued
      <4>1. passes' = [passes EXCEPT ![r] = [passes[r] EXCEPT !.pc = "release"]]
        BY <3>2
      <4> QED
        BY <3>2, <4>1, PassSteps, PassPut
    <3>3. CASE passes' = [passes EXCEPT ![r].pc = "write", ![r].index = si.name] /\ UNCHANGED queued
      <4>1. [passes[r] EXCEPT !.pc = "write", !.index = si.name] \in IndexingPass
        BY PassSteps DEF SearchIndices
      <4>2. passes' = [passes EXCEPT ![r] = [passes[r] EXCEPT !.pc = "write", !.index = si.name]]
        BY <3>3
      <4>3. passes' \in [Resource -> IndexingPass]
        BY <4>1, <4>2, PassPut
      <4> QED
        BY <3>3, <4>3
    <3> QED
      BY <1>2, <3>1, <3>2, <3>3 DEF ResourceLookup
  <2> QED
    BY <1>2, <2>1 DEF ResourceLookup, IndexingPass
<1>3. CASE IndexDocument(r)
  <2>1. passes[r].index \in IndexName /\ passes[r].copy.edition \in 0..MaxEdition
    BY DEF Resources
  <2>2. passes' \in [Resource -> IndexingPass]
    BY <1>3, PassTypes DEF IndexDocument
  <2>3. docs' \in [Index -> [Resource -> 0..MaxEdition]]
    BY <1>3, <2>1 DEF IndexDocument, IndexName, Index
  <2>4. opensearch' \in [desired : {"absent", "mapped", "dynamic"},
                         legacy : BOOLEAN, alias : BOOLEAN]
    BY <1>3 DEF IndexDocument
  <2> QED
    BY <1>3, <2>2, <2>3, <2>4 DEF IndexDocument, IndexingPass
<1>4. CASE DeleteDocument(r)
  <2>1. CASE Later(r) /\ UNCHANGED docs
    BY <1>4, <2>1, PassTypes DEF DeleteDocument, Later, IndexingPass
  <2>2. CASE /\ docs' = Deletes(r)
             /\ passes' = [passes EXCEPT ![r].pc = "release"] /\ UNCHANGED queued
    <3>1. docs' \in [Index -> [Resource -> 0..MaxEdition]]
      <4> DEFINE target == passes[r].index
                 documents == [docs[target] EXCEPT ![r] = 0]
      <4>1. CASE target \in Index
        <5>1. documents \in [Resource -> 0..MaxEdition]
          BY <4>1, Bounds
        <5>2. docs' = [docs EXCEPT ![target] = documents]
          BY <2>2 DEF Deletes
        <5> QED
          BY <5>1, <5>2
      <4>2. CASE target \notin Index
        BY <2>2, <4>2 DEF Deletes
      <4> QED
        BY <4>1, <4>2
    <3>2. passes' = [passes EXCEPT ![r] = [passes[r] EXCEPT !.pc = "release"]]
      BY <2>2
    <3>3. passes' \in [Resource -> IndexingPass]
      BY <3>2, PassSteps, PassPut
    <3> QED
      BY <1>4, <2>2, <3>1, <3>3 DEF DeleteDocument, IndexingPass
  <2> QED
    BY <1>4, <2>1, <2>2 DEF DeleteDocument
<1>5. CASE ReleaseResource(r)
  <2>1. [object[r] EXCEPT !.held = FALSE] \in Resources
    BY PassSteps, ObjectTypes
  <2>2. object' \in [Resource -> Resources] /\ unseen' \subseteq Resource
    BY <1>5, <2>1, StoreType DEF ReleaseResource
  <2>3. passes' \in [Resource -> IndexingPass]
    BY <1>5, PassTypes DEF ReleaseResource
  <2> QED
    BY <1>5, <2>2, <2>3 DEF ReleaseResource, IndexingPass
<1> QED
  BY <1>1, <1>2, <1>3, <1>4, <1>5 DEF ResourceStep

LEMMA IndexingTypeStep == IndexingTypeOK /\ [IndexingNext]_indexingVars => IndexingTypeOK'
<1> SUFFICES ASSUME IndexingTypeOK, [IndexingNext]_indexingVars
             PROVE  IndexingTypeOK'
  OBVIOUS
<1> USE DEF indexVars, resourceVars
<1>1. CASE UNCHANGED indexingVars
  BY <1>1 DEF indexingVars, IndexingTypeOK
<1>2. CASE AccountAppears
  BY <1>2 DEF AccountAppears, IndexingTypeOK
<1>8. CASE FieldsChange
  BY <1>8, Bounds DEF FieldsChange, IndexingTypeOK
<1>3. CASE RemoveIndex
  <2>1. [si EXCEPT !.deleting = TRUE] \in SearchIndices
    BY DEF IndexingTypeOK, SearchIndices
  <2>2. si' \in SearchIndices
    BY <1>3, <2>1, NoTypes DEF RemoveIndex, Collected
  <2> QED
    BY <1>3, <2>2, Bounds DEF RemoveIndex, IndexingTypeOK
<1>4. CASE Break
  BY <1>4, NoTypes, Bounds DEF Break, IndexingTypeOK, IndexingPass
<1>5. ASSUME NEW r \in Resource, ResourceStep(r)
      PROVE  IndexingTypeOK'
  BY <1>5, ResourceStepType
<1>6. ASSUME NEW r \in Resource, SyncResource(r)
      PROVE  IndexingTypeOK'
  BY <1>6 DEF SyncResource, IndexingTypeOK
<1>7. ASSUME NEW r \in Resource, ChangeResource(r) \/ DeleteResource(r)
      PROVE  IndexingTypeOK'
  <2>1. PICK o \in Resources : Store(r, o)
    BY <1>7, PassSteps, ObjectTypes DEF ChangeResource, DeleteResource
  <2> QED
    BY <1>7, <2>1, StoreType DEF ChangeResource, DeleteResource, IndexingTypeOK
<1> QED
  BY <1>1, <1>2, <1>3, <1>4, <1>5, <1>6, <1>7, <1>8, BindingType, LifecycleType DEF IndexingNext

(* SearchIndex, OpenSearch, resources and passes have their types.         *)
THEOREM IndexingTypeCorrect == IndexingSpec => []IndexingTypeOK
BY IndexingTypeInit, IndexingTypeStep, PTL DEF IndexingSpec

---------------------------------------------------------------------------
(* The inductive invariant.  A finalizer sits on an object that exists, and *)
(* the cache is behind the server in one direction only: a finalizer it    *)
(* shows is still there, or the deletion is under way.                      *)
CacheFacts(r) ==
  /\ object[r].held => object[r].exists
  /\ cached[r].held =>
       IF cached[r].deleting THEN object[r].held => object[r].deleting ELSE object[r].held

(* A pass of Process holds the finalizer; a pass of Finalize looks at an    *)
(* object that has no other end left.                                       *)
PassFacts(r) ==
  /\ passes[r].pc # "idle" /\ passes[r].copy.deleting =>
       /\ object[r].held => object[r].deleting
       /\ cached[r].held => cached[r].deleting
  /\ passes[r].pc \in {"lookup", "write"} /\ ~passes[r].copy.deleting => object[r].held
  /\ passes[r].pc = "release" => passes[r].copy.deleting

(* The name in the status stands for an index that is there, and only for   *)
(* the one that a write under that name reaches.                            *)
NamesTheIndex(name) ==
  /\ name = "desired" => opensearch.desired # "absent"
  /\ name = "legacy" => opensearch.alias

IndexFacts ==
  /\ ~si.deleting /\ lifecycle.pc \notin {"drop", "release"}
  /\ (si.name # "none" \/ lifecycle.pc # "idle") => si.exists
  /\ opensearch.alias => opensearch.desired = "absent"
  /\ NamesTheIndex(si.name)
  /\ lifecycle.pc = "status" =>
       lifecycle.copy.name # "none" /\ NamesTheIndex(lifecycle.copy.name)

(* A document is in the index of the status, and its resource is held; it   *)
(* is deleted before the finalizer is.                                      *)
DocumentFacts(r) ==
  /\ \A i \in Index : docs[i][r] # 0 => object[r].held /\ si.name = i
  /\ passes[r].pc = "release" => \A i \in Index : docs[i][r] = 0
  /\ passes[r].pc = "write" => passes[r].index = si.name /\ si.name # "none"

IndexingInv ==
  /\ IndexingTypeOK
  /\ \A r \in Resource : CacheFacts(r) /\ PassFacts(r)
  /\ ~removed => IndexFacts /\ \A r \in Resource : DocumentFacts(r)

LEMMA IndexingInvInit == IndexingInit => IndexingInv
<1> SUFFICES ASSUME IndexingInit PROVE IndexingInv
  OBVIOUS
<1>1. \A r \in Resource : CacheFacts(r) /\ PassFacts(r)
  BY DEF IndexingInit, NoObject, ResourceIdle, CacheFacts, PassFacts
<1>2. IndexFacts
  BY DEF IndexingInit, NoIndex, IndexIdle, IndexFacts, NamesTheIndex
<1>3. \A r \in Resource : DocumentFacts(r)
  BY DEF IndexingInit, ResourceIdle, DocumentFacts
<1> QED
  BY <1>1, <1>2, <1>3, IndexingTypeInit DEF IndexingInv

(* What is not touched keeps its facts.                                     *)
LEMMA RowFrame ==
  ASSUME NEW q \in Resource, CacheFacts(q), PassFacts(q),
         object'[q] = object[q], cached'[q] = cached[q], passes'[q] = passes[q]
  PROVE  CacheFacts(q)' /\ PassFacts(q)'
BY DEF CacheFacts, PassFacts

LEMMA DocumentFrame ==
  ASSUME NEW q \in Resource, DocumentFacts(q), object'[q] = object[q], passes'[q] = passes[q],
         si'.name = si.name, \A i \in Index : docs'[i][q] = docs[i][q]
  PROVE  DocumentFacts(q)'
BY DEF DocumentFacts

LEMMA StoreRow ==
  ASSUME IndexingTypeOK, NEW r \in Resource, NEW o, Store(r, o)
  PROVE  /\ object'[r] = Gone(o)
         /\ \A q \in Resource \ {r} : object'[q] = object[q]
BY DEF IndexingTypeOK, Store

LEMMA EndRow ==
  ASSUME IndexingTypeOK, NEW r \in Resource, EndPass(r)
  PROVE  /\ passes'[r].pc = "idle"
         /\ \A q \in Resource \ {r} : passes'[q] = passes[q]
BY DEF IndexingTypeOK, EndPass, ResourceIdle

(* A step of one resource leaves the rows of the others alone.              *)
ResourceActs(r) ==
  ResourceStep(r) \/ SyncResource(r) \/ ChangeResource(r) \/ DeleteResource(r)

LEMMA OtherRows ==
  ASSUME IndexingTypeOK, NEW r \in Resource, ResourceActs(r), NEW q \in Resource \ {r}
  PROVE  /\ object'[q] = object[q] /\ cached'[q] = cached[q] /\ passes'[q] = passes[q]
         /\ \A i \in Index : docs'[i][q] = docs[i][q]
<1> USE DEF IndexingTypeOK
<1>1. CASE ResourceStart(r)
  BY <1>1, StoreRow DEF ResourceStart, Look, Keep
<1>2. CASE ResourceLookup(r)
  BY <1>2 DEF ResourceLookup, Later, EndPass
<1>3. CASE IndexDocument(r)
  BY <1>3 DEF IndexDocument, EndPass
<1>4. CASE DeleteDocument(r)
  <2>1. passes'[q] = passes[q]
    BY <1>4 DEF DeleteDocument, Later, EndPass
  <2>2. \A i \in Index : Deletes(r)[i][q] = docs[i][q]
    BY DEF Deletes
  <2> QED
    BY <1>4, <2>1, <2>2 DEF DeleteDocument
<1>5. CASE ReleaseResource(r)
  BY <1>5, StoreRow DEF ReleaseResource, EndPass
<1>6. CASE SyncResource(r)
  BY <1>6 DEF SyncResource
<1>7. CASE ChangeResource(r)
  BY <1>7, StoreRow DEF ChangeResource
<1>8. CASE DeleteResource(r)
  BY <1>8, StoreRow DEF DeleteResource
<1> QED
  BY <1>1, <1>2, <1>3, <1>4, <1>5, <1>6, <1>7, <1>8 DEF ResourceActs, ResourceStep

(* The row of the resource that acts.                                       *)
LEMMA RowStep ==
  ASSUME IndexingInv, NEW r \in Resource, ResourceActs(r)
  PROVE  CacheFacts(r)' /\ PassFacts(r)'
<1>0. /\ IndexingTypeOK /\ CacheFacts(r) /\ PassFacts(r)
      /\ object[r] \in Resources /\ cached[r] \in Resources /\ passes[r] \in IndexingPass
  BY PassSteps DEF IndexingInv
<1>1. CASE ResourceStart(r)
  <2>1. CASE cached[r].held
    <3>1. /\ object' = object /\ cached' = cached
          /\ passes'[r] = [pc |-> "lookup", copy |-> cached[r], index |-> "none"]
      BY <1>0, <1>1, <2>1 DEF ResourceStart, Look, Keep, IndexingTypeOK
    <3> QED
      BY <1>0, <2>1, <3>1 DEF CacheFacts, PassFacts
  <2>2. CASE UNCHANGED <<object, cached, passes>>
    BY <1>0, <2>2, RowFrame
  <2>3. CASE /\ object[r].exists /\ ~object[r].deleting /\ ~cached[r].held
             /\ Store(r, [object[r] EXCEPT !.held = TRUE]) /\ Look(r, object'[r])
             /\ UNCHANGED cached
    <3>1. object'[r] = [object[r] EXCEPT !.held = TRUE]
      BY <1>0, <2>3, StoreRow DEF Gone, Resources
    <3>2. passes'[r] = [pc |-> "lookup", copy |-> object'[r], index |-> "none"]
      BY <1>0, <2>3 DEF Look, IndexingTypeOK
    <3> QED
      BY <1>0, <2>3, <3>1, <3>2 DEF CacheFacts, PassFacts, Resources
  <2> QED
    BY <1>1, <2>1, <2>2, <2>3 DEF ResourceStart, Keep
<1>2. CASE ResourceLookup(r)
  <2>1. /\ object' = object /\ cached' = cached
        /\ \/ passes'[r].pc = "idle"
           \/ passes'[r].pc = "release" /\ passes[r].pc = "lookup"
              /\ passes'[r].copy = passes[r].copy /\ passes[r].copy.deleting
           \/ passes'[r].pc = "write" /\ passes[r].pc = "lookup"
              /\ passes'[r].copy = passes[r].copy
    BY <1>0, <1>2 DEF ResourceLookup, Later, EndPass, ResourceIdle, IndexingTypeOK, IndexingPass
  <2> QED
    BY <1>0, <2>1 DEF CacheFacts, PassFacts
<1>3. CASE IndexDocument(r)
  <2>1. object' = object /\ cached' = cached /\ passes'[r].pc = "idle"
    BY <1>0, <1>3, EndRow DEF IndexDocument
  <2> QED
    BY <1>0, <2>1 DEF CacheFacts, PassFacts
<1>4. CASE DeleteDocument(r)
  <2>1. /\ object' = object /\ cached' = cached
        /\ \/ passes'[r].pc = "idle"
           \/ /\ passes'[r].pc = "release" /\ passes[r].pc = "write"
              /\ passes'[r].copy = passes[r].copy /\ passes[r].copy.deleting
    BY <1>0, <1>4 DEF DeleteDocument, Later, EndPass, ResourceIdle, IndexingTypeOK, IndexingPass
  <2> QED
    BY <1>0, <2>1 DEF CacheFacts, PassFacts
<1>5. CASE ReleaseResource(r)
  <2>1. /\ object'[r] = Gone([object[r] EXCEPT !.held = FALSE]) /\ cached' = cached
        /\ passes'[r].pc = "idle" /\ passes[r].pc = "release"
    BY <1>0, <1>5, StoreRow, EndRow DEF ReleaseResource
  <2>2. ~object'[r].held
    BY <1>0, <2>1 DEF Gone, NoObject, Resources
  <2> QED
    BY <1>0, <2>1, <2>2 DEF CacheFacts, PassFacts
<1>6. CASE SyncResource(r)
  <2>1. object' = object /\ passes' = passes /\ cached'[r] = object[r]
    BY <1>0, <1>6 DEF SyncResource, IndexingTypeOK
  <2> QED
    BY <1>0, <2>1 DEF CacheFacts, PassFacts
<1>7. CASE ChangeResource(r)
  <2>1. /\ object'[r] = [object[r] EXCEPT !.exists = TRUE, !.edition = @ + 1]
        /\ cached' = cached /\ passes' = passes
    BY <1>0, <1>7, StoreRow DEF ChangeResource, Gone, Resources
  <2> QED
    BY <1>0, <1>7, <2>1 DEF CacheFacts, PassFacts, ChangeResource, Resources
<1>8. CASE DeleteResource(r)
  <2>1. /\ object'[r] = Gone([object[r] EXCEPT !.deleting = TRUE])
        /\ cached' = cached /\ passes' = passes /\ object[r].exists
    BY <1>0, <1>8, StoreRow DEF DeleteResource
  <2>2. IF object[r].held
        THEN object'[r].held /\ object'[r].exists /\ object'[r].deleting
        ELSE ~object'[r].held
    BY <1>0, <2>1 DEF Gone, NoObject, Resources
  <2> QED
    BY <1>0, <2>1, <2>2 DEF CacheFacts, PassFacts
<1> QED
  BY <1>1, <1>2, <1>3, <1>4, <1>5, <1>6, <1>7, <1>8 DEF ResourceActs, ResourceStep

(* Only Process writes to OpenSearch, and only to the index of the status.  *)
LEMMA WriteReaches ==
  ASSUME IndexingInv, ~removed, NEW r \in Resource, IndexDocument(r)
  PROVE  /\ opensearch'.desired = opensearch.desired /\ opensearch'.alias = opensearch.alias
         /\ object[r].held /\ passes'[r].pc = "idle"
         /\ \A i \in Index : docs'[i][r] # 0 => si.name = i
<1>0. IndexingTypeOK /\ PassFacts(r) /\ DocumentFacts(r) /\ IndexFacts
  BY DEF IndexingInv
<1>1. /\ passes[r].pc = "write" /\ ~passes[r].copy.deleting
      /\ passes[r].index = si.name /\ si.name \in Index
  BY <1>0, PassSteps DEF IndexDocument, DocumentFacts, IndexName
<1>2. NamesTheIndex(si.name) /\ (opensearch.alias => opensearch.desired = "absent")
  BY <1>0 DEF IndexFacts
<1>3. object[r].held /\ passes'[r].pc = "idle"
  BY <1>0, <1>1, EndRow DEF IndexDocument, PassFacts
<1>4. docs' = [docs EXCEPT ![si.name][r] = passes[r].copy.edition]
  BY <1>1, <1>2 DEF IndexDocument, NamesTheIndex
<1>5. \A i \in Index : docs'[i][r] # 0 => si.name = i
  BY <1>0, <1>4 DEF DocumentFacts, IndexingTypeOK
<1>6. opensearch'.desired = opensearch.desired /\ opensearch'.alias = opensearch.alias
  <2>1. CASE si.name = "desired"
    <3>1. Found("desired") <=> opensearch.desired # "absent" \/ opensearch.alias
      BY DEF Found
    <3>2. Found(passes[r].index)
      BY <1>1, <1>2, <2>1, <3>1 DEF NamesTheIndex
    <3>3. opensearch' = opensearch
      BY <3>2 DEF IndexDocument
    <3> QED
      BY <3>3
  <2>2. CASE si.name = "legacy"
    BY <1>0, <1>1, <2>2 DEF IndexDocument, IndexingTypeOK
  <2> QED
    BY <1>1, <2>1, <2>2 DEF Index
<1> QED
  BY <1>3, <1>5, <1>6

(* Finalize leaves no document of its resource: the one index that may      *)
(* have it is the one of the pass.                                          *)
LEMMA DeleteReaches ==
  ASSUME IndexingInv, ~removed, NEW r \in Resource, DeleteDocument(r)
  PROVE  \/ passes'[r].pc = "idle" /\ UNCHANGED docs
         \/ passes'[r].pc = "release" /\ \A i \in Index : docs'[i][r] = 0
<1>0. IndexingTypeOK /\ DocumentFacts(r)
  BY DEF IndexingInv
<1>1. CASE Later(r) /\ UNCHANGED docs
  BY <1>0, <1>1, EndRow DEF Later
<1>2. CASE docs' = Deletes(r) /\ passes' = [passes EXCEPT ![r].pc = "release"]
  <2>1. passes[r].pc = "write" /\ passes[r].index = si.name
    BY <1>0 DEF DeleteDocument, DocumentFacts
  <2>2. \A i \in Index : docs'[i][r] = 0
    BY <1>0, <1>2, <2>1 DEF Deletes, DocumentFacts, IndexingTypeOK
  <2> QED
    BY <1>0, <1>2, <2>2 DEF IndexingTypeOK
<1> QED
  BY <1>1, <1>2 DEF DeleteDocument

LEMMA DocumentRowStep ==
  ASSUME IndexingInv, ~removed, NEW r \in Resource, ResourceActs(r)
  PROVE  /\ DocumentFacts(r)' /\ si' = si /\ lifecycle' = lifecycle
         /\ opensearch'.desired = opensearch.desired /\ opensearch'.alias = opensearch.alias
<1>0. /\ IndexingTypeOK /\ DocumentFacts(r) /\ IndexFacts /\ PassFacts(r) /\ CacheFacts(r)
      /\ object[r] \in Resources /\ passes[r] \in IndexingPass
  BY PassSteps DEF IndexingInv
<1> USE DEF indexVars
<1>1. CASE ResourceStart(r)
  <2>1. /\ UNCHANGED <<docs, indexVars>> /\ (object[r].held => object'[r].held)
        /\ passes'[r].pc \in {"lookup", "idle"}
    <3>1. CASE Keep /\ (UNCHANGED passes \/ Look(r, cached[r]))
      BY <1>0, <1>1, <3>1 DEF ResourceStart, Keep, Look, IndexingTypeOK
    <3>2. CASE /\ ~object[r].deleting /\ Store(r, [object[r] EXCEPT !.held = TRUE])
               /\ Look(r, object'[r])
      <4>1. object'[r].held
        BY <1>0, <3>2, StoreRow DEF Gone, Resources
      <4> QED
        BY <1>0, <1>1, <3>2, <4>1 DEF ResourceStart, Look, IndexingTypeOK
    <3> QED
      BY <1>1, <3>1, <3>2 DEF ResourceStart
  <2> QED
    BY <1>0, <2>1 DEF DocumentFacts
<1>2. CASE ResourceLookup(r)
  <2>1. /\ UNCHANGED <<docs, indexVars, object>>
        /\ \/ passes'[r].pc = "idle"
           \/ passes'[r].pc = "release" /\ si.name = "none"
           \/ passes'[r].pc = "write" /\ passes'[r].index = si.name /\ si.name # "none"
    BY <1>0, <1>2 DEF ResourceLookup, Later, EndPass, ResourceIdle, IndexingTypeOK, IndexingPass
  <2> QED
    BY <1>0, <2>1 DEF DocumentFacts, Index
<1>3. CASE IndexDocument(r)
  <2>1. si' = si /\ lifecycle' = lifecycle /\ object' = object
    BY <1>3 DEF IndexDocument
  <2> QED
    BY <1>3, <2>1, WriteReaches DEF DocumentFacts
<1>4. CASE DeleteDocument(r)
  <2>1. UNCHANGED <<indexVars, object>>
    BY <1>4 DEF DeleteDocument
  <2>2. DocumentFacts(r)'
    BY <1>0, <1>4, <2>1, DeleteReaches DEF DocumentFacts
  <2> QED
    BY <2>1, <2>2
<1>5. CASE ReleaseResource(r)
  <2>1. UNCHANGED <<indexVars, docs>> /\ passes'[r].pc = "idle" /\ passes[r].pc = "release"
    BY <1>0, <1>5, EndRow DEF ReleaseResource
  <2>2. \A i \in Index : docs'[i][r] = 0
    BY <1>0, <2>1 DEF DocumentFacts
  <2>3. DocumentFacts(r)'
    BY <2>1, <2>2 DEF DocumentFacts
  <2> QED
    BY <2>1, <2>3
<1>6. CASE SyncResource(r)
  BY <1>0, <1>6 DEF SyncResource, DocumentFacts
<1>7. CASE ChangeResource(r)
  <2>1. UNCHANGED <<indexVars, docs, passes>> /\ (object[r].held => object'[r].held)
    <3>1. object'[r] = [object[r] EXCEPT !.exists = TRUE, !.edition = @ + 1]
      BY <1>0, <1>7, StoreRow DEF ChangeResource, Gone, Resources
    <3> QED
      BY <1>0, <1>7, <3>1 DEF ChangeResource, Resources
  <2> QED
    BY <1>0, <2>1 DEF DocumentFacts
<1>8. CASE DeleteResource(r)
  <2>1. UNCHANGED <<indexVars, docs, passes>> /\ (object[r].held => object'[r].held)
    BY <1>0, <1>8, StoreRow DEF DeleteResource, Gone, Resources
  <2> QED
    BY <1>0, <2>1 DEF DocumentFacts
<1> QED
  BY <1>1, <1>2, <1>3, <1>4, <1>5, <1>6, <1>7, <1>8 DEF ResourceActs, ResourceStep

LEMMA ResourceInv ==
  ASSUME IndexingInv, NEW r \in Resource, ResourceActs(r)
  PROVE  IndexingInv'
<1>1. IndexingTypeOK /\ removed' = removed
  BY DEF IndexingInv, ResourceActs, ResourceStep, ResourceStart, ResourceLookup, IndexDocument,
         DeleteDocument, ReleaseResource, SyncResource, ChangeResource, DeleteResource
<1>2. IndexingTypeOK'
  BY <1>1, IndexingTypeStep DEF IndexingNext, ResourceActs
<1>3. ASSUME NEW q \in Resource
      PROVE  CacheFacts(q)' /\ PassFacts(q)'
  <2>1. CASE q = r
    BY <2>1, RowStep
  <2>2. CASE q # r
    BY <1>1, <2>2, OtherRows, RowFrame DEF IndexingInv
  <2> QED
    BY <2>1, <2>2
<1>4. ASSUME ~removed
      PROVE  IndexFacts' /\ \A q \in Resource : DocumentFacts(q)'
  <2>1. IndexFacts'
    BY <1>4, DocumentRowStep DEF IndexingInv, IndexFacts, NamesTheIndex
  <2>2. ASSUME NEW q \in Resource \ {r}
        PROVE  DocumentFacts(q)'
    <3>1. si' = si
      BY <1>4, DocumentRowStep
    <3> QED
      BY <1>1, <1>4, <3>1, OtherRows, DocumentFrame DEF IndexingInv
  <2> QED
    BY <1>4, <2>1, <2>2, DocumentRowStep
<1> QED
  BY <1>1, <1>2, <1>3, <1>4 DEF IndexingInv

(* The SearchIndex and its index.  A step that touches no resource leaves   *)
(* their rows alone, and the name in the status changes only from none.     *)
LEMMA QuietInv ==
  ASSUME IndexingInv, IndexingTypeOK', UNCHANGED <<object, cached, passes, removed>>,
         ~removed => /\ IndexFacts' /\ docs' = docs
                     /\ si'.name = si.name \/ si.name = "none"
  PROVE  IndexingInv'
<1>1. \A q \in Resource : CacheFacts(q)' /\ PassFacts(q)'
  BY RowFrame DEF IndexingInv
<1>2. ~removed => \A q \in Resource : DocumentFacts(q)'
  BY DEF IndexingInv, DocumentFacts, Index
<1> QED
  BY <1>1, <1>2 DEF IndexingInv

LEMMA BindingInv == IndexingInv /\ BindingStep => IndexingInv'
<1> SUFFICES ASSUME IndexingInv, BindingStep PROVE IndexingInv'
  OBVIOUS
<1>1. IndexingTypeOK /\ IndexingTypeOK'
  BY IndexingTypeStep DEF IndexingInv, IndexingNext
<1>2. UNCHANGED <<object, cached, passes, removed, docs, lifecycle, opensearch>>
  BY DEF BindingStep, BindingReads, EnsureSearchIndex, resourceVars
<1>3. CASE si' = si
  BY <1>1, <1>2, <1>3, QuietInv DEF IndexingInv, IndexFacts, NamesTheIndex
<1>4. CASE si' = [NoIndex EXCEPT !.exists = TRUE, !.fields = binding.want] /\ ~si.exists
  <2>1. si'.name = "none" /\ ~si'.deleting /\ si'.exists
    BY <1>4 DEF NoIndex
  <2>2. ~removed => si.name = "none"
    BY <1>4 DEF IndexingInv, IndexFacts
  <2> QED
    BY <1>1, <1>2, <2>1, <2>2, QuietInv DEF IndexingInv, IndexFacts, NamesTheIndex
<1>5. CASE si' = [si EXCEPT !.fields = binding.want]
  <2>1. si'.name = si.name /\ si'.deleting = si.deleting /\ si'.exists = si.exists
    BY <1>1, <1>5 DEF IndexingTypeOK, SearchIndices
  <2> QED
    BY <1>1, <1>2, <2>1, QuietInv DEF IndexingInv, IndexFacts, NamesTheIndex
<1> QED
  BY <1>3, <1>4, <1>5 DEF BindingStep, BindingReads, EnsureSearchIndex

LEMMA LifecycleInv == IndexingInv /\ LifecycleStep => IndexingInv'
<1> SUFFICES ASSUME IndexingInv, LifecycleStep PROVE IndexingInv'
  OBVIOUS
<1>1. IndexingTypeOK /\ IndexingTypeOK'
  BY IndexingTypeStep DEF IndexingInv, IndexingNext
<1>2. UNCHANGED <<object, cached, passes, removed>>
  BY DEF LifecycleStep, LifecycleStart, EnsureIndex, LifecycleStatus, DropIndex, ReleaseIndex,
         resourceVars
<1>3. ASSUME ~removed
      PROVE  IndexFacts' /\ docs' = docs /\ (si'.name = si.name \/ si.name = "none")
  <2>0. IndexFacts
    BY <1>3 DEF IndexingInv
  <2>1. CASE LifecycleStart
    <3>1. /\ si'.name = si.name /\ si'.deleting = si.deleting /\ si'.exists
          /\ docs' = docs /\ opensearch' = opensearch /\ lifecycle'.pc = "ensure"
      BY <1>1, <2>0, <2>1 DEF LifecycleStart, IndexFacts, IndexingTypeOK, SearchIndices
    <3> QED
      BY <2>0, <3>1 DEF IndexFacts, NamesTheIndex
  <2>2. CASE EnsureIndex
    <3>1. UNCHANGED <<si, docs>> /\ lifecycle.pc = "ensure"
      BY <2>2 DEF EnsureIndex
    <3>5. \A name \in Index :
            lifecycle' = [lifecycle EXCEPT !.pc = "status", !.copy.name = name]
              => lifecycle'.pc = "status" /\ lifecycle'.copy.name = name
      BY <1>1 DEF IndexingTypeOK, SearchIndices
    <3>6. "desired" \in Index /\ "legacy" \in Index
      BY DEF Index
    <3>7. /\ Found("desired") <=> opensearch.desired # "absent" \/ opensearch.alias
          /\ Found("legacy") <=> opensearch.legacy
      BY DEF Found
    <3>2. CASE Found("desired")
      <4>1. /\ opensearch' = opensearch
            /\ \/ lifecycle'.pc = "idle" /\ opensearch.alias
               \/ /\ lifecycle'.pc = "status" /\ lifecycle'.copy.name = "desired"
                  /\ opensearch.desired # "absent"
        <5>1. CASE opensearch.alias
          BY <2>2, <3>2, <5>1 DEF EnsureIndex, IndexIdle
        <5>2. CASE ~opensearch.alias
          BY <2>2, <3>2, <3>5, <3>6, <3>7, <5>2 DEF EnsureIndex
        <5> QED
          BY <5>1, <5>2
      <4>2. lifecycle'.pc = "idle" => si.name # "none" \/ si.exists
        BY <2>0, <3>1 DEF IndexFacts
      <4> QED
        BY <2>0, <3>1, <4>1, <4>2 DEF IndexFacts, NamesTheIndex
    <3>3. CASE ~Found("desired") /\ Found("legacy")
      <4>1. /\ opensearch'.desired = opensearch.desired /\ opensearch'.alias
            /\ opensearch.desired = "absent"
            /\ lifecycle'.pc = "status" /\ lifecycle'.copy.name = "legacy"
        BY <1>1, <2>2, <3>3, <3>5, <3>6, <3>7 DEF EnsureIndex, IndexingTypeOK
      <4> QED
        BY <2>0, <3>1, <4>1 DEF IndexFacts, NamesTheIndex
    <3>4. CASE ~Found("desired") /\ ~Found("legacy")
      <4>1. /\ opensearch'.desired = "mapped" /\ ~opensearch'.alias /\ ~opensearch.alias
            /\ lifecycle'.pc = "status" /\ lifecycle'.copy.name = "desired"
        BY <1>1, <2>2, <3>4, <3>5, <3>6, <3>7 DEF EnsureIndex, IndexingTypeOK
      <4> QED
        BY <2>0, <3>1, <4>1 DEF IndexFacts, NamesTheIndex
    <3> QED
      BY <3>2, <3>3, <3>4
  <2>3. CASE LifecycleStatus
    <3>1. /\ UNCHANGED <<docs, opensearch>> /\ lifecycle.pc = "status" /\ lifecycle'.pc = "idle"
          /\ si'.name \in {si.name, lifecycle.copy.name}
          /\ si'.exists = si.exists /\ si'.deleting = si.deleting
      BY <1>1, <2>3 DEF LifecycleStatus, StoreIndexName, IndexIdle, IndexingTypeOK, SearchIndices
    <3>2. NamesTheIndex(si'.name) /\ NamesTheIndex(si.name) /\ NamesTheIndex(lifecycle.copy.name)
      BY <2>0, <3>1 DEF IndexFacts
    <3>3. lifecycle.copy.name \in Index /\ si.name \in IndexName
      BY <1>1, <2>0, <3>1 DEF IndexFacts, IndexingTypeOK, SearchIndices, IndexName
    <3>4. si'.name = si.name \/ si.name = "none"
      BY <2>0, <3>1, <3>2, <3>3 DEF IndexFacts, NamesTheIndex, Index, IndexName
    <3> QED
      BY <2>0, <3>1, <3>2, <3>4 DEF IndexFacts, NamesTheIndex
  <2> QED
    BY <2>0, <2>1, <2>2, <2>3 DEF LifecycleStep, DropIndex, ReleaseIndex, IndexFacts
<1> QED
  BY <1>1, <1>2, <1>3, QuietInv

(* A restart: every pass is over, and the cache is what the server has.     *)
LEMMA BreakInv == IndexingInv /\ Break => IndexingInv'
<1> SUFFICES ASSUME IndexingInv, Break PROVE IndexingInv'
  OBVIOUS
<1>1. IndexingTypeOK /\ IndexingTypeOK'
  BY IndexingTypeStep DEF IndexingInv, IndexingNext
<1>2. /\ UNCHANGED <<object, removed, docs, si, opensearch>> /\ cached' = object
      /\ lifecycle'.pc = "idle" /\ \A r \in Resource : passes'[r].pc = "idle"
  BY DEF Break, IndexIdle, ResourceIdle
<1>3. \A r \in Resource : CacheFacts(r)' /\ PassFacts(r)'
  BY <1>2 DEF IndexingInv, CacheFacts, PassFacts
<1>4. ~removed => IndexFacts'
  BY <1>2 DEF IndexingInv, IndexFacts, NamesTheIndex
<1>5. ~removed => \A r \in Resource : DocumentFacts(r)'
  BY <1>2 DEF IndexingInv, DocumentFacts
<1> QED
  BY <1>1, <1>2, <1>3, <1>4, <1>5 DEF IndexingInv

LEMMA IndexingInvStep == IndexingInv /\ [IndexingNext]_indexingVars => IndexingInv'
<1> SUFFICES ASSUME IndexingInv, [IndexingNext]_indexingVars PROVE IndexingInv'
  OBVIOUS
<1>1. IndexingTypeOK'
  BY IndexingTypeStep DEF IndexingInv
<1>2. CASE UNCHANGED indexingVars \/ AccountAppears \/ FieldsChange
  <2>1. UNCHANGED <<object, cached, passes, removed, docs, si, lifecycle, opensearch>>
    BY <1>2 DEF indexingVars, AccountAppears, FieldsChange, indexVars, resourceVars
  <2> QED
    BY <1>1, <2>1, QuietInv DEF IndexingInv, IndexFacts, NamesTheIndex
<1>3. CASE RemoveIndex
  <2>1. UNCHANGED <<object, cached, passes>> /\ removed'
    BY <1>3 DEF RemoveIndex, resourceVars
  <2> QED
    BY <1>1, <2>1, RowFrame DEF IndexingInv
<1>4. ASSUME NEW r \in Resource, ResourceActs(r)
      PROVE  IndexingInv'
  BY <1>4, ResourceInv
<1> QED
  BY <1>2, <1>3, <1>4, BindingInv, LifecycleInv, BreakInv DEF IndexingNext, ResourceActs

(* A resource that is gone, or whose finalizer is gone, is not found: the   *)
(* finalizer is taken off only by a pass that read a deletion, looked the   *)
(* index up after that, and deleted the document there.                     *)
THEOREM GoneNotFound == IndexingSpec => []GoneIsNotFound
<1>1. IndexingInv => GoneIsNotFound
  BY DEF IndexingInv, CacheFacts, DocumentFacts, GoneIsNotFound
<1> QED
  BY <1>1, IndexingInvInit, IndexingInvStep, PTL DEF IndexingSpec

-----------------------------------------------------------------------------
(* SearchPaging.                                                           *)

Ascending(s) == \A i, j \in 1..Len(s) : i < j => s[i] < s[j]

(* How far the request has come.                                           *)
Position == IF scan.last = 0 THEN cursor ELSE scan.last

(* What a loop should have found when it has looked at all up to p.        *)
UpTo(p) == {d \in Visible : d <= p}
Counted(s, p) ==
  /\ request.kind = "values" => s.values = {ValueOf[d] : d \in UpTo(p) \cap granted}
  /\ request.kind = "page" =>
       /\ s.hits = Cardinality(UpTo(p) \cap granted)
       /\ ToSet(s.results) = {d \in UpTo(p) \cap granted : Rank(d, Reachable) > Offset(request)}
       /\ Len(s.results) = IF s.hits > Offset(request) THEN s.hits - Offset(request) ELSE 0

(* The loop of a request, which has neither stopped nor reached a limit.   *)
RequestRuns ==
  stage # "idle" =>
    /\ ~scan.stop /\ scan.scanned <= MaxScanned /\ scan.hits <= scan.scanned
    /\ Len(scan.results) < Limit /\ Cardinality(scan.values) < Limit
    /\ cursor >= 0 /\ (request.kind # "walk" => cursor = 0)
    /\ scan.last = 0 \/ cursor < scan.last
    /\ scan.scanned = 0 \/ scan.last # 0
    /\ request \in Requests

(* A page is what lies ahead when the loop comes to it.                    *)
PageAhead ==
  /\ stage \in {"idle", "query"} => page = {}
  /\ stage = "check" => todo = page
  /\ stage \in {"query", "check"} => after = Position
  /\ stage \in {"check", "scan"} =>
       /\ page # {}
       /\ \A d \in page : d \in todo <=> d > Position
       /\ todo = page \/ Position \in page

(* Nothing that must be returned lies between the position and the page,   *)
(* and after the page only if it is full.                                  *)
Expected == IF request.kind = "walk" THEN steady ELSE Visible
NothingSkipped ==
  stage \in {"check", "scan"} /\ whole =>
    \A d \in Expected : d > Position =>
      d \in todo \/ (Cardinality(page) >= BatchSize /\ \A e \in page : e < d)

(* Of a walk: what is shown is in order and behind the cursor, what is     *)
(* found is in order between cursor and position, and no document that     *)
(* stays reachable is left behind.                                         *)
SteadyFound ==
  /\ steady \subseteq Reachable
  /\ stage # "idle" => \A d \in steady : AccountOf[d] \in scope
  /\ stage = "scan" => steady \cap todo \subseteq allowed

ShownInOrder ==
  /\ Ascending(shown)
  /\ cursor >= 0 => \A i \in 1..Len(shown) : shown[i] <= cursor

ResultsInOrder ==
  /\ Ascending(scan.results)
  /\ stage # "idle" => \A i \in 1..Len(scan.results) : cursor < scan.results[i] /\ scan.results[i] <= scan.last

NoneLeftBehind ==
  whole =>
    /\ \A d \in steady : cursor = -1 \/ d <= cursor => d \in ToSet(shown)
    /\ stage # "idle" /\ request.kind = "walk" =>
         \A d \in steady : d <= Position => d \in ToSet(shown) \cup ToSet(scan.results)

WalkInv == SteadyFound /\ ShownInOrder /\ ResultsInOrder /\ NoneLeftBehind

(* Of a page or the values, as long as nothing changes: what the loop has  *)
(* counted is what the index has up to the position.                       *)
CountsMatch ==
  stage # "idle" /\ whole /\ request.kind # "walk" =>
    /\ scope = access /\ page \subseteq Visible
    /\ stage = "scan" => allowed = page \cap granted
    /\ scan.scanned = Cardinality(UpTo(Position)) /\ Counted(scan, Position)

PagingInv ==
  /\ PagingTypeOK /\ RequestRuns /\ PageAhead /\ NothingSkipped
  /\ WalkInv /\ CountsMatch /\ AnswersMatchTheIndex

-----------------------------------------------------------------------------
LEMMA PagingBounds ==
  /\ Documents \in Nat /\ Limit \in Nat /\ BatchSize \in Nat /\ MaxScanned \in Nat
  /\ Documents > 0 /\ Limit > 0 /\ BatchSize > 0 /\ MaxScanned > 0
  /\ MaxEdits \in Nat /\ MaxMishaps \in Nat
BY PagingAssumption

LEMMA DocumentsFinite ==
  ASSUME NEW S, S \subseteq Document
  PROVE  IsFiniteSet(S) /\ Cardinality(S) \in Nat /\ \A d \in S : d \in Int /\ d >= 1 /\ d <= Documents
<1>1. IsFiniteSet(Document)
  BY FS_Interval, PagingBounds DEF Document
<1>2. IsFiniteSet(S) /\ Cardinality(S) \in Nat
  BY <1>1, FS_Subset, FS_CardinalityType
<1>3. \A d \in Document : d \in Int /\ d >= 1 /\ d <= Documents
  BY PagingBounds DEF Document
<1> QED  BY <1>2, <1>3

(* More documents, more of them before a place.                            *)
LEMMA SmallerCount ==
  ASSUME NEW S, NEW T, T \subseteq Document, S \subseteq T
  PROVE  /\ Cardinality(S) \in Nat /\ Cardinality(T) \in Nat
         /\ Cardinality(S) <= Cardinality(T)
         /\ S # T => Cardinality(S) < Cardinality(T)
<1>1. IsFiniteSet(T) /\ S \in SUBSET T /\ Cardinality(T) \in Nat /\ Cardinality(S) \in Nat
  BY DocumentsFinite
<1>2. Cardinality(S) <= Cardinality(T) /\ (Cardinality(T) = Cardinality(S) => T = S)
  BY <1>1, FS_Subset
<1> QED  BY <1>1, <1>2

LEMMA RankGrows ==
  ASSUME NEW S, S \subseteq Document, NEW d \in Document, NEW e \in Document
  PROVE  /\ Rank(d, S) \in Nat
         /\ d <= e => Rank(d, S) <= Rank(e, S)
         /\ d < e /\ e \in S => Rank(d, S) < Rank(e, S)
<1> DEFINE Before(x) == {y \in S : y <= x}
<1>1. Before(d) \subseteq Document /\ Before(e) \subseteq Document
  OBVIOUS
<1>2. d \in Int /\ e \in Int /\ \A y \in S : y \in Int
  BY DocumentsFinite
<1>3. d <= e => Before(d) \subseteq Before(e)
  <2> SUFFICES ASSUME d <= e, NEW y \in S, y <= d
               PROVE  y <= e
    OBVIOUS
  <2> QED  BY <1>2
<1>4. d < e /\ e \in S => e \in Before(e) /\ e \notin Before(d) /\ d <= e
  BY <1>2
<1>5. Rank(d, S) = Cardinality(Before(d)) /\ Rank(e, S) = Cardinality(Before(e))
  BY DEF Rank
<1> HIDE DEF Before
<1>6. Cardinality(Before(d)) \in Nat
  BY <1>1, DocumentsFinite
<1>7. d <= e => Cardinality(Before(d)) <= Cardinality(Before(e))
  BY <1>1, <1>3, SmallerCount
<1>8. d < e /\ e \in S => Cardinality(Before(d)) < Cardinality(Before(e))
  BY <1>1, <1>3, <1>4, SmallerCount
<1> QED  BY <1>5, <1>6, <1>7, <1>8

(* A batch leaves out only later hits, and only if it is full.             *)
LEMMA BatchTakesFirst ==
  ASSUME NEW S, S \subseteq Document
  PROVE  /\ FirstBatch(S) \subseteq S
         /\ S # {} => FirstBatch(S) # {}
         /\ \A d \in S \ FirstBatch(S) : /\ Cardinality(FirstBatch(S)) >= BatchSize
                                         /\ \A e \in FirstBatch(S) : e < d
<1>1. FirstBatch(S) \subseteq S
  BY DEF FirstBatch
<1>2. ASSUME NEW d \in S \ FirstBatch(S)
      PROVE  Cardinality(FirstBatch(S)) >= BatchSize
  <2> DEFINE Rest == S \ FirstBatch(S)
  <2>1. Rest \subseteq Document /\ Rest \subseteq Int /\ IsFiniteSet(Rest) /\ Rest # {}
    BY DocumentsFinite
  <2>2. PICK x \in Rest : \A y \in Rest : x <= y
    <3> HIDE DEF Rest
    <3> QED  BY <2>1, LeastExists
  <2>3. x \in S /\ x \in Int /\ x \notin FirstBatch(S) /\ \A y \in S : y \in Int
    BY DocumentsFinite
  <2>4. \A y \in S : y <= x => y \in FirstBatch(S) \cup {x}
    BY <2>2, <2>3
  <2>5. {y \in S : y <= x} \subseteq FirstBatch(S) \cup {x}
    BY <2>4
  <2>6. FirstBatch(S) \cup {x} \subseteq Document
    BY <1>1, <2>3
  <2>7. Rank(x, S) <= Cardinality(FirstBatch(S) \cup {x})
    BY <2>5, <2>6, SmallerCount DEF Rank
  <2>8. /\ IsFiniteSet(FirstBatch(S)) /\ Cardinality(FirstBatch(S)) \in Nat
        /\ Cardinality(FirstBatch(S) \cup {x}) = Cardinality(FirstBatch(S)) + 1
    BY <1>1, <2>3, DocumentsFinite, FS_AddElement
  <2>9. ~(Rank(x, S) <= BatchSize)
    BY <2>3 DEF FirstBatch
  <2>10. Rank(x, S) \in Nat
    BY <2>3, RankGrows
  <2> QED  BY <2>7, <2>8, <2>9, <2>10, PagingBounds
<1>3. ASSUME NEW d \in S \ FirstBatch(S), NEW e \in FirstBatch(S)
      PROVE  e < d
  <2>1. e \in S /\ d \in S /\ e \in Document /\ d \in Document
    BY <1>1
  <2>2. Rank(e, S) <= BatchSize /\ ~(Rank(d, S) <= BatchSize)
    BY <2>1 DEF FirstBatch
  <2>3. Rank(e, S) \in Nat /\ Rank(d, S) \in Nat /\ (d <= e => Rank(d, S) <= Rank(e, S))
    BY <2>1, RankGrows
  <2>4. ~(d <= e)
    BY <2>2, <2>3, PagingBounds
  <2> QED  BY <2>1, <2>4, DocumentsFinite
<1>4. S # {} => FirstBatch(S) # {}
  <2> SUFFICES ASSUME S # {}, FirstBatch(S) = {}
               PROVE  FALSE
    OBVIOUS
  <2>1. PICK d : d \in S \ FirstBatch(S)
    OBVIOUS
  <2>2. Cardinality(FirstBatch(S)) >= BatchSize
    BY <2>1, <1>2
  <2>3. Cardinality(FirstBatch(S)) = 0
    BY FS_EmptySet
  <2> QED  BY <2>2, <2>3, PagingBounds
<1> QED  BY <1>1, <1>2, <1>3, <1>4

(* What the loop makes of a hit.                                           *)
LEMMA ScannedIs ==
  ASSUME scan \in Scans, NEW d
  PROVE  LET r == Scanned(scan, d) IN
         /\ r.scanned = scan.scanned + 1
         /\ \/ /\ scan.scanned = MaxScanned
               /\ r.last = scan.last /\ r.hits = scan.hits /\ r.results = scan.results
               /\ r.values = scan.values /\ r.stop = TRUE
            \/ /\ scan.scanned # MaxScanned /\ d \notin allowed /\ r.last = d /\ r.hits = scan.hits
               /\ r.results = scan.results /\ r.values = scan.values /\ r.stop = scan.stop
            \/ /\ scan.scanned # MaxScanned /\ d \in allowed /\ request.kind = "values" /\ r.last = d
               /\ r.hits = scan.hits /\ r.results = scan.results
               /\ r.values = scan.values \cup {ValueOf[d]}
               /\ r.stop = (Cardinality(r.values) = Limit)
            \/ /\ scan.scanned # MaxScanned /\ d \in allowed /\ request.kind # "values" /\ r.last = d
               /\ scan.hits < Offset(request) /\ r.hits = scan.hits + 1
               /\ r.results = scan.results /\ r.values = scan.values /\ r.stop = scan.stop
            \/ /\ scan.scanned # MaxScanned /\ d \in allowed /\ request.kind # "values" /\ r.last = d
               /\ ~(scan.hits < Offset(request)) /\ r.hits = scan.hits + 1
               /\ r.results = Append(scan.results, d) /\ r.values = scan.values
               /\ r.stop = (Len(scan.results) + 1 = Limit)
<1> DEFINE l == Looked(scan, d)
<1>1. /\ l.scanned = scan.scanned + 1 /\ l.last = d /\ l.hits = scan.hits
      /\ l.results = scan.results /\ l.values = scan.values /\ l.stop = scan.stop
  BY DEF Looked, Scans
<1>2. CASE scan.scanned = MaxScanned
  BY <1>2 DEF Scanned, TooMany, Scans
<1>3. CASE scan.scanned # MaxScanned /\ d \notin allowed
  BY <1>1, <1>3 DEF Scanned
<1>4. CASE scan.scanned # MaxScanned /\ d \in allowed /\ request.kind = "values"
  <2>1. Scanned(scan, d) = KeptValue(l, ValueOf[d])
    BY <1>4 DEF Scanned
  <2>2. KeptValue(l, ValueOf[d]) =
          [l EXCEPT !.values = l.values \cup {ValueOf[d]},
                    !.stop = Cardinality(l.values \cup {ValueOf[d]}) = Limit]
    BY DEF KeptValue
  <2>3. DOMAIN l = {"scanned", "last", "hits", "results", "values", "stop"}
    BY DEF Looked, Scans
  <2> HIDE DEF l
  <2> QED  BY <1>1, <1>4, <2>1, <2>2, <2>3
<1>5. CASE scan.scanned # MaxScanned /\ d \in allowed /\ request.kind # "values"
  <2>1. Scanned(scan, d) = KeptHit(l, d)
    BY <1>5 DEF Scanned
  <2>2. KeptHit(l, d) =
          IF scan.hits < Offset(request) THEN [l EXCEPT !.hits = l.hits + 1]
          ELSE [l EXCEPT !.hits = l.hits + 1, !.results = Append(l.results, d),
                         !.stop = Len(l.results) + 1 = Limit]
    BY <1>1 DEF KeptHit
  <2>3. DOMAIN l = {"scanned", "last", "hits", "results", "values", "stop"}
    BY DEF Looked, Scans
  <2> HIDE DEF l
  <2> QED  BY <1>1, <1>5, <2>1, <2>2, <2>3
<1> QED  BY <1>2, <1>3, <1>4, <1>5

-----------------------------------------------------------------------------
(* Sequences in ascending order.                                           *)
LEMMA ConcatAscends ==
  ASSUME NEW a \in Seq(Document), NEW b \in Seq(Document), Ascending(a), Ascending(b), NEW c \in Int,
         \A i \in 1..Len(a) : a[i] <= c, \A i \in 1..Len(b) : c < b[i]
  PROVE  /\ a \o b \in Seq(Document) /\ Ascending(a \o b)
         /\ ToSet(a \o b) = ToSet(a) \cup ToSet(b)
         /\ \A i \in 1..Len(a \o b) : \/ i <= Len(a) /\ (a \o b)[i] = a[i]
                                      \/ i > Len(a) /\ i - Len(a) \in 1..Len(b) /\ (a \o b)[i] = b[i - Len(a)]
<1>0. Len(a) \in Nat /\ Len(b) \in Nat
  OBVIOUS
<1>1. /\ a \o b \in Seq(Document) /\ Len(a \o b) = Len(a) + Len(b)
      /\ \A i \in 1..(Len(a) + Len(b)) : (a \o b)[i] = IF i <= Len(a) THEN a[i] ELSE b[i - Len(a)]
  OBVIOUS
<1>2. \A i \in 1..Len(a \o b) : \/ i <= Len(a) /\ (a \o b)[i] = a[i] /\ i \in 1..Len(a)
                                \/ i > Len(a) /\ i - Len(a) \in 1..Len(b) /\ (a \o b)[i] = b[i - Len(a)]
  BY <1>0, <1>1
<1>3. \A i \in 1..Len(a) : a[i] \in Int
  <2>1. \A x \in Document : x \in Int
    BY DocumentsFinite
  <2> QED  BY <2>1
<1>4. \A i \in 1..Len(b) : b[i] \in Int
  <2>1. \A x \in Document : x \in Int
    BY DocumentsFinite
  <2> QED  BY <2>1
<1>5. Ascending(a \o b)
  <2> SUFFICES ASSUME NEW i \in 1..Len(a \o b), NEW j \in 1..Len(a \o b), i < j
               PROVE  (a \o b)[i] < (a \o b)[j]
    BY DEF Ascending
  <2> DEFINE ab == a \o b
             i0 == i - Len(a)
             j0 == j - Len(a)
  <2>1. CASE j <= Len(a)
    <3>1. i \in 1..Len(a) /\ j \in 1..Len(a) /\ ab[i] = a[i] /\ ab[j] = a[j]
      BY <1>0, <1>1, <2>1
    <3> QED  BY <3>1 DEF Ascending
  <2>2. CASE i > Len(a)
    <3>1. i0 \in 1..Len(b) /\ j0 \in 1..Len(b) /\ i0 < j0 /\ ab[i] = b[i0] /\ ab[j] = b[j0]
      BY <1>0, <1>1, <2>2
    <3> HIDE DEF i0, j0, ab
    <3>2. ab[i] < ab[j]
      BY <3>1 DEF Ascending
    <3> QED  BY <3>2 DEF ab
  <2>3. CASE i <= Len(a) /\ j > Len(a)
    <3>1. i \in 1..Len(a) /\ j0 \in 1..Len(b) /\ ab[i] = a[i] /\ ab[j] = b[j0]
      BY <1>0, <1>1, <2>3
    <3>2. a[i] <= c /\ c < b[j0] /\ a[i] \in Int /\ b[j0] \in Int
      BY <3>1, <1>3, <1>4
    <3>3. a[i] < b[j0]
      BY <3>2
    <3> QED  BY <3>1, <3>3
  <2> QED  BY <2>1, <2>2, <2>3, <1>0
<1>6. ToSet(a \o b) = ToSet(a) \cup ToSet(b)
  <2>1. DOMAIN a = 1..Len(a) /\ DOMAIN b = 1..Len(b) /\ DOMAIN (a \o b) = 1..Len(a \o b)
    BY <1>1
  <2>2. \A i \in 1..Len(a) : i \in 1..Len(a \o b) /\ (a \o b)[i] = a[i]
    BY <1>0, <1>1
  <2>3. \A i \in 1..Len(b) : i + Len(a) \in 1..Len(a \o b) /\ (a \o b)[i + Len(a)] = b[i]
    BY <1>0, <1>1
  <2>4. \A x \in ToSet(a) : x \in ToSet(a \o b)
    BY <2>1, <2>2 DEF ToSet
  <2>5. \A x \in ToSet(b) : x \in ToSet(a \o b)
    BY <2>1, <2>3 DEF ToSet
  <2>6. \A x \in ToSet(a \o b) : x \in ToSet(a) \/ x \in ToSet(b)
    BY <2>1, <1>2 DEF ToSet
  <2> QED  BY <2>4, <2>5, <2>6
<1> QED  BY <1>1, <1>2, <1>5, <1>6

LEMMA AppendAscends ==
  ASSUME NEW a \in Seq(Document), Ascending(a), NEW d \in Document, \A i \in 1..Len(a) : a[i] < d
  PROVE  /\ Append(a, d) \in Seq(Document) /\ Ascending(Append(a, d))
         /\ ToSet(Append(a, d)) = ToSet(a) \cup {d}
         /\ Len(Append(a, d)) = Len(a) + 1
         /\ \A i \in 1..Len(Append(a, d)) : \/ i \in 1..Len(a) /\ Append(a, d)[i] = a[i]
                                            \/ Append(a, d)[i] = d
<1>0. Len(a) \in Nat
  OBVIOUS
<1>1. /\ Append(a, d) \in Seq(Document) /\ Len(Append(a, d)) = Len(a) + 1
      /\ \A i \in 1..Len(a) + 1 : Append(a, d)[i] = IF i <= Len(a) THEN a[i] ELSE d
  OBVIOUS
<1>2. \A i \in 1..Len(Append(a, d)) : \/ i \in 1..Len(a) /\ Append(a, d)[i] = a[i]
                                      \/ i = Len(a) + 1 /\ Append(a, d)[i] = d
  BY <1>0, <1>1
<1>3. Ascending(Append(a, d))
  <2> SUFFICES ASSUME NEW i \in 1..Len(a) + 1, NEW j \in 1..Len(a) + 1, i < j
               PROVE  Append(a, d)[i] < Append(a, d)[j]
    BY <1>1 DEF Ascending
  <2>1. i \in 1..Len(a) /\ Append(a, d)[i] = a[i]
    BY <1>0, <1>1
  <2>2. CASE j = Len(a) + 1
    BY <1>0, <1>1, <2>1, <2>2
  <2>3. CASE j # Len(a) + 1
    <3>1. j \in 1..Len(a) /\ Append(a, d)[j] = a[j]
      BY <1>0, <1>1, <2>3
    <3> QED  BY <2>1, <3>1 DEF Ascending
  <2> QED  BY <2>2, <2>3
<1>4. ToSet(Append(a, d)) = ToSet(a) \cup {d}
  <2>1. DOMAIN a = 1..Len(a) /\ DOMAIN Append(a, d) = 1..Len(a) + 1
    BY <1>1
  <2>2. \A i \in 1..Len(a) : i \in 1..Len(a) + 1 /\ Append(a, d)[i] = a[i]
    BY <1>0, <1>1
  <2>3. Len(a) + 1 \in 1..Len(a) + 1 /\ Append(a, d)[Len(a) + 1] = d
    BY <1>0, <1>1
  <2> QED  BY <2>1, <2>2, <2>3, <1>1, <1>2 DEF ToSet
<1> QED  BY <1>1, <1>2, <1>3, <1>4

LEMMA EmptyAscends == /\ <<>> \in Seq(Document) /\ Ascending(<<>>) /\ ToSet(<<>>) = {} /\ Len(<<>>) = 0
BY DEF Ascending, ToSet

(* A sequence that ascends has no element before a smaller one.            *)
LEMMA AscendingSteps ==
  ASSUME NEW a \in Seq(Document), Ascending(a)
  PROVE  \A i \in 1..Len(a) - 1 : a[i] < a[i + 1]
<1> SUFFICES ASSUME NEW i \in 1..Len(a) - 1
             PROVE  a[i] < a[i + 1]
  OBVIOUS
<1>1. i \in 1..Len(a) /\ i + 1 \in 1..Len(a) /\ i < i + 1
  OBVIOUS
<1> QED  BY <1>1 DEF Ascending

-----------------------------------------------------------------------------
LEMMA ValuesFinite ==
  ASSUME NEW V, V \subseteq Value
  PROVE  IsFiniteSet(V) /\ Cardinality(V) \in Nat
<1> DEFINE f == [d \in Document |-> ValueOf[d]]
<1>1. f \in Surjection(Document, Value)
  BY DEF Surjection, Value
<1>2. IsFiniteSet(Document)
  BY DocumentsFinite
<1>3. IsFiniteSet(Value)
  <2> HIDE DEF f
  <2> QED  BY <1>1, <1>2, FS_Surjection
<1> QED  BY <1>3, FS_Subset, FS_CardinalityType

LEMMA OffsetIsNat ==
  ASSUME request \in Requests
  PROVE  /\ Offset(request) \in Nat
         /\ request.kind \in {"page", "walk", "values"}
         /\ request.kind = "page" => Offset(request) = (request.number - 1) * Limit
<1>1. CASE request \in Pages
  <2>1. request.kind = "page" /\ request.number - 1 \in Nat
    BY <1>1 DEF Pages
  <2>2. \A n \in Nat : n * Limit \in Nat
    BY PagingBounds
  <2>3. (request.number - 1) * Limit \in Nat
    BY <2>1, <2>2
  <2> QED  BY <2>1, <2>3 DEF Offset
<1>2. CASE request \in [kind : {"walk", "values"}, number : {1}]
  BY <1>2 DEF Offset
<1> QED  BY <1>1, <1>2 DEF Requests

LEMMA VisibleDocuments ==
  ASSUME PagingTypeOK
  PROVE  Visible \subseteq Document /\ Reachable \subseteq Document /\ Reachable = Visible \cap granted
         /\ \A p : UpTo(p) \subseteq Document
BY DEF PagingTypeOK, Visible, Reachable, UpTo

(* Those up to p and the next one.                                         *)
LEMMA OneMore ==
  ASSUME PagingTypeOK, NEW p \in Int, NEW d \in Visible, p < d, UpTo(d) = UpTo(p) \cup {d}
  PROVE  /\ d \notin UpTo(p) /\ Cardinality(UpTo(p)) \in Nat
         /\ Cardinality(UpTo(d)) = Cardinality(UpTo(p)) + 1
         /\ d \in granted => /\ UpTo(d) \cap granted = (UpTo(p) \cap granted) \cup {d}
                             /\ Cardinality(UpTo(d) \cap granted) = Cardinality(UpTo(p) \cap granted) + 1
                             /\ Rank(d, Reachable) = Cardinality(UpTo(p) \cap granted) + 1
         /\ d \notin granted => UpTo(d) \cap granted = UpTo(p) \cap granted
         /\ Cardinality(UpTo(p) \cap granted) \in Nat
<1>1. d \in Int /\ d \in Document
  BY VisibleDocuments, DocumentsFinite
<1>2. d \notin UpTo(p)
  BY <1>1 DEF UpTo
<1>3. /\ IsFiniteSet(UpTo(p)) /\ Cardinality(UpTo(p)) \in Nat
      /\ IsFiniteSet(UpTo(p) \cap granted) /\ Cardinality(UpTo(p) \cap granted) \in Nat
  <2>1. UpTo(p) \subseteq Document /\ UpTo(p) \cap granted \subseteq Document
    BY VisibleDocuments
  <2> QED  BY <2>1, DocumentsFinite
<1>4. Cardinality(UpTo(d)) = Cardinality(UpTo(p)) + 1
  BY <1>2, <1>3, FS_AddElement
<1>5. ASSUME d \in granted
      PROVE  /\ UpTo(d) \cap granted = (UpTo(p) \cap granted) \cup {d}
             /\ Cardinality(UpTo(d) \cap granted) = Cardinality(UpTo(p) \cap granted) + 1
             /\ Rank(d, Reachable) = Cardinality(UpTo(p) \cap granted) + 1
  <2>1. UpTo(d) \cap granted = (UpTo(p) \cap granted) \cup {d}
    BY <1>5
  <2>2. Cardinality((UpTo(p) \cap granted) \cup {d}) = Cardinality(UpTo(p) \cap granted) + 1
    BY <1>2, <1>3, FS_AddElement
  <2>3. {e \in Reachable : e <= d} = UpTo(d) \cap granted
    BY DEF Reachable, UpTo
  <2> QED  BY <2>1, <2>2, <2>3 DEF Rank
<1> QED  BY <1>2, <1>3, <1>4, <1>5

(* A hit that is looked at counts as it should.                            *)
LEMMA CountedStep ==
  ASSUME PagingTypeOK, request \in Requests, NEW p \in Int, NEW d \in Visible, p < d,
         UpTo(d) = UpTo(p) \cup {d}, d \in allowed <=> d \in granted,
         Counted(scan, p), scan.scanned # MaxScanned, Ascending(scan.results),
         \A i \in 1..Len(scan.results) : scan.results[i] < d
  PROVE  Counted(Scanned(scan, d), d)
<1> DEFINE r == Scanned(scan, d)
<1>1. scan \in Scans /\ scan.results \in Seq(Document) /\ scan.hits \in Nat /\ Offset(request) \in Nat
      /\ d \in Document /\ Len(scan.results) \in Nat
  BY OffsetIsNat, VisibleDocuments DEF PagingTypeOK, Scans
<1>2. CASE request.kind = "values"
  <2>1. scan.values = {ValueOf[e] : e \in UpTo(p) \cap granted}
    BY <1>2 DEF Counted
  <2>2. r.values = IF d \in granted THEN scan.values \cup {ValueOf[d]} ELSE scan.values
    BY <1>1, <1>2, ScannedIs
  <2>3. r.values = {ValueOf[e] : e \in UpTo(d) \cap granted}
    BY <2>1, <2>2, OneMore
  <2> QED  BY <1>2, <2>3 DEF Counted
<1>3. CASE request.kind = "page"
  <2> DEFINE Behind(q) == {e \in UpTo(q) \cap granted : Rank(e, Reachable) > Offset(request)}
  <2>1. /\ scan.hits = Cardinality(UpTo(p) \cap granted)
        /\ ToSet(scan.results) = Behind(p)
        /\ Len(scan.results) = IF scan.hits > Offset(request) THEN scan.hits - Offset(request) ELSE 0
    BY <1>3 DEF Counted
  <2>2. CASE d \notin granted
    <3>1. r.hits = scan.hits /\ r.results = scan.results
      BY <1>1, <1>3, <2>2, ScannedIs
    <3>2. UpTo(d) \cap granted = UpTo(p) \cap granted
      BY <2>2, OneMore
    <3> QED  BY <1>3, <2>1, <3>1, <3>2 DEF Counted
  <2>3. CASE d \in granted
    <3>1. /\ UpTo(d) \cap granted = (UpTo(p) \cap granted) \cup {d}
          /\ Cardinality(UpTo(d) \cap granted) = scan.hits + 1
          /\ Rank(d, Reachable) = scan.hits + 1
      BY <2>1, <2>3, OneMore
    <3>2. r.hits = scan.hits + 1
      BY <1>1, <1>3, <2>3, ScannedIs
    <3>3. CASE scan.hits < Offset(request)
      <4>1. r.results = scan.results
        BY <1>1, <1>3, <2>3, <3>3, ScannedIs
      <4>2. ~(Rank(d, Reachable) > Offset(request))
        BY <1>1, <3>1, <3>3
      <4>3. Behind(d) = Behind(p)
        BY <3>1, <4>2
      <4>4. Len(r.results) = IF r.hits > Offset(request) THEN r.hits - Offset(request) ELSE 0
        BY <1>1, <2>1, <3>2, <3>3, <4>1
      <4> QED  BY <1>3, <2>1, <3>1, <3>2, <4>1, <4>3, <4>4 DEF Counted
    <3>4. CASE ~(scan.hits < Offset(request))
      <4>1. r.results = Append(scan.results, d)
        BY <1>1, <1>3, <2>3, <3>4, ScannedIs
      <4>2. Rank(d, Reachable) > Offset(request)
        BY <1>1, <3>1, <3>4
      <4>3. Behind(d) = Behind(p) \cup {d}
        BY <3>1, <4>2
      <4>4. ToSet(r.results) = Behind(p) \cup {d} /\ Len(r.results) = Len(scan.results) + 1
        BY <1>1, <2>1, <4>1, AppendAscends
      <4>5. Len(r.results) = IF r.hits > Offset(request) THEN r.hits - Offset(request) ELSE 0
        BY <1>1, <2>1, <3>2, <3>4, <4>4
      <4> QED  BY <1>3, <2>1, <3>1, <3>2, <4>3, <4>4, <4>5 DEF Counted
    <3> QED  BY <3>3, <3>4
  <2> QED  BY <2>2, <2>3
<1>4. CASE request.kind = "walk"
  BY <1>4 DEF Counted
<1> QED  BY <1>2, <1>3, <1>4, OffsetIsNat

(* Where a loop ends that has counted right: at the end of the index, at   *)
(* the bound on hits looked at, or with as many results as are asked for.  *)
LEMMA PageIsSlice ==
  ASSUME PagingTypeOK, request \in Requests, request.kind = "page", NEW p \in Int, NEW s \in Scans,
         Counted(s, p), Cardinality(UpTo(p)) <= MaxScanned, Len(s.results) <= Limit,
         \/ UpTo(p) = Visible
         \/ Cardinality(UpTo(p)) = MaxScanned
         \/ Len(s.results) = Limit
  PROVE  ToSet(s.results) = Slice((request.number - 1) * Limit)
<1> DEFINE off == Offset(request)
           mine == UpTo(p) \cap granted
<1>1. /\ off \in Nat /\ off = (request.number - 1) * Limit
      /\ s.hits = Cardinality(mine) /\ s.hits \in Nat /\ Len(s.results) \in Nat
      /\ ToSet(s.results) = {d \in mine : Rank(d, Reachable) > off}
      /\ Len(s.results) = IF s.hits > off THEN s.hits - off ELSE 0
  BY OffsetIsNat DEF Counted, Scans
<1>2. /\ Visible \subseteq Document /\ Reachable \subseteq Document /\ UpTo(p) \subseteq Document
      /\ UpTo(p) \subseteq Visible /\ mine \subseteq Document
      /\ \A d \in Visible : d \in Int
  BY VisibleDocuments, DocumentsFinite DEF UpTo
<1>3. s.hits <= off + Limit
  BY <1>1, PagingBounds
<1>4. ASSUME NEW d \in UpTo(p)
      PROVE  Rank(d, Visible) <= MaxScanned /\ Rank(d, Visible) \in Nat
  <2>1. {e \in Visible : e <= d} \subseteq UpTo(p)
    <3> SUFFICES ASSUME NEW e \in Visible, e <= d
                 PROVE  e <= p
      BY DEF UpTo
    <3>1. e \in Int /\ d \in Int /\ d <= p
      BY <1>2 DEF UpTo
    <3> QED  BY <3>1
  <2>2. Rank(d, Visible) <= Cardinality(UpTo(p)) /\ Rank(d, Visible) \in Nat /\ Cardinality(UpTo(p)) \in Nat
    BY <2>1, <1>2, SmallerCount DEF Rank
  <2> QED  BY <2>2, PagingBounds
<1>5. ASSUME NEW d \in mine
      PROVE  Rank(d, Reachable) <= s.hits /\ Rank(d, Reachable) \in Nat
  <2>1. {e \in Reachable : e <= d} \subseteq mine
    <3> SUFFICES ASSUME NEW e \in Reachable, e <= d
                 PROVE  e \in mine
      OBVIOUS
    <3>1. e \in Visible /\ e \in granted /\ e \in Int /\ d \in Int /\ d <= p
      BY <1>2, VisibleDocuments DEF UpTo
    <3>2. e <= p
      BY <3>1
    <3> QED  BY <3>1, <3>2 DEF UpTo
  <2> HIDE DEF mine
  <2> QED  BY <2>1, <1>1, <1>2, SmallerCount DEF Rank
<1>6. ASSUME NEW d \in Visible, d \notin UpTo(p)
      PROVE  /\ Rank(d, Visible) > Cardinality(UpTo(p)) /\ Cardinality(UpTo(p)) \in Nat
             /\ Rank(d, Visible) \in Nat
             /\ d \in granted => Rank(d, Reachable) > s.hits /\ Rank(d, Reachable) \in Nat
  <2>1. d \in Int /\ p < d /\ d \in Document
    <3>1. d \in Int /\ ~(d <= p)
      BY <1>2, <1>6 DEF UpTo
    <3> QED  BY <3>1, <1>2
  <2>2. \A e \in UpTo(p) : e <= d /\ e \in Visible
    <3> SUFFICES ASSUME NEW e \in UpTo(p)
                 PROVE  e <= d /\ e \in Visible
      OBVIOUS
    <3>1. e \in Int /\ e <= p /\ e \in Visible
      BY <1>2 DEF UpTo
    <3> QED  BY <3>1, <2>1
  <2>3. d <= d
    BY <2>1
  <2>4. /\ UpTo(p) \subseteq {e \in Visible : e <= d} /\ d \in {e \in Visible : e <= d}
        /\ {e \in Visible : e <= d} \subseteq Document
    BY <2>2, <2>3, <1>2
  <2>5. /\ Cardinality(UpTo(p)) < Cardinality({e \in Visible : e <= d})
        /\ Cardinality(UpTo(p)) \in Nat /\ Cardinality({e \in Visible : e <= d}) \in Nat
    BY <2>4, <1>6, SmallerCount
  <2>6. ASSUME d \in granted
        PROVE  Rank(d, Reachable) > s.hits /\ Rank(d, Reachable) \in Nat
    <3>1. \A e \in mine : e \in Reachable /\ e <= d
      BY <2>2, VisibleDocuments
    <3>2. d \in Reachable /\ d \notin mine
      BY <2>6, <1>6, VisibleDocuments
    <3>3. /\ mine \subseteq {e \in Reachable : e <= d} /\ d \in {e \in Reachable : e <= d}
          /\ {e \in Reachable : e <= d} \subseteq Document
      BY <3>1, <3>2, <2>3, <1>2
    <3> HIDE DEF mine
    <3>4. /\ Cardinality(mine) < Cardinality({e \in Reachable : e <= d})
          /\ Cardinality(mine) \in Nat /\ Cardinality({e \in Reachable : e <= d}) \in Nat
      BY <3>2, <3>3, SmallerCount
    <3> QED  BY <3>4, <1>1 DEF Rank
  <2> QED  BY <2>5, <2>6 DEF Rank
<1>7. ASSUME NEW d \in mine, Rank(d, Reachable) > off
      PROVE  d \in Slice(off)
  <2>1. d \in LookedAt
    BY <1>2, <1>4 DEF LookedAt
  <2>2. Rank(d, Reachable) \in (off + 1)..(off + Limit)
    <3>1. Rank(d, Reachable) <= s.hits /\ Rank(d, Reachable) \in Nat
      BY <1>5
    <3> HIDE DEF off
    <3> QED  BY <3>1, <1>1, <1>3, <1>7, PagingBounds
  <2> QED  BY <2>1, <2>2 DEF Slice
<1>8. ASSUME NEW d \in Slice(off)
      PROVE  d \in mine /\ Rank(d, Reachable) > off
  <2>1. /\ d \in Visible /\ d \in granted /\ Rank(d, Visible) <= MaxScanned
        /\ Rank(d, Reachable) > off /\ Rank(d, Reachable) <= off + Limit
    BY <1>1, PagingBounds DEF Slice, LookedAt
  <2>2. d \in UpTo(p)
    <3> SUFFICES ASSUME d \notin UpTo(p) PROVE FALSE
      OBVIOUS
    <3>1. Rank(d, Visible) > Cardinality(UpTo(p)) /\ Cardinality(UpTo(p)) \in Nat
          /\ Rank(d, Visible) \in Nat /\ Rank(d, Reachable) > s.hits /\ Rank(d, Reachable) \in Nat
      BY <2>1, <1>6
    <3>2. Len(s.results) = Limit => s.hits = off + Limit
      BY <1>1, PagingBounds
    <3> HIDE DEF off
    <3> QED  BY <3>1, <3>2, <2>1, <1>1, PagingBounds
  <2> QED  BY <2>1, <2>2
<1> QED  BY <1>1, <1>7, <1>8

LEMMA ValuesAreFirst ==
  ASSUME PagingTypeOK, request.kind = "values", NEW p \in Int, NEW s \in Scans,
         Counted(s, p), Cardinality(UpTo(p)) <= MaxScanned, Cardinality(s.values) <= Limit,
         \/ UpTo(p) = Visible
         \/ Cardinality(UpTo(p)) = MaxScanned
         \/ Cardinality(s.values) = Limit
  PROVE  s.values = FirstValues
<1> DEFINE mine == UpTo(p) \cap granted
<1>1. s.values = {ValueOf[d] : d \in mine}
  BY DEF Counted
<1>2. /\ Visible \subseteq Document /\ UpTo(p) \subseteq Document /\ UpTo(p) \subseteq Visible
      /\ \A d \in Visible : d \in Int
  BY VisibleDocuments, DocumentsFinite DEF UpTo
<1>3. ASSUME NEW d \in UpTo(p)
      PROVE  d \in LookedAt
  <2>1. {e \in Visible : e <= d} \subseteq UpTo(p)
    <3> SUFFICES ASSUME NEW e \in Visible, e <= d
                 PROVE  e <= p
      BY DEF UpTo
    <3>1. e \in Int /\ d \in Int /\ d <= p
      BY <1>2 DEF UpTo
    <3> QED  BY <3>1
  <2>2. Rank(d, Visible) <= Cardinality(UpTo(p)) /\ Rank(d, Visible) \in Nat /\ Cardinality(UpTo(p)) \in Nat
    BY <2>1, <1>2, SmallerCount DEF Rank
  <2>3. Rank(d, Visible) <= MaxScanned
    BY <2>2, PagingBounds
  <2> QED  BY <2>3, <1>2 DEF LookedAt
<1>4. ASSUME NEW d \in Visible, d \notin UpTo(p)
      PROVE  /\ Rank(d, Visible) > Cardinality(UpTo(p)) /\ Cardinality(UpTo(p)) \in Nat
             /\ Rank(d, Visible) \in Nat
             /\ \A e \in UpTo(p) : e <= d
  <2>1. d \in Int /\ p < d /\ d \in Document
    <3>1. d \in Int /\ ~(d <= p)
      BY <1>2, <1>4 DEF UpTo
    <3> QED  BY <3>1, <1>2
  <2>2. \A e \in UpTo(p) : e <= d /\ e \in Visible
    <3> SUFFICES ASSUME NEW e \in UpTo(p)
                 PROVE  e <= d /\ e \in Visible
      OBVIOUS
    <3>1. e \in Int /\ e <= p /\ e \in Visible
      BY <1>2 DEF UpTo
    <3> QED  BY <3>1, <2>1
  <2>3. d <= d
    BY <2>1
  <2>4. /\ UpTo(p) \subseteq {e \in Visible : e <= d} /\ d \in {e \in Visible : e <= d}
        /\ {e \in Visible : e <= d} \subseteq Document
    BY <2>2, <2>3, <1>2
  <2>5. /\ Cardinality(UpTo(p)) < Cardinality({e \in Visible : e <= d})
        /\ Cardinality(UpTo(p)) \in Nat /\ Cardinality({e \in Visible : e <= d}) \in Nat
    BY <2>4, <1>4, SmallerCount
  <2> QED  BY <2>2, <2>5 DEF Rank
<1>5. LookedAt \subseteq Visible
  BY DEF LookedAt
<1>6. \A d : IsFiniteSet(ValuesUpTo(d)) /\ Cardinality(ValuesUpTo(d)) \in Nat
  <2> TAKE d
  <2>1. ValuesUpTo(d) \subseteq Value
    BY <1>2, <1>5 DEF ValuesUpTo, Value
  <2> QED  BY <2>1, ValuesFinite
<1>7. IsFiniteSet(s.values) /\ Cardinality(s.values) \in Nat
  <2>1. s.values \subseteq Value
    BY DEF Scans
  <2> QED  BY <2>1, ValuesFinite
<1>8. ASSUME NEW d \in mine
      PROVE  ValueOf[d] \in FirstValues
  <2>1. d \in LookedAt \cap granted
    BY <1>3
  <2>2. ValuesUpTo(d) \subseteq s.values
    <3> SUFFICES ASSUME NEW e \in LookedAt \cap granted, e <= d
                 PROVE  e \in mine
      BY <1>1 DEF ValuesUpTo
    <3>1. e \in Visible /\ e \in Int /\ d \in Int /\ d <= p
      BY <1>2, <1>5 DEF UpTo
    <3>2. e <= p
      BY <3>1
    <3> QED  BY <3>1, <3>2 DEF UpTo
  <2>3. Cardinality(ValuesUpTo(d)) <= Cardinality(s.values)
    BY <2>2, <1>7, FS_Subset
  <2>4. Cardinality(ValuesUpTo(d)) <= Limit
    BY <2>3, <1>6, <1>7, PagingBounds
  <2> QED  BY <2>1, <2>4 DEF FirstValues
<1>9. ASSUME NEW d \in LookedAt \cap granted, Cardinality(ValuesUpTo(d)) <= Limit
      PROVE  ValueOf[d] \in s.values
  <2>1. d \in Visible /\ Rank(d, Visible) <= MaxScanned
    BY DEF LookedAt
  <2>2. CASE d \in UpTo(p)
    BY <2>2, <1>1
  <2>3. CASE d \notin UpTo(p)
    <3>1. /\ Rank(d, Visible) > Cardinality(UpTo(p)) /\ Cardinality(UpTo(p)) \in Nat
          /\ Rank(d, Visible) \in Nat /\ \A e \in UpTo(p) : e <= d
      BY <2>1, <2>3, <1>4
    <3>2. Cardinality(s.values) = Limit
      BY <3>1, <2>1, <2>3, PagingBounds
    <3>3. s.values \subseteq ValuesUpTo(d)
      BY <1>1, <1>3, <3>1 DEF ValuesUpTo
    <3>4. Cardinality(s.values) <= Cardinality(ValuesUpTo(d))
          /\ (Cardinality(ValuesUpTo(d)) = Cardinality(s.values) => ValuesUpTo(d) = s.values)
      BY <3>3, <1>6, FS_Subset
    <3>5. ValuesUpTo(d) = s.values
      BY <3>2, <3>4, <1>6, <1>9, PagingBounds
    <3>6. d \in Int
      BY <2>1, <1>2
    <3>7. d <= d
      BY <3>6
    <3>8. ValueOf[d] \in ValuesUpTo(d)
      BY <3>7 DEF ValuesUpTo
    <3> QED  BY <3>5, <3>8
  <2> QED  BY <2>2, <2>3
<1>10. FirstValues \subseteq s.values
  BY <1>9 DEF FirstValues
<1>11. s.values \subseteq FirstValues
  BY <1>1, <1>8
<1> QED  BY <1>10, <1>11

-----------------------------------------------------------------------------
(* The end of a request keeps a walk in order and complete.                *)
LEMMA AnswerKeepsWalk ==
  ASSUME PagingTypeOK, ShownInOrder, NoneLeftBehind, steady' = steady, whole' => whole,
         stage # "idle", cursor >= 0, NEW s \in Scans, NEW exhausted \in BOOLEAN, Answer(s, exhausted),
         s.last = 0 \/ cursor < s.last, Ascending(s.results),
         request.kind = "walk" =>
           /\ \A i \in 1..Len(s.results) : cursor < s.results[i] /\ s.results[i] <= s.last
           /\ exhausted \/ s.last # 0
           /\ whole' => \A d \in steady : exhausted \/ d <= s.last => d \in ToSet(shown) \cup ToSet(s.results)
  PROVE  /\ cursor' \in -1..Documents /\ shown' \in Seq(Document)
         /\ ShownInOrder' /\ NoneLeftBehind'
<1>1. /\ stage' = "idle" /\ cursor \in -1..Documents /\ cursor \in Int /\ shown \in Seq(Document)
      /\ s.last \in 0..Documents /\ s.last \in Int /\ s.results \in Seq(Document)
      /\ Documents \in Nat
  BY PagingBounds DEF Answer, PagingTypeOK, Scans
<1>2. CASE request.kind # "walk"
  <2>1. shown' = shown /\ cursor' = cursor
    BY <1>2 DEF Answer
  <2> QED  BY <1>1, <2>1 DEF ShownInOrder, NoneLeftBehind, Ascending
<1>3. CASE request.kind = "walk"
  <2>1. shown' = shown \o s.results /\ cursor' = IF exhausted \/ s.last = 0 THEN -1 ELSE s.last
    BY <1>3 DEF Answer
  <2>2. /\ Ascending(shown) /\ \A i \in 1..Len(shown) : shown[i] <= cursor
    BY DEF ShownInOrder
  <2>3. /\ shown' \in Seq(Document) /\ Ascending(shown')
        /\ ToSet(shown') = ToSet(shown) \cup ToSet(s.results)
        /\ \A i \in 1..Len(shown') : \/ i <= Len(shown) /\ shown'[i] = shown[i]
                                     \/ /\ i > Len(shown) /\ i - Len(shown) \in 1..Len(s.results)
                                        /\ shown'[i] = s.results[i - Len(shown)]
    BY <1>1, <1>3, <2>1, <2>2, ConcatAscends
  <2>4. \A x \in Document : x \in Int /\ x >= 1
    BY DocumentsFinite
  <2>5. ASSUME cursor' >= 0, NEW i \in 1..Len(shown')
        PROVE  shown'[i] <= cursor'
    <3>1. cursor' = s.last /\ cursor < s.last
      BY <1>1, <2>1, <2>5
    <3>2. CASE i <= Len(shown) /\ shown'[i] = shown[i]
      <4>1. i \in 1..Len(shown) /\ shown[i] \in Document
        BY <1>1, <3>2, <2>3
      <4>2. shown[i] \in Int /\ shown[i] <= cursor
        BY <4>1, <2>2, <2>4
      <4> QED  BY <4>2, <3>1, <3>2, <1>1
    <3>3. CASE i - Len(shown) \in 1..Len(s.results) /\ shown'[i] = s.results[i - Len(shown)]
      BY <3>1, <3>3, <1>3
    <3> QED  BY <2>3, <3>2, <3>3
  <2>6. ASSUME whole', NEW d \in steady, cursor' = -1 \/ d <= cursor'
        PROVE  d \in ToSet(shown')
    <3>1. exhausted \/ d <= s.last
      BY <1>1, <1>3, <2>1, <2>6
    <3> QED  BY <3>1, <2>3, <2>6, <1>3
  <2>7. cursor' \in -1..Documents
    BY <1>1, <2>1
  <2>8. ShownInOrder'
    BY <2>3, <2>5 DEF ShownInOrder, Ascending
  <2>9. NoneLeftBehind'
    BY <1>1, <2>6 DEF NoneLeftBehind
  <2> QED  BY <2>3, <2>7, <2>8, <2>9
<1> QED  BY <1>2, <1>3

-----------------------------------------------------------------------------
LEMMA PagingInvInit == PagingInit => PagingInv
<1> SUFFICES ASSUME PagingInit PROVE PagingInv
  OBVIOUS
<1>1. NoScan \in Scans /\ NoScan.results = <<>>
  BY EmptyAscends, PagingBounds DEF NoScan, Scans
<1>2. PagingTypeOK
  <2>1. 0 \in -1..Documents /\ 0 \in 0..Documents /\ 0 \in 0..MaxEdits /\ 0 \in 0..MaxMishaps
    BY PagingBounds
  <2> QED  BY <1>1, <2>1, EmptyAscends DEF PagingInit, PagingTypeOK
<1>3. WalkInv
  BY <1>1, EmptyAscends DEF PagingInit, WalkInv, SteadyFound, ShownInOrder, ResultsInOrder, NoneLeftBehind, Reachable
<1> QED  BY <1>2, <1>3 DEF PagingInit, PagingInv, RequestRuns, PageAhead, NothingSkipped, CountsMatch,
      AnswersMatchTheIndex, NoRequest

(* What stays as it is while the backends do.                              *)
LEMMA BackendsKept ==
  ASSUME UNCHANGED backendVars
  PROVE  /\ index' = index /\ access' = access /\ granted' = granted
         /\ Visible' = Visible /\ Reachable' = Reachable /\ LookedAt' = LookedAt
         /\ \A d : Rank(d, Reachable)' = Rank(d, Reachable)
         /\ \A n : Slice(n)' = Slice(n)
         /\ FirstValues' = FirstValues
         /\ \A p : UpTo(p)' = UpTo(p)
<1>1. index' = index /\ access' = access /\ granted' = granted
  BY DEF backendVars
<1>2. Visible' = Visible /\ Reachable' = Reachable
  BY <1>1 DEF Visible, Reachable
<1>3. LookedAt' = LookedAt
  BY <1>2 DEF LookedAt, Rank
<1>4. \A d : Rank(d, Reachable)' = Rank(d, Reachable)
  BY <1>2 DEF Rank
<1>5. \A n : Slice(n)' = Slice(n)
  BY <1>1, <1>2, <1>3 DEF Slice, Rank
<1>6. FirstValues' = FirstValues
  BY <1>1, <1>3 DEF FirstValues, ValuesUpTo
<1>7. \A p : UpTo(p)' = UpTo(p)
  BY <1>2 DEF UpTo
<1> QED  BY <1>1, <1>2, <1>3, <1>4, <1>5, <1>6, <1>7

LEMMA CountedKept ==
  ASSUME UNCHANGED backendVars, request' = request
  PROVE  Counted(scan, Position)' <=> Counted(scan', Position')
<1>1. Offset(request)' = Offset(request)
  BY DEF Offset
<1> QED  BY <1>1, BackendsKept DEF Counted, Rank, UpTo, Visible, Reachable, Offset, backendVars

LEMMA AskInv ==
  ASSUME PagingInv, NEW r \in Requests, Ask(r)
  PROVE  PagingInv'
<1>1. /\ PagingTypeOK /\ stage = "idle" /\ page = {} /\ todo = {} /\ allowed = {} /\ cursor \in -1..Documents
      /\ UNCHANGED <<backendVars, edits, mishaps, pageVars, shown>>
      /\ request' = r /\ scope' = access /\ scan' = NoScan
      /\ ShownInOrder /\ NoneLeftBehind /\ steady \subseteq Reachable
  BY DEF PagingInv, PageAhead, Ask, PagingTypeOK, WalkInv, SteadyFound
<1>2. /\ cursor >= 0 /\ (r.kind # "walk" => cursor = 0) /\ cursor \in 0..Documents
      /\ (r.kind = "walk" => after' = cursor) /\ (r.kind # "walk" => after' = 0)
  BY <1>1, PagingBounds DEF Ask
<1>3. /\ NoScan \in Scans /\ NoScan.scanned = 0 /\ NoScan.last = 0 /\ NoScan.hits = 0
      /\ NoScan.results = <<>> /\ NoScan.values = {} /\ NoScan.stop = FALSE
  BY EmptyAscends, PagingBounds DEF NoScan, Scans
<1>4. /\ Visible' = Visible /\ Reachable' = Reachable /\ index' = index /\ access' = access
      /\ granted' = granted /\ page' = {} /\ todo' = {} /\ allowed' = {} /\ shown' = shown
  BY <1>1, BackendsKept DEF pageVars
<1>5. /\ steady' \subseteq Reachable /\ steady' \subseteq Document /\ whole' \in BOOLEAN
      /\ r.kind = "walk" /\ cursor > 0 => steady' = steady /\ whole' = whole
  BY <1>1, VisibleDocuments DEF Ask, PagingTypeOK
<1>6. /\ stage' \in {"idle", "query"} /\ cursor' \in -1..Documents
      /\ stage' = "query" => cursor' = cursor
      /\ stage' = "idle" => access = {} /\ (cursor' = cursor \/ (r.kind = "walk" /\ cursor' = -1))
  BY <1>1, <1>2, PagingBounds DEF Ask
<1>7. PagingTypeOK'
  BY <1>1, <1>2, <1>3, <1>4, <1>5, <1>6, PagingBounds DEF PagingTypeOK, Ask
<1>8. RequestRuns'
  BY <1>1, <1>2, <1>3, <1>6, EmptyAscends, FS_EmptySet, PagingBounds DEF RequestRuns
<1>9. stage' = "query" => Position' = cursor /\ after' = cursor
  BY <1>1, <1>2, <1>3, <1>6 DEF Position
<1>10. PageAhead' /\ NothingSkipped'
  BY <1>4, <1>6, <1>9 DEF PageAhead, NothingSkipped
<1>11. SteadyFound'
  BY <1>1, <1>4, <1>5, <1>6 DEF SteadyFound, Reachable, Visible
<1>12. ShownInOrder' /\ ResultsInOrder'
  <2>1. cursor' >= 0 => cursor' = cursor
    BY <1>6
  <2>2. ShownInOrder'
    BY <1>1, <1>4, <2>1 DEF ShownInOrder, Ascending
  <2>3. ResultsInOrder'
    BY <1>1, <1>3, EmptyAscends DEF ResultsInOrder, Ascending
  <2> QED  BY <2>2, <2>3
<1>13. NoneLeftBehind'
  <2>1. \A d \in steady' : d \in Int /\ d >= 1
    BY <1>5, DocumentsFinite
  <2>2. access = {} => steady' = {}
    BY <1>5 DEF Reachable, Visible
  <2>3. ASSUME whole', NEW d \in steady', cursor' = -1 \/ d <= cursor'
        PROVE  d \in ToSet(shown)
    <3>1. access # {} /\ cursor' = cursor
      BY <2>2, <2>3, <1>2, <1>6
    <3>2. d <= cursor /\ cursor > 0
      BY <2>1, <2>3, <3>1, <1>2
    <3>3. r.kind = "walk"
      BY <3>2, <1>2
    <3> QED  BY <3>2, <3>3, <2>3, <1>1, <1>5 DEF NoneLeftBehind
  <2>4. stage' # "idle" => Position' = cursor' /\ cursor' >= 0
    BY <1>2, <1>6, <1>9
  <2> QED  BY <2>3, <2>4, <1>4, <1>6 DEF NoneLeftBehind
<1>14. CountsMatch'
  <2> SUFFICES ASSUME stage' = "query", r.kind # "walk"
               PROVE  /\ scan'.scanned = Cardinality(UpTo(Position)') /\ Counted(scan, Position)'
    BY <1>1, <1>4, <1>6 DEF CountsMatch
  <2>1. Position' = 0
    BY <1>2, <1>9
  <2>2. UpTo(Position)' = {}
    <3>1. \A d \in Visible : d \in Int /\ d >= 1
      BY <1>1, VisibleDocuments, DocumentsFinite
    <3> QED  BY <2>1, <3>1, <1>4 DEF UpTo
  <2>3. Cardinality({}) = 0
    BY FS_EmptySet
  <2>4. Offset(request)' \in Nat
    <3>1. request' \in Requests
      BY <1>1
    <3>2. (request \in Requests => Offset(request) \in Nat)'
      BY OffsetIsNat, PTL
    <3> QED  BY <3>1, <3>2
  <2> QED  BY <2>2, <2>3, <2>4, <1>1, <1>3, EmptyAscends DEF Counted
<1>15. AnswersMatchTheIndex'
  <2> SUFFICES ASSUME stage' = "idle"
               PROVE  /\ r.kind = "page" => /\ {} = Slice((r.number - 1) * Limit)'
                                           /\ \A i \in 1..Len(<<>>) - 1 : <<>>[i] < <<>>[i + 1]
                      /\ r.kind = "values" => {} = FirstValues'
    BY <1>1, <1>3, EmptyAscends DEF AnswersMatchTheIndex
  <2>1. Visible' = {}
    BY <1>4, <1>6 DEF Visible
  <2>2. LookedAt' = {}
    BY <2>1 DEF LookedAt
  <2> QED  BY <2>2, EmptyAscends DEF Slice, FirstValues
<1> QED  BY <1>7, <1>8, <1>10, <1>11, <1>12, <1>13, <1>14, <1>15 DEF PagingInv, WalkInv

LEMMA StartOverInv == PagingInv /\ StartOver => PagingInv'
<1> SUFFICES ASSUME PagingInv, StartOver PROVE PagingInv'
  OBVIOUS
<1>1. /\ stage = "idle" /\ stage' = "idle" /\ cursor' = 0 /\ shown' = <<>> /\ request' = NoRequest
      /\ UNCHANGED <<backendVars, edits, mishaps, stage, scope, after, pageVars, scan, steady, whole>>
  BY DEF StartOver, PagingInv
<1>2. PagingTypeOK'
  <2>1. 0 \in -1..Documents
    BY PagingBounds
  <2> QED  BY <1>1, <2>1, EmptyAscends DEF PagingInv, PagingTypeOK, backendVars, pageVars
<1>3. \A d \in steady : d \in Int /\ d >= 1
  BY DocumentsFinite DEF PagingInv, PagingTypeOK
<1>4. WalkInv'
  <2>1. SteadyFound' /\ ResultsInOrder'
    BY <1>1, BackendsKept DEF PagingInv, WalkInv, SteadyFound, ResultsInOrder, Ascending
  <2>2. ShownInOrder'
    BY <1>1, EmptyAscends DEF ShownInOrder, Ascending
  <2>3. NoneLeftBehind'
    BY <1>1, <1>3 DEF NoneLeftBehind
  <2> QED  BY <2>1, <2>2, <2>3 DEF WalkInv
<1>5. RequestRuns' /\ PageAhead' /\ NothingSkipped' /\ CountsMatch' /\ AnswersMatchTheIndex'
  BY <1>1 DEF PagingInv, RequestRuns, PageAhead, NothingSkipped, CountsMatch, AnswersMatchTheIndex,
     NoRequest, pageVars
<1> QED  BY <1>2, <1>4, <1>5 DEF PagingInv

LEMMA RequestFailsInv == PagingInv /\ RequestFails => PagingInv'
<1> SUFFICES ASSUME PagingInv, RequestFails PROVE PagingInv'
  OBVIOUS
<1>1. /\ stage # "idle" /\ stage' = "idle" /\ whole' = (whole /\ request.kind = "walk")
      /\ page' = {} /\ allowed' = {} /\ todo' = {} /\ mishaps' = mishaps + 1 /\ mishaps < MaxMishaps
      /\ UNCHANGED <<backendVars, edits, requestVars, scan, cursor, shown, steady>>
  BY DEF RequestFails, NoPage
<1>2. PagingTypeOK'
  <2>1. mishaps' \in 0..MaxMishaps
    BY <1>1, PagingBounds DEF PagingInv, PagingTypeOK
  <2>2. whole' \in BOOLEAN
    BY <1>1 DEF PagingInv, PagingTypeOK
  <2> QED  BY <1>1, <2>1, <2>2 DEF PagingInv, PagingTypeOK, backendVars, requestVars
<1>3. WalkInv'
  <2>1. SteadyFound' /\ ResultsInOrder'
    BY <1>1, BackendsKept DEF PagingInv, WalkInv, SteadyFound, ResultsInOrder, Ascending
  <2>2. ShownInOrder'
    BY <1>1 DEF PagingInv, WalkInv, ShownInOrder, Ascending
  <2>3. NoneLeftBehind'
    BY <1>1 DEF PagingInv, WalkInv, NoneLeftBehind
  <2> QED  BY <2>1, <2>2, <2>3 DEF WalkInv
<1>4. RequestRuns' /\ PageAhead' /\ NothingSkipped' /\ CountsMatch' /\ AnswersMatchTheIndex'
  BY <1>1 DEF RequestRuns, PageAhead, NothingSkipped, CountsMatch, AnswersMatchTheIndex, requestVars
<1> QED  BY <1>2, <1>3, <1>4 DEF PagingInv

LEMMA EditInv == PagingInv /\ Edit => PagingInv'
<1> SUFFICES ASSUME PagingInv, Edit PROVE PagingInv'
  OBVIOUS
<1>1. /\ edits < MaxEdits /\ edits' = edits + 1 /\ steady' = steady \cap Reachable'
      /\ whole' = (whole /\ request.kind = "walk")
      /\ UNCHANGED <<mishaps, requestVars, stage, pageVars, scan, cursor, shown>>
  BY DEF Edit
<1>2. index' \subseteq Document /\ access' \subseteq AccountID /\ granted' \subseteq Document
  BY DEF Edit, PagingInv, PagingTypeOK, SymDiff
<1>3. PagingTypeOK'
  <2>1. edits' \in 0..MaxEdits
    BY <1>1, PagingBounds DEF PagingInv, PagingTypeOK
  <2>2. whole' \in BOOLEAN /\ steady' \subseteq Document
    BY <1>1 DEF PagingInv, PagingTypeOK
  <2> QED  BY <1>1, <1>2, <2>1, <2>2 DEF PagingInv, PagingTypeOK, requestVars, pageVars
<1>4. Position' = Position
  BY <1>1 DEF Position
<1>5. RequestRuns' /\ PageAhead'
  BY <1>1, <1>4 DEF PagingInv, RequestRuns, PageAhead, requestVars, pageVars
<1>6. NothingSkipped'
  BY <1>1, <1>4 DEF PagingInv, NothingSkipped, Expected, requestVars, pageVars
<1>7. WalkInv'
  <2>1. SteadyFound'
    BY <1>1 DEF PagingInv, WalkInv, SteadyFound, requestVars, pageVars
  <2>2. ResultsInOrder' /\ ShownInOrder'
    BY <1>1 DEF PagingInv, WalkInv, ResultsInOrder, ShownInOrder, Ascending
  <2>3. NoneLeftBehind'
    BY <1>1, <1>4 DEF PagingInv, WalkInv, NoneLeftBehind, requestVars
  <2> QED  BY <2>1, <2>2, <2>3 DEF WalkInv
<1>8. CountsMatch' /\ AnswersMatchTheIndex'
  BY <1>1 DEF CountsMatch, AnswersMatchTheIndex, requestVars
<1> QED  BY <1>3, <1>5, <1>6, <1>7, <1>8 DEF PagingInv

LEMMA CheckInv == PagingInv /\ Check => PagingInv'
<1> SUFFICES ASSUME PagingInv, Check PROVE PagingInv'
  OBVIOUS
<1>1. /\ stage = "check" /\ stage' = "scan" /\ allowed' = page \cap granted
      /\ UNCHANGED <<backendVars, edits, mishaps, requestVars, page, todo, scan, cursor, shown, steady, whole>>
  BY DEF Check
<1>2. PagingTypeOK'
  BY <1>1 DEF PagingInv, PagingTypeOK, backendVars, requestVars
<1>3. Position' = Position
  BY <1>1 DEF Position
<1>4. RequestRuns' /\ PageAhead'
  BY <1>1, <1>3 DEF PagingInv, RequestRuns, PageAhead, requestVars
<1>5. NothingSkipped'
  BY <1>1, <1>3, BackendsKept DEF PagingInv, NothingSkipped, Expected, requestVars
<1>6. WalkInv'
  <2>1. SteadyFound'
    <3>1. steady \subseteq granted /\ todo \subseteq page
      BY DEF PagingInv, WalkInv, SteadyFound, Reachable, PagingTypeOK
    <3> QED  BY <1>1, <3>1, BackendsKept DEF PagingInv, WalkInv, SteadyFound, requestVars
  <2>2. ResultsInOrder' /\ ShownInOrder'
    BY <1>1 DEF PagingInv, WalkInv, ResultsInOrder, ShownInOrder, Ascending
  <2>3. NoneLeftBehind'
    BY <1>1, <1>3 DEF PagingInv, WalkInv, NoneLeftBehind, requestVars
  <2> QED  BY <2>1, <2>2, <2>3 DEF WalkInv
<1>7. CountsMatch'
  <2> SUFFICES ASSUME whole, request.kind # "walk"
               PROVE  /\ scope = access /\ page \subseteq Visible
                      /\ scan.scanned = Cardinality(UpTo(Position))' /\ Counted(scan, Position)'
    BY <1>1, BackendsKept DEF CountsMatch, requestVars
  <2>1. /\ scope = access /\ page \subseteq Visible
        /\ scan.scanned = Cardinality(UpTo(Position)) /\ Counted(scan, Position)
    BY <1>1 DEF PagingInv, CountsMatch
  <2>2. Counted(scan, Position)'
    BY <2>1, <1>1, <1>3, CountedKept DEF requestVars
  <2>3. UpTo(Position)' = UpTo(Position)
    BY <1>1, <1>3, BackendsKept DEF UpTo
  <2> QED  BY <2>1, <2>2, <2>3
<1>8. AnswersMatchTheIndex'
  BY <1>1 DEF AnswersMatchTheIndex
<1> QED  BY <1>2, <1>4, <1>5, <1>6, <1>7, <1>8 DEF PagingInv

(* What the end of a request has to find for the invariant to hold.        *)
FinishedRight(s, exhausted) ==
  /\ s.last = 0 \/ cursor < s.last
  /\ Ascending(s.results)
  /\ request.kind = "walk" =>
       /\ \A i \in 1..Len(s.results) : cursor < s.results[i] /\ s.results[i] <= s.last
       /\ exhausted \/ s.last # 0
       /\ whole' => \A d \in steady : exhausted \/ d <= s.last => d \in ToSet(shown) \cup ToSet(s.results)
  /\ whole' /\ request.kind # "walk" =>
       \E p \in Int :
         /\ Counted(s, p) /\ Cardinality(UpTo(p)) <= MaxScanned
         /\ Len(s.results) <= Limit /\ Cardinality(s.values) <= Limit
         /\ \/ UpTo(p) = Visible
            \/ Cardinality(UpTo(p)) = MaxScanned
            \/ request.kind = "page" /\ Len(s.results) = Limit
            \/ request.kind = "values" /\ Cardinality(s.values) = Limit

LEMMA AnswerInv ==
  ASSUME PagingInv, stage # "idle", NEW s \in Scans, scan' = s, NEW exhausted \in BOOLEAN,
         Answer(s, exhausted), UNCHANGED <<backendVars, edits, requestVars, steady>>,
         mishaps' \in 0..MaxMishaps, whole' \in BOOLEAN, whole' => whole, FinishedRight(s, exhausted)
  PROVE  PagingInv'
<1>1. /\ PagingTypeOK /\ ShownInOrder /\ NoneLeftBehind /\ SteadyFound /\ cursor >= 0
      /\ request \in Requests /\ stage' = "idle" /\ page' = {} /\ allowed' = {} /\ todo' = {}
      /\ request' = request /\ steady' = steady
  BY DEF PagingInv, WalkInv, RequestRuns, Answer, NoPage, requestVars
<1>2. /\ cursor' \in -1..Documents /\ shown' \in Seq(Document)
      /\ ShownInOrder' /\ NoneLeftBehind'
  BY <1>1, AnswerKeepsWalk DEF FinishedRight
<1>3. PagingTypeOK'
  BY <1>1, <1>2 DEF PagingTypeOK, backendVars, requestVars
<1>4. RequestRuns' /\ PageAhead' /\ NothingSkipped' /\ CountsMatch'
  BY <1>1 DEF RequestRuns, PageAhead, NothingSkipped, CountsMatch
<1>5. SteadyFound' /\ ResultsInOrder'
  <2>1. SteadyFound'
    BY <1>1, BackendsKept DEF SteadyFound
  <2>2. ResultsInOrder'
    BY <1>1 DEF ResultsInOrder, FinishedRight, Ascending
  <2> QED  BY <2>1, <2>2
<1>6. AnswersMatchTheIndex'
  <2> SUFFICES ASSUME whole'
               PROVE  /\ request.kind = "page" =>
                           /\ ToSet(s.results) = Slice((request.number - 1) * Limit)
                           /\ \A i \in 1..Len(s.results) - 1 : s.results[i] < s.results[i + 1]
                      /\ request.kind = "values" => s.values = FirstValues
    BY <1>1, BackendsKept DEF AnswersMatchTheIndex
  <2>1. CASE request.kind # "walk"
    <3>1. PICK p \in Int :
            /\ Counted(s, p) /\ Cardinality(UpTo(p)) <= MaxScanned
            /\ Len(s.results) <= Limit /\ Cardinality(s.values) <= Limit
            /\ \/ UpTo(p) = Visible
               \/ Cardinality(UpTo(p)) = MaxScanned
               \/ request.kind = "page" /\ Len(s.results) = Limit
               \/ request.kind = "values" /\ Cardinality(s.values) = Limit
      BY <2>1 DEF FinishedRight
    <3>2. s.results \in Seq(Document) /\ Ascending(s.results)
      BY DEF Scans, FinishedRight
    <3>3. \A i \in 1..Len(s.results) - 1 : s.results[i] < s.results[i + 1]
      BY <3>2, AscendingSteps
    <3>4. request.kind = "page" => ToSet(s.results) = Slice((request.number - 1) * Limit)
      BY <3>1, <1>1, PageIsSlice
    <3>5. request.kind = "values" => s.values = FirstValues
      BY <3>1, <1>1, ValuesAreFirst
    <3> QED  BY <3>3, <3>4, <3>5
  <2> QED  BY <2>1
<1> QED  BY <1>2, <1>3, <1>4, <1>5, <1>6 DEF PagingInv, WalkInv

(* The end of the index: everything expected is behind the position.       *)
LEMMA ExhaustedRight ==
  ASSUME PagingInv, stage # "idle", whole' => whole,
         whole' => \A d \in Expected : d <= Position
  PROVE  FinishedRight(scan, TRUE)
<1>1. PagingTypeOK /\ RequestRuns /\ WalkInv /\ CountsMatch
  BY DEF PagingInv
<1>2. /\ scan.last = 0 \/ cursor < scan.last
      /\ scan.scanned <= MaxScanned /\ Len(scan.results) < Limit /\ Cardinality(scan.values) < Limit
  BY <1>1 DEF RequestRuns
<1>3. /\ Ascending(scan.results)
      /\ \A i \in 1..Len(scan.results) : cursor < scan.results[i] /\ scan.results[i] <= scan.last
  BY <1>1 DEF WalkInv, ResultsInOrder
<1>4. ASSUME request.kind = "walk", whole', NEW d \in steady
      PROVE  d \in ToSet(shown) \cup ToSet(scan.results)
  BY <1>1, <1>4 DEF WalkInv, NoneLeftBehind, Expected
<1>5. ASSUME whole', request.kind # "walk"
      PROVE  \E p \in Int :
               /\ Counted(scan, p) /\ Cardinality(UpTo(p)) <= MaxScanned
               /\ Len(scan.results) <= Limit /\ Cardinality(scan.values) <= Limit
               /\ UpTo(p) = Visible
  <2>1. Position \in Int
    BY <1>1, PagingBounds DEF Position, PagingTypeOK, Scans
  <2>2. Counted(scan, Position) /\ Cardinality(UpTo(Position)) <= MaxScanned
    BY <1>1, <1>2, <1>5 DEF CountsMatch
  <2>3. UpTo(Position) = Visible
    BY <1>5 DEF UpTo, Expected
  <2>4. Len(scan.results) \in Nat /\ Cardinality(scan.values) \in Nat
    <3>1. scan.results \in Seq(Document) /\ scan.values \subseteq Value
      BY <1>1 DEF PagingTypeOK, Scans
    <3> QED  BY <3>1, ValuesFinite
  <2>5. Len(scan.results) <= Limit /\ Cardinality(scan.values) <= Limit
    BY <2>4, <1>2, PagingBounds
  <2> QED  BY <2>1, <2>2, <2>3, <2>5
<1> QED  BY <1>2, <1>3, <1>4, <1>5 DEF FinishedRight

LEMMA PositionIs ==
  ASSUME PagingInv, stage # "idle"
  PROVE  /\ Position \in 0..Documents /\ Position \in Int /\ cursor <= Position
         /\ scan.last <= Position /\ scan.last \in Int /\ cursor \in Int
<1>1. /\ cursor \in -1..Documents /\ scan.last \in 0..Documents /\ cursor >= 0
      /\ scan.last = 0 \/ cursor < scan.last
  BY DEF PagingInv, PagingTypeOK, Scans, RequestRuns
<1> QED  BY <1>1, PagingBounds DEF Position

LEMMA QueryInv == PagingInv /\ Query => PagingInv'
<1> SUFFICES ASSUME PagingInv, Query PROVE PagingInv'
  OBVIOUS
<1>1. PICK lost \in SUBSET index :
        LET hits == FirstBatch(Matching(index \ lost, after)) IN
        /\ lost # {} => mishaps < MaxMishaps
        /\ mishaps' = IF lost = {} THEN mishaps ELSE mishaps + 1
        /\ whole' = (whole /\ lost = {})
        /\ IF hits = {}
           THEN Answer(scan, TRUE)
           ELSE /\ stage' = "check" /\ page' = hits /\ todo' = hits
                /\ UNCHANGED <<allowed, shown, cursor>>
  BY DEF Query
<1> DEFINE found == Matching(index \ lost, after)
           hits == FirstBatch(found)
<1>2. /\ stage = "query" /\ PagingTypeOK /\ after = Position /\ page = {} /\ todo = {} /\ allowed = {}
      /\ UNCHANGED <<backendVars, edits, requestVars, scan, steady>>
  BY DEF Query, PagingInv, PageAhead, PagingTypeOK
<1>3. mishaps' \in 0..MaxMishaps /\ whole' \in BOOLEAN /\ (whole' => whole /\ lost = {})
  <2>1. /\ lost # {} => mishaps < MaxMishaps
        /\ mishaps' = IF lost = {} THEN mishaps ELSE mishaps + 1
    BY <1>1
  <2>2. whole' = (whole /\ lost = {})
    BY <1>1
  <2>3. mishaps \in 0..MaxMishaps /\ whole \in BOOLEAN
    BY <1>2 DEF PagingTypeOK
  <2>4. mishaps' \in 0..MaxMishaps
    BY <2>1, <2>3, PagingBounds
  <2> QED  BY <2>2, <2>3, <2>4
<1>4. found \subseteq Document /\ \A d \in found : AccountOf[d] \in scope /\ d > Position /\ d \in index
  BY <1>2 DEF Matching, PagingTypeOK
<1>5. ASSUME whole', NEW d \in Expected, d > Position
      PROVE  d \in found
  <2>1. lost = {} /\ whole
    BY <1>3, <1>5
  <2>2. d \in index /\ AccountOf[d] \in scope
    <3>1. CASE request.kind = "walk"
      BY <3>1, <1>2, <1>5 DEF Expected, PagingInv, WalkInv, SteadyFound, Reachable, Visible
    <3>2. CASE request.kind # "walk"
      <4>1. scope = access
        BY <3>2, <1>2, <2>1 DEF PagingInv, CountsMatch
      <4> QED  BY <4>1, <3>2, <1>5 DEF Expected, Visible
    <3> QED  BY <3>1, <3>2
  <2> QED  BY <2>1, <2>2, <1>2, <1>5 DEF Matching
<1>6. /\ hits \subseteq found /\ (found # {} => hits # {})
      /\ \A d \in found \ hits : Cardinality(hits) >= BatchSize /\ \A e \in hits : e < d
  <2> HIDE DEF found
  <2> QED  BY <1>4, BatchTakesFirst
<1>7. CASE hits = {}
  <2>1. Answer(scan, TRUE)
    BY <1>1, <1>7
  <2>2. Expected \subseteq Document
    BY <1>2, VisibleDocuments DEF Expected, PagingTypeOK
  <2>3. whole' => \A d \in Expected : d <= Position
    <3> SUFFICES ASSUME whole', NEW d \in Expected PROVE d <= Position
      OBVIOUS
    <3>1. ~(d > Position)
      BY <1>5, <1>6, <1>7
    <3>2. d \in Int /\ Position \in Int
      BY <2>2, <1>2, DocumentsFinite, PositionIs
    <3> QED  BY <3>1, <3>2
  <2>4. FinishedRight(scan, TRUE)
    BY <1>2, <1>3, <2>3, ExhaustedRight
  <2>5. scan \in Scans /\ scan' = scan
    BY <1>2 DEF PagingTypeOK
  <2> QED  BY <2>1, <2>4, <2>5, <1>2, <1>3, AnswerInv
<1>8. CASE hits # {}
  <2>1. /\ stage' = "check" /\ page' = hits /\ todo' = hits
        /\ allowed' = {} /\ shown' = shown /\ cursor' = cursor
        /\ request' = request /\ scope' = scope /\ after' = after /\ scan' = scan /\ steady' = steady
    BY <1>1, <1>2, <1>8 DEF requestVars
  <2>2. Position' = Position
    BY <2>1 DEF Position
  <2>3. PagingTypeOK'
    BY <1>2, <1>3, <1>4, <1>6, <2>1 DEF PagingTypeOK, backendVars
  <2>4. RequestRuns'
    BY <1>2, <2>1 DEF PagingInv, RequestRuns
  <2>5. PageAhead'
    BY <1>2, <1>4, <1>6, <1>8, <2>1, <2>2 DEF PageAhead
  <2>6. NothingSkipped'
    <3>1. Expected' = Expected
      BY <1>2, <2>1, BackendsKept DEF Expected
    <3> QED  BY <2>1, <2>2, <3>1, <1>5, <1>6 DEF NothingSkipped
  <2>7. WalkInv'
    <3>1. SteadyFound'
      BY <1>2, <2>1, BackendsKept DEF PagingInv, WalkInv, SteadyFound
    <3>2. ShownInOrder' /\ ResultsInOrder'
      BY <1>2, <2>1 DEF PagingInv, WalkInv, ShownInOrder, ResultsInOrder, Ascending
    <3>3. NoneLeftBehind'
      BY <1>2, <1>3, <2>1, <2>2 DEF PagingInv, WalkInv, NoneLeftBehind
    <3> QED  BY <3>1, <3>2, <3>3 DEF WalkInv
  <2>8. CountsMatch'
    <3> SUFFICES ASSUME whole', request.kind # "walk"
                 PROVE  /\ scope = access /\ hits \subseteq Visible
                        /\ scan.scanned = Cardinality(UpTo(Position))' /\ Counted(scan, Position)'
      BY <1>2, <2>1, BackendsKept DEF CountsMatch
    <3>1. /\ scope = access /\ scan.scanned = Cardinality(UpTo(Position)) /\ Counted(scan, Position)
      BY <1>2, <1>3 DEF PagingInv, CountsMatch
    <3>2. hits \subseteq Visible
      BY <1>4, <1>6, <3>1 DEF Visible
    <3>3. Counted(scan, Position)'
      BY <3>1, <1>2, <2>1, <2>2, CountedKept
    <3>4. UpTo(Position)' = UpTo(Position)
      BY <1>2, <2>2, BackendsKept DEF UpTo
    <3> QED  BY <3>1, <3>2, <3>3, <3>4
  <2>9. AnswersMatchTheIndex'
    BY <2>1 DEF AnswersMatchTheIndex
  <2> QED  BY <2>3, <2>4, <2>5, <2>6, <2>7, <2>8, <2>9 DEF PagingInv
<1> QED  BY <1>7, <1>8

LEMMA PageDoneInv == PagingInv /\ PageDone => PagingInv'
<1> SUFFICES ASSUME PagingInv, PageDone PROVE PagingInv'
  OBVIOUS
<1>1. /\ stage = "scan" /\ todo = {} /\ PagingTypeOK /\ request' = request /\ scope' = scope
      /\ UNCHANGED <<backendVars, edits, mishaps, request, scope, scan, steady, whole>>
  BY DEF PageDone, PagingInv
<1>2. /\ Position \in page /\ page \subseteq Document /\ Position \in Int
      /\ \A d \in page : d \in Int /\ d <= Position
  <2>1. Position \in page /\ page \subseteq Document /\ \A d \in page : ~(d > Position)
    BY <1>1 DEF PagingInv, PageAhead, PagingTypeOK
  <2> QED  BY <2>1, <1>1, DocumentsFinite, PositionIs
<1>3. CASE Cardinality(page) < BatchSize
  <2>1. Answer(scan, TRUE) /\ after' = after
    BY <1>1, <1>3 DEF PageDone
  <2>2. ~(Cardinality(page) >= BatchSize)
    <3>1. Cardinality(page) \in Nat
      BY <1>2, DocumentsFinite
    <3> QED  BY <3>1, <1>3, PagingBounds
  <2>3. Expected \subseteq Document
    BY <1>1, VisibleDocuments DEF Expected, PagingTypeOK
  <2>4. whole' => \A d \in Expected : d <= Position
    <3> SUFFICES ASSUME whole, NEW d \in Expected PROVE d <= Position
      BY <1>1
    <3>1. ~(d > Position)
      BY <1>1, <2>2 DEF PagingInv, NothingSkipped
    <3>2. d \in Int
      BY <2>3, DocumentsFinite
    <3> QED  BY <3>1, <3>2, <1>2
  <2>5. FinishedRight(scan, TRUE)
    BY <1>1, <2>4, ExhaustedRight
  <2>6. scan \in Scans /\ scan' = scan /\ mishaps' \in 0..MaxMishaps /\ whole' \in BOOLEAN
    BY <1>1 DEF PagingTypeOK
  <2>7. UNCHANGED <<backendVars, edits, requestVars, steady>>
    BY <1>1, <2>1 DEF requestVars
  <2> QED  BY <2>1, <2>5, <2>6, <2>7, <1>1, AnswerInv
<1>4. CASE ~(Cardinality(page) < BatchSize)
  <2>1. /\ stage' = "query" /\ after' = Max(page) /\ page' = {} /\ allowed' = {} /\ todo' = {}
        /\ shown' = shown /\ cursor' = cursor
    BY <1>1, <1>4 DEF PageDone, NoPage
  <2>2. Max(page) = Position
    <3>1. page \subseteq Int /\ IsFiniteSet(page) /\ page # {}
      BY <1>2, DocumentsFinite
    <3>2. Max(page) \in page /\ \A y \in page : y <= Max(page)
      BY <3>1, MaxIsGreatest
    <3>3. Max(page) \in Int /\ Max(page) <= Position /\ Position <= Max(page)
      BY <3>2, <1>2
    <3> QED  BY <3>3, <1>2
  <2>3. Position' = Position
    BY <1>1, <2>1 DEF Position
  <2>4. PagingTypeOK'
    <3>1. after' \in 0..Documents
      BY <1>1, <2>1, <2>2, PositionIs
    <3> QED  BY <1>1, <2>1, <3>1 DEF PagingTypeOK, backendVars
  <2>5. RequestRuns' /\ PageAhead' /\ NothingSkipped'
    BY <1>1, <2>1, <2>2, <2>3 DEF PagingInv, RequestRuns, PageAhead, NothingSkipped
  <2>6. WalkInv'
    <3>1. SteadyFound'
      BY <1>1, <2>1, BackendsKept DEF PagingInv, WalkInv, SteadyFound
    <3>2. ShownInOrder' /\ ResultsInOrder'
      BY <1>1, <2>1 DEF PagingInv, WalkInv, ShownInOrder, ResultsInOrder, Ascending
    <3>3. NoneLeftBehind'
      BY <1>1, <2>1, <2>3 DEF PagingInv, WalkInv, NoneLeftBehind
    <3> QED  BY <3>1, <3>2, <3>3 DEF WalkInv
  <2>7. CountsMatch'
    <3> SUFFICES ASSUME whole, request.kind # "walk"
                 PROVE  /\ scope = access
                        /\ scan.scanned = Cardinality(UpTo(Position))' /\ Counted(scan, Position)'
      BY <1>1, <2>1, BackendsKept DEF CountsMatch
    <3>1. /\ scope = access /\ scan.scanned = Cardinality(UpTo(Position)) /\ Counted(scan, Position)
      BY <1>1 DEF PagingInv, CountsMatch
    <3>2. Counted(scan, Position)'
      BY <3>1, <1>1, <2>3, CountedKept
    <3>3. UpTo(Position)' = UpTo(Position)
      BY <1>1, <2>3, BackendsKept DEF UpTo
    <3> QED  BY <3>1, <3>2, <3>3
  <2>8. AnswersMatchTheIndex'
    BY <2>1 DEF AnswersMatchTheIndex
  <2> QED  BY <2>4, <2>5, <2>6, <2>7, <2>8 DEF PagingInv
<1> QED  BY <1>3, <1>4

(* The hit the loop looks at is the next one of the index.                 *)
LEMMA NextHit ==
  ASSUME PagingInv, stage = "scan", NEW d \in todo, \A e \in todo : d <= e
  PROVE  /\ d \in page /\ d \in Document /\ d \in Int /\ Position < d
         /\ whole => \A x \in Expected : x <= d => x <= Position \/ x = d
<1>1. /\ PagingTypeOK /\ d \in page /\ \A x \in page : x \in todo <=> x > Position
      /\ whole => \A x \in Expected : x > Position =>
                    x \in todo \/ (Cardinality(page) >= BatchSize /\ \A e \in page : e < x)
  BY DEF PagingInv, PageAhead, NothingSkipped, PagingTypeOK
<1>2. Expected \subseteq Document /\ d \in Document
  BY <1>1, VisibleDocuments DEF Expected, PagingTypeOK
<1>3. /\ Position \in Int /\ d \in Int /\ Position < d
      /\ \A x \in Expected : x \in Int
  <2>1. Position \in Int /\ d \in Int /\ \A x \in Expected : x \in Int
    BY <1>2, DocumentsFinite, PositionIs
  <2> QED  BY <2>1, <1>1
<1>4. ASSUME whole, NEW x \in Expected, x <= d, ~(x <= Position)
      PROVE  x = d
  <2>1. x \in Int /\ x > Position
    BY <1>3, <1>4
  <2>2. x \in todo \/ d < x
    BY <2>1, <1>1, <1>4
  <2>3. d <= x
    BY <2>1, <2>2, <1>3
  <2> QED  BY <2>1, <2>3, <1>3, <1>4
<1> QED  BY <1>1, <1>2, <1>3, <1>4

LEMMA NextCounted ==
  ASSUME PagingInv, stage = "scan", whole, request.kind # "walk", NEW d \in todo, \A e \in todo : d <= e
  PROVE  d \in Visible /\ UpTo(d) = UpTo(Position) \cup {d} /\ (d \in allowed <=> d \in granted)
<1>1. d \in page /\ d \in Int /\ Position < d /\ \A x \in Visible : x <= d => x <= Position \/ x = d
  BY NextHit DEF Expected
<1>2. d \in Visible /\ (d \in allowed <=> d \in granted)
  BY <1>1 DEF PagingInv, CountsMatch
<1>3. /\ Position \in Int
      /\ \A x \in Visible : x \in Int
  BY PositionIs, VisibleDocuments, DocumentsFinite DEF PagingInv
<1>4. \A x \in Visible : x <= d <=> x <= Position \/ x = d
  <2> SUFFICES ASSUME NEW x \in Visible, x <= Position \/ x = d PROVE x <= d
    BY <1>1
  <2> QED  BY <1>1, <1>3
<1> QED  BY <1>2, <1>4 DEF UpTo

(* What the loop has made of a hit that is not one too many.               *)
LEMMA ScannedKeepsOrder ==
  ASSUME PagingInv, stage = "scan", NEW d \in todo, \A e \in todo : d <= e
  PROVE  LET r == Scanned(scan, d) IN
         /\ r \in Scans
         /\ Ascending(r.results)
         /\ \A i \in 1..Len(r.results) : cursor < r.results[i] /\ r.results[i] <= r.last
         /\ Len(r.results) <= Limit /\ Cardinality(r.values) <= Limit
         /\ ~r.stop => Len(r.results) < Limit /\ Cardinality(r.values) < Limit
         /\ r.scanned # MaxScanned + 1 => /\ r.last = d
                                          /\ r.scanned <= MaxScanned /\ r.hits <= r.scanned
         /\ ToSet(scan.results) \subseteq ToSet(r.results)
<1> DEFINE r == Scanned(scan, d)
<1>1. /\ scan \in Scans /\ scan.scanned \in 0..(MaxScanned + 1) /\ scan.last \in 0..Documents
      /\ scan.hits \in 0..MaxScanned /\ scan.results \in Seq(Document) /\ scan.values \subseteq Value
      /\ scan.stop = FALSE /\ scan.scanned <= MaxScanned /\ scan.hits <= scan.scanned
      /\ Len(scan.results) < Limit /\ Cardinality(scan.values) < Limit
  BY DEF PagingInv, PagingTypeOK, Scans, RequestRuns
<1>2. d \in Document /\ d \in Int /\ d \in 0..Documents /\ Position < d /\ Position \in Int
      /\ cursor <= Position /\ scan.last <= Position /\ scan.last \in Int /\ cursor \in Int
  BY NextHit, PositionIs, PagingBounds DEF Document
<1>3. /\ Ascending(scan.results)
      /\ \A i \in 1..Len(scan.results) : cursor < scan.results[i] /\ scan.results[i] <= scan.last
  BY DEF PagingInv, WalkInv, ResultsInOrder
<1>4. \A i \in 1..Len(scan.results) : scan.results[i] \in Int /\ scan.results[i] < d
  <2> TAKE i \in 1..Len(scan.results)
  <2>1. scan.results[i] \in Document
    BY <1>1
  <2>2. scan.results[i] \in Int
    BY <2>1, DocumentsFinite
  <2> QED  BY <2>2, <1>2, <1>3
<1>5. /\ Append(scan.results, d) \in Seq(Document) /\ Ascending(Append(scan.results, d))
      /\ ToSet(Append(scan.results, d)) = ToSet(scan.results) \cup {d}
      /\ Len(Append(scan.results, d)) = Len(scan.results) + 1 /\ Len(scan.results) \in Nat
  BY <1>1, <1>2, <1>3, <1>4, AppendAscends
<1>6. \A i \in 1..Len(Append(scan.results, d)) :
        cursor < Append(scan.results, d)[i] /\ Append(scan.results, d)[i] <= d
  <2> TAKE i \in 1..Len(Append(scan.results, d))
  <2>1. CASE i = Len(scan.results) + 1
    BY <2>1, <1>1, <1>2
  <2>2. CASE i # Len(scan.results) + 1
    <3>1. i \in 1..Len(scan.results) /\ Append(scan.results, d)[i] = scan.results[i]
      BY <2>2, <1>1, <1>5
    <3> QED  BY <3>1, <1>2, <1>3, <1>4
  <2> QED  BY <2>1, <2>2
<1>7. /\ scan.values \cup {ValueOf[d]} \subseteq Value
      /\ Cardinality(scan.values) \in Nat /\ Cardinality(scan.values \cup {ValueOf[d]}) \in Nat
      /\ Cardinality(scan.values \cup {ValueOf[d]}) <= Cardinality(scan.values) + 1
  <2>1. scan.values \cup {ValueOf[d]} \subseteq Value
    BY <1>1, <1>2 DEF Value
  <2>2. /\ IsFiniteSet(scan.values) /\ Cardinality(scan.values) \in Nat
        /\ Cardinality(scan.values \cup {ValueOf[d]}) \in Nat
    BY <1>1, <2>1, ValuesFinite
  <2>3. Cardinality(scan.values \cup {ValueOf[d]}) \in {Cardinality(scan.values), Cardinality(scan.values) + 1}
    BY <2>2, FS_AddElement
  <2> QED  BY <2>1, <2>2, <2>3
<1>8. /\ r.scanned = scan.scanned + 1
      /\ \/ /\ scan.scanned = MaxScanned
            /\ r.last = scan.last /\ r.hits = scan.hits /\ r.results = scan.results
            /\ r.values = scan.values /\ r.stop = TRUE
         \/ /\ scan.scanned # MaxScanned /\ r.last = d /\ r.hits = scan.hits
            /\ r.results = scan.results /\ r.values = scan.values /\ r.stop = scan.stop
         \/ /\ scan.scanned # MaxScanned /\ r.last = d
            /\ r.hits = scan.hits /\ r.results = scan.results
            /\ r.values = scan.values \cup {ValueOf[d]}
            /\ r.stop = (Cardinality(r.values) = Limit)
         \/ /\ scan.scanned # MaxScanned /\ r.last = d
            /\ r.hits = scan.hits + 1
            /\ r.results = scan.results /\ r.values = scan.values /\ r.stop = scan.stop
         \/ /\ scan.scanned # MaxScanned /\ r.last = d
            /\ r.hits = scan.hits + 1
            /\ r.results = Append(scan.results, d) /\ r.values = scan.values
            /\ r.stop = (Len(scan.results) + 1 = Limit)
  BY <1>1, ScannedIs
<1>9. /\ r.scanned \in 0..(MaxScanned + 1) /\ r.last \in 0..Documents /\ r.hits \in 0..MaxScanned
      /\ r.scanned # MaxScanned + 1 => r.last = d /\ r.scanned <= MaxScanned /\ r.hits <= r.scanned
  <2> HIDE DEF r
  <2>1. r.hits \in {scan.hits, scan.hits + 1} /\ (scan.scanned = MaxScanned => r.hits = scan.hits)
    BY <1>8
  <2>2. r.last \in {scan.last, d} /\ (scan.scanned # MaxScanned => r.last = d)
    BY <1>8
  <2>3. r.scanned = scan.scanned + 1
    BY <1>8
  <2>4. /\ scan.scanned \in Nat /\ scan.scanned <= MaxScanned
        /\ scan.hits \in Nat /\ scan.hits <= scan.scanned
    BY <1>1, PagingBounds
  <2>5. r.scanned \in 0..(MaxScanned + 1) /\ (r.scanned # MaxScanned + 1 => scan.scanned # MaxScanned)
    BY <2>3, <2>4, PagingBounds
  <2>6. r.hits \in 0..MaxScanned
    BY <2>1, <2>4, PagingBounds
  <2>7. scan.scanned # MaxScanned => r.scanned <= MaxScanned /\ r.hits <= r.scanned
    BY <2>1, <2>3, <2>4, PagingBounds
  <2>8. r.last \in 0..Documents
    BY <2>2, <1>1, <1>2
  <2> QED  BY <2>2, <2>5, <2>6, <2>7, <2>8
<1>10. /\ r.results \in Seq(Document) /\ Ascending(r.results) /\ ToSet(scan.results) \subseteq ToSet(r.results)
       /\ r.values \subseteq Value /\ r.stop \in BOOLEAN
  <2> HIDE DEF r
  <2> QED  BY <1>8, <1>1, <1>3, <1>5, <1>7
<1>11. \A i \in 1..Len(r.results) : cursor < r.results[i] /\ r.results[i] <= r.last
  <2> HIDE DEF r
  <2>1. CASE r.results = scan.results /\ r.last = scan.last
    BY <2>1, <1>3
  <2>2. CASE r.results = scan.results /\ r.last = d
    <3> SUFFICES ASSUME NEW i \in 1..Len(scan.results)
                 PROVE  cursor < scan.results[i] /\ scan.results[i] <= d
      BY <2>2
    <3> QED  BY <1>2, <1>3, <1>4
  <2>3. CASE r.results = Append(scan.results, d) /\ r.last = d
    BY <2>3, <1>6
  <2> QED  BY <2>1, <2>2, <2>3, <1>8
<1>12. /\ Len(r.results) <= Limit /\ Cardinality(r.values) <= Limit
       /\ ~r.stop => Len(r.results) < Limit /\ Cardinality(r.values) < Limit
  <2> HIDE DEF r
  <2>1. \/ r.results = scan.results /\ r.values = scan.values
        \/ /\ r.results = scan.results /\ r.values = scan.values \cup {ValueOf[d]}
           /\ r.stop = (Cardinality(r.values) = Limit)
        \/ /\ r.results = Append(scan.results, d) /\ r.values = scan.values
           /\ r.stop = (Len(scan.results) + 1 = Limit)
    BY <1>8
  <2>2. CASE r.results = scan.results /\ r.values = scan.values
    BY <2>2, <1>1, <1>5, <1>7, PagingBounds
  <2>3. CASE /\ r.results = scan.results /\ r.values = scan.values \cup {ValueOf[d]}
             /\ r.stop = (Cardinality(r.values) = Limit)
    <3>1. Cardinality(r.values) \in Nat /\ Cardinality(r.values) <= Cardinality(scan.values) + 1
      BY <2>3, <1>7
    <3>2. Cardinality(r.values) <= Limit
      BY <3>1, <1>1, <1>7, PagingBounds
    <3>3. ~r.stop => Cardinality(r.values) # Limit
      BY <2>3
    <3> QED  BY <2>3, <3>1, <3>2, <3>3, <1>1, <1>5, PagingBounds
  <2>4. CASE /\ r.results = Append(scan.results, d) /\ r.values = scan.values
             /\ r.stop = (Len(scan.results) + 1 = Limit)
    <3>1. Len(r.results) = Len(scan.results) + 1
      BY <2>4, <1>5
    <3>2. ~r.stop => Len(scan.results) + 1 # Limit
      BY <2>4
    <3> QED  BY <2>4, <3>1, <3>2, <1>1, <1>5, <1>7, PagingBounds
  <2> QED  BY <2>1, <2>2, <2>3, <2>4
<1>13. r \in Scans
  <2>1. r = [scanned |-> r.scanned, last |-> r.last, hits |-> r.hits, results |-> r.results,
             values |-> r.values, stop |-> r.stop]
    BY <1>1 DEF Scanned, TooMany, Looked, KeptValue, KeptHit, Scans
  <2> HIDE DEF r
  <2> QED  BY <2>1, <1>9, <1>10 DEF Scans
<1> QED  BY <1>9, <1>10, <1>11, <1>12, <1>13

(* Behind a hit that is looked at, a walk has every document it must have. *)
LEMMA WalkScanned ==
  ASSUME PagingInv, stage = "scan", NEW d \in todo, \A e \in todo : d <= e,
         scan.scanned # MaxScanned, request.kind = "walk", whole, NEW x \in steady, x <= d
  PROVE  x \in ToSet(shown) \cup ToSet(Scanned(scan, d).results)
<1>1. ToSet(scan.results) \subseteq ToSet(Scanned(scan, d).results)
  BY ScannedKeepsOrder
<1>2. x <= Position \/ x = d
  BY NextHit DEF Expected
<1>3. CASE x <= Position
  BY <1>1, <1>3 DEF PagingInv, WalkInv, NoneLeftBehind
<1>4. CASE x = d
  <2>1. d \in allowed /\ scan \in Scans /\ scan.results \in Seq(Document) /\ d \in Document
    BY <1>4, NextHit DEF PagingInv, WalkInv, SteadyFound, PagingTypeOK, Scans
  <2>2. Offset(request) = 0 /\ ~(scan.hits < 0)
    BY <2>1, PagingBounds DEF Offset, Scans
  <2>3. Scanned(scan, d).results = Append(scan.results, d)
    BY <2>1, <2>2, ScannedIs
  <2>4. Append(scan.results, d)[Len(scan.results) + 1] = d
        /\ Len(scan.results) + 1 \in DOMAIN Append(scan.results, d)
    BY <2>1
  <2>5. d \in ToSet(Append(scan.results, d))
    BY <2>4 DEF ToSet
  <2> QED  BY <1>4, <2>3, <2>5
<1> QED  BY <1>2, <1>3, <1>4

(* Of a page or the values, the loop goes on counting as it should.        *)
LEMMA CountScanned ==
  ASSUME PagingInv, stage = "scan", whole, request.kind # "walk",
         NEW d \in todo, \A e \in todo : d <= e, scan.scanned # MaxScanned
  PROVE  /\ Counted(Scanned(scan, d), d)
         /\ Cardinality(UpTo(d)) = scan.scanned + 1 /\ Cardinality(UpTo(d)) <= MaxScanned
<1>1. /\ PagingTypeOK /\ request \in Requests /\ Counted(scan, Position)
      /\ scan.scanned = Cardinality(UpTo(Position)) /\ scan.scanned <= MaxScanned
      /\ scan.scanned \in Nat /\ Ascending(scan.results) /\ scan.results \in Seq(Document)
      /\ \A i \in 1..Len(scan.results) : scan.results[i] <= scan.last
  BY PagingBounds DEF PagingInv, RequestRuns, CountsMatch, WalkInv, ResultsInOrder, PagingTypeOK, Scans
<1>2. /\ Position \in Int /\ Position < d /\ d \in Int /\ scan.last \in Int /\ scan.last <= Position
  BY NextHit, PositionIs
<1>3. d \in Visible /\ UpTo(d) = UpTo(Position) \cup {d} /\ (d \in allowed <=> d \in granted)
  BY NextCounted
<1>4. \A i \in 1..Len(scan.results) : scan.results[i] < d
  <2> TAKE i \in 1..Len(scan.results)
  <2>1. scan.results[i] \in Document
    BY <1>1
  <2>2. scan.results[i] \in Int /\ scan.results[i] <= scan.last
    BY <2>1, <1>1, DocumentsFinite
  <2> QED  BY <2>2, <1>2
<1>5. Counted(Scanned(scan, d), d)
  BY <1>1, <1>2, <1>3, <1>4, CountedStep
<1>6. Cardinality(UpTo(d)) = scan.scanned + 1
  BY <1>1, <1>2, <1>3, OneMore
<1>7. scan.scanned + 1 <= MaxScanned
  BY <1>1, PagingBounds
<1> QED  BY <1>5, <1>6, <1>7

(* The loop stops at one hit too many, or with what is asked for.          *)
LEMMA StoppedRight ==
  ASSUME PagingInv, stage = "scan", whole' = whole, NEW d \in todo, \A e \in todo : d <= e,
         Scanned(scan, d).stop
  PROVE  FinishedRight(Scanned(scan, d), FALSE)
<1> DEFINE r == Scanned(scan, d)
<1>1. /\ r \in Scans /\ Ascending(r.results)
      /\ \A i \in 1..Len(r.results) : cursor < r.results[i] /\ r.results[i] <= r.last
      /\ Len(r.results) <= Limit /\ Cardinality(r.values) <= Limit
      /\ ToSet(scan.results) \subseteq ToSet(r.results)
  BY ScannedKeepsOrder
<1>2. /\ scan \in Scans /\ ~scan.stop /\ scan.scanned \in Nat /\ scan.scanned <= MaxScanned
      /\ scan.last = 0 \/ cursor < scan.last
      /\ scan.scanned = 0 \/ scan.last # 0
      /\ request \in Requests
  BY PagingBounds DEF PagingInv, PagingTypeOK, RequestRuns, Scans
<1>3. /\ Position \in Int /\ Position < d /\ d \in Int /\ d >= 1 /\ cursor <= Position /\ cursor \in Int
  BY NextHit, PositionIs, DocumentsFinite
<1>4. CASE scan.scanned = MaxScanned
  <2>1. /\ r.last = scan.last /\ r.hits = scan.hits /\ r.results = scan.results
        /\ r.values = scan.values
    BY <1>2, <1>4, ScannedIs
  <2>2. scan.last # 0 /\ Position = scan.last
    BY <1>2, <1>4, PagingBounds DEF Position
  <2>3. ASSUME request.kind = "walk", whole, NEW x \in steady, x <= r.last
        PROVE  x \in ToSet(shown) \cup ToSet(r.results)
    BY <2>1, <2>2, <2>3 DEF PagingInv, WalkInv, NoneLeftBehind
  <2>4. ASSUME request.kind # "walk", whole
        PROVE  /\ Counted(r, Position) /\ Cardinality(UpTo(Position)) <= MaxScanned
               /\ Cardinality(UpTo(Position)) = MaxScanned
    <3>1. Counted(scan, Position) /\ scan.scanned = Cardinality(UpTo(Position))
      BY <2>4 DEF PagingInv, CountsMatch
    <3>2. Counted(r, Position)
      BY <3>1, <2>1 DEF Counted
    <3> QED  BY <3>1, <3>2, <1>4, PagingBounds
  <2> HIDE DEF r
  <2>5. request.kind = "walk" /\ whole' => \A x \in steady : FALSE \/ x <= r.last =>
                                             x \in ToSet(shown) \cup ToSet(r.results)
    BY <2>3
  <2>6. whole' /\ request.kind # "walk" =>
          \E p \in Int :
            /\ Counted(r, p) /\ Cardinality(UpTo(p)) <= MaxScanned
            /\ Len(r.results) <= Limit /\ Cardinality(r.values) <= Limit
            /\ Cardinality(UpTo(p)) = MaxScanned
    BY <2>4, <1>1, <1>3
  <2>7. (r.last = 0 \/ cursor < r.last) /\ r.last # 0
    BY <2>1, <2>2, <1>2
  <2>8. FinishedRight(r, FALSE)
    BY <1>1, <2>5, <2>6, <2>7 DEF FinishedRight
  <2> QED  BY <2>8 DEF r
<1>5. CASE scan.scanned # MaxScanned
  <2>1. r.last = d
    BY <1>2, <1>5, ScannedIs
  <2>2. ASSUME request.kind = "walk", whole, NEW x \in steady, x <= d
        PROVE  x \in ToSet(shown) \cup ToSet(r.results)
    BY <1>5, <2>2, WalkScanned
  <2>3. ASSUME request.kind # "walk", whole
        PROVE  Counted(r, d) /\ Cardinality(UpTo(d)) <= MaxScanned
    BY <1>5, <2>3, CountScanned
  <2>4. ASSUME request.kind # "walk"
        PROVE  \/ request.kind = "page" /\ Len(r.results) = Limit
               \/ request.kind = "values" /\ Cardinality(r.values) = Limit
    <3>1. request.kind \in {"page", "values"}
      BY <1>2, <2>4, OffsetIsNat
    <3>2. \/ request.kind = "values" /\ Cardinality(r.values) = Limit
          \/ /\ request.kind # "values" /\ r.results = Append(scan.results, d)
             /\ Len(scan.results) + 1 = Limit
      BY <1>2, <1>5, ScannedIs
    <3>3. scan.results \in Seq(Document) /\ d \in Document
      BY <1>2, NextHit DEF Scans
    <3>4. Len(Append(scan.results, d)) = Len(scan.results) + 1
      BY <3>3
    <3> QED  BY <3>1, <3>2, <3>4
  <2>5. cursor < d /\ d # 0
    BY <1>3
  <2> HIDE DEF r
  <2>6. request.kind = "walk" /\ whole' => \A x \in steady : FALSE \/ x <= r.last =>
                                             x \in ToSet(shown) \cup ToSet(r.results)
    BY <2>1, <2>2
  <2>7. whole' /\ request.kind # "walk" =>
          \E p \in Int :
            /\ Counted(r, p) /\ Cardinality(UpTo(p)) <= MaxScanned
            /\ Len(r.results) <= Limit /\ Cardinality(r.values) <= Limit
            /\ \/ request.kind = "page" /\ Len(r.results) = Limit
               \/ request.kind = "values" /\ Cardinality(r.values) = Limit
    BY <2>3, <2>4, <1>1, <1>3
  <2>8. (r.last = 0 \/ cursor < r.last) /\ r.last # 0
    BY <2>1, <2>5
  <2>9. FinishedRight(r, FALSE)
    BY <1>1, <2>6, <2>7, <2>8 DEF FinishedRight
  <2> QED  BY <2>9 DEF r
<1> QED  BY <1>4, <1>5

LEMMA ScanInv == PagingInv /\ Scan => PagingInv'
<1> SUFFICES ASSUME PagingInv, Scan PROVE PagingInv'
  OBVIOUS
<1>1. PICK d \in todo :
        /\ \A e \in todo : d <= e
        /\ scan' = Scanned(scan, d)
        /\ IF scan'.stop THEN Answer(scan', FALSE)
           ELSE todo' = todo \ {d} /\ UNCHANGED <<stage, page, allowed, shown, cursor>>
  BY DEF Scan
<1> DEFINE r == Scanned(scan, d)
<1>2. /\ stage = "scan" /\ PagingTypeOK /\ scan' = r
      /\ UNCHANGED <<backendVars, edits, mishaps, requestVars, steady, whole>>
  BY <1>1 DEF Scan, PagingInv
<1>3. /\ r \in Scans /\ Ascending(r.results)
      /\ \A i \in 1..Len(r.results) : cursor < r.results[i] /\ r.results[i] <= r.last
      /\ ~r.stop => Len(r.results) < Limit /\ Cardinality(r.values) < Limit
      /\ r.scanned # MaxScanned + 1 => /\ r.last = d
                                       /\ r.scanned <= MaxScanned /\ r.hits <= r.scanned
      /\ ToSet(scan.results) \subseteq ToSet(r.results)
  BY <1>1, <1>2, ScannedKeepsOrder
<1>4. CASE r.stop
  <2>1. Answer(r, FALSE)
    BY <1>1, <1>2, <1>4
  <2>2. FinishedRight(r, FALSE)
    BY <1>1, <1>2, <1>4, StoppedRight
  <2>3. mishaps' \in 0..MaxMishaps /\ whole' \in BOOLEAN /\ (whole' => whole)
    BY <1>2 DEF PagingTypeOK
  <2> HIDE DEF r
  <2> QED  BY <1>2, <1>3, <2>1, <2>2, <2>3, AnswerInv
<1>5. CASE ~r.stop
  <2>1. /\ stage' = "scan" /\ todo' = todo \ {d} /\ page' = page /\ allowed' = allowed
        /\ shown' = shown /\ cursor' = cursor /\ request' = request /\ scope' = scope
        /\ after' = after /\ steady' = steady /\ whole' = whole /\ edits' = edits
        /\ mishaps' = mishaps
    BY <1>1, <1>2, <1>5 DEF requestVars
  <2>2. scan.scanned # MaxScanned /\ r.scanned = scan.scanned + 1
    BY <1>2, <1>5, ScannedIs DEF PagingTypeOK
  <2>3. scan.scanned \in Nat /\ scan.scanned <= MaxScanned /\ cursor >= 0
        /\ (request.kind # "walk" => cursor = 0) /\ request \in Requests
    BY <1>2, PagingBounds DEF PagingInv, PagingTypeOK, RequestRuns, Scans
  <2>4. r.scanned # MaxScanned + 1
    BY <2>2, <2>3, PagingBounds
  <2>5. /\ d \in page /\ d \in Document /\ d \in Int /\ Position < d /\ Position \in Int
        /\ cursor <= Position /\ cursor \in Int /\ d >= 1
    BY <1>1, <1>2, NextHit, PositionIs, DocumentsFinite
  <2>6. Position' = d
    BY <1>2, <1>3, <2>4, <2>5 DEF Position
  <2>7. PagingTypeOK'
    <3> HIDE DEF r
    <3> QED  BY <1>2, <1>3, <2>1 DEF PagingTypeOK, backendVars
  <2>8. RequestRuns'
    <3>1. cursor < d
      BY <2>5
    <3>2. r.last = d /\ r.scanned <= MaxScanned /\ r.hits <= r.scanned /\ d # 0
      BY <1>3, <2>4, <2>5
    <3> HIDE DEF r
    <3> QED  BY <1>2, <1>3, <1>5, <2>1, <2>3, <3>1, <3>2 DEF RequestRuns
  <2>9. PageAhead'
    <3>1. \A x \in page : (x \in todo <=> x > Position) /\ x \in Int
      BY <1>2, DocumentsFinite DEF PagingInv, PageAhead, PagingTypeOK
    <3>2. \A x \in page : x \in todo \ {d} <=> x > d
      <4> TAKE x \in page
      <4>1. x \in todo => d <= x
        BY <1>1
      <4> QED  BY <4>1, <3>1, <2>5
    <3> QED  BY <2>1, <2>5, <2>6, <3>2 DEF PageAhead
  <2>10. NothingSkipped'
    <3>1. Expected' = Expected
      BY <1>2, <2>1, BackendsKept DEF Expected
    <3>2. Expected \subseteq Document
      BY <1>2, VisibleDocuments DEF Expected, PagingTypeOK
    <3>3. ASSUME whole, NEW x \in Expected, x > d
          PROVE  x \in todo \ {d} \/ (Cardinality(page) >= BatchSize /\ \A e \in page : e < x)
      <4>1. x \in Int
        BY <3>2, DocumentsFinite
      <4>2. x > Position /\ x # d
        BY <4>1, <2>5, <3>3
      <4> QED  BY <4>2, <3>3, <1>2 DEF PagingInv, NothingSkipped
    <3> QED  BY <2>1, <2>6, <3>1, <3>3 DEF NothingSkipped
  <2>11. WalkInv'
    <3>1. SteadyFound'
      BY <1>2, <2>1, BackendsKept DEF PagingInv, WalkInv, SteadyFound
    <3>2. ShownInOrder'
      BY <2>1 DEF PagingInv, WalkInv, ShownInOrder, Ascending
    <3>3. ResultsInOrder'
      <4> HIDE DEF r
      <4> QED  BY <1>2, <1>3, <2>1 DEF ResultsInOrder, Ascending
    <3>4. ASSUME whole, request.kind = "walk", NEW x \in steady, x <= d
          PROVE  x \in ToSet(shown) \cup ToSet(r.results)
      BY <1>1, <1>2, <2>2, <3>4, WalkScanned
    <3>5. NoneLeftBehind'
      <4> HIDE DEF r
      <4> QED  BY <1>2, <2>1, <2>6, <3>4 DEF PagingInv, WalkInv, NoneLeftBehind
    <3> QED  BY <3>1, <3>2, <3>3, <3>5 DEF WalkInv
  <2>12. CountsMatch'
    <3> SUFFICES ASSUME whole, request.kind # "walk"
                 PROVE  /\ scope = access /\ page \subseteq Visible /\ allowed = page \cap granted
                        /\ scan'.scanned = Cardinality(UpTo(Position))' /\ Counted(scan, Position)'
      BY <1>2, <2>1, BackendsKept DEF CountsMatch
    <3>1. scope = access /\ page \subseteq Visible /\ allowed = page \cap granted
      BY <1>2 DEF PagingInv, CountsMatch
    <3>2. Counted(r, d) /\ Cardinality(UpTo(d)) = scan.scanned + 1
      BY <1>1, <1>2, <2>2, CountScanned
    <3>3. Counted(scan, Position)'
      <4>1. Counted(scan, Position)' <=> Counted(r, d)
        <5> HIDE DEF r
        <5> QED  BY <1>2, <2>1, <2>6, BackendsKept DEF Counted, Offset, Rank, UpTo, Visible, Reachable
      <4> QED  BY <4>1, <3>2
    <3>4. UpTo(Position)' = UpTo(d)
      BY <1>2, <2>6, BackendsKept DEF UpTo
    <3> QED  BY <1>2, <2>2, <3>1, <3>2, <3>3, <3>4
  <2>13. AnswersMatchTheIndex'
    BY <2>1 DEF AnswersMatchTheIndex
  <2> QED  BY <2>7, <2>8, <2>9, <2>10, <2>11, <2>12, <2>13 DEF PagingInv
<1> QED  BY <1>4, <1>5

LEMMA PagingInvStep == PagingInv /\ [PagingNext]_pagingVars => PagingInv'
<1> SUFFICES ASSUME PagingInv, [PagingNext]_pagingVars PROVE PagingInv'
  OBVIOUS
<1>1. CASE \E r \in Requests : Ask(r)
  BY <1>1, AskInv
<1>2. CASE UNCHANGED pagingVars
  <2>1. UNCHANGED <<backendVars, edits, mishaps, requestVars, stage, pageVars, scan, cursor, shown,
                    steady, whole>>
    BY <1>2 DEF pagingVars
  <2>2. Position' = Position
    BY <2>1 DEF Position
  <2>3. PagingTypeOK' /\ RequestRuns' /\ PageAhead'
    BY <2>1, <2>2 DEF PagingInv, PagingTypeOK, RequestRuns, PageAhead, backendVars, requestVars, pageVars
  <2>4. NothingSkipped'
    <3>1. Expected' = Expected
      BY <2>1, BackendsKept DEF Expected, requestVars
    <3> QED  BY <2>1, <2>2, <3>1 DEF PagingInv, NothingSkipped, pageVars
  <2>5. WalkInv'
    <3>1. SteadyFound'
      BY <2>1, BackendsKept DEF PagingInv, WalkInv, SteadyFound, requestVars, pageVars
    <3>2. ShownInOrder' /\ ResultsInOrder'
      BY <2>1 DEF PagingInv, WalkInv, ShownInOrder, ResultsInOrder, Ascending
    <3>3. NoneLeftBehind'
      BY <2>1, <2>2 DEF PagingInv, WalkInv, NoneLeftBehind, requestVars
    <3> QED  BY <3>1, <3>2, <3>3 DEF WalkInv
  <2>6. CountsMatch'
    <3>1. Counted(scan, Position)' <=> Counted(scan', Position')
      BY <2>1, CountedKept DEF requestVars
    <3>2. UpTo(Position)' = UpTo(Position)
      BY <2>1, <2>2, BackendsKept DEF UpTo
    <3>3. Counted(scan, Position)' <=> Counted(scan, Position)
      BY <2>1, <2>2, BackendsKept DEF Counted, Offset, Rank, UpTo, Visible, Reachable, requestVars
    <3> QED  BY <2>1, <3>2, <3>3, BackendsKept DEF PagingInv, CountsMatch, requestVars, pageVars
  <2>7. AnswersMatchTheIndex'
    BY <2>1, BackendsKept DEF PagingInv, AnswersMatchTheIndex, requestVars
  <2> QED  BY <2>3, <2>4, <2>5, <2>6, <2>7 DEF PagingInv
<1> QED  BY <1>1, <1>2, StartOverInv, QueryInv, CheckInv, ScanInv, PageDoneInv, RequestFailsInv, EditInv
         DEF PagingNext

LEMMA PagingAlways == PagingSpec => []PagingInv
BY PagingInvInit, PagingInvStep, PTL DEF PagingSpec

(* The search service keeps to its types: a request is answered within its *)
(* bounds, no more than MaxScannedHits hits count as looked at but for the *)
(* one that ends the loop, and no page of hits outlives its request.       *)
THEOREM PagingTypeCorrect == PagingSpec => []PagingTypeOK
BY PagingAlways, PTL DEF PagingInv

(* A walk along the cursors returns every document at most once, in order, *)
(* and at its end has returned all that stayed reachable, for any number   *)
(* of documents, batch size, limit and bound on the hits looked at.        *)
THEOREM WalkOnce == PagingSpec => []WalkReturnsEachOnce
<1>1. PagingInv => WalkReturnsEachOnce
  <2> SUFFICES ASSUME PagingInv PROVE WalkReturnsEachOnce
    OBVIOUS
  <2>1. shown \in Seq(Document) /\ Ascending(shown)
    BY DEF PagingInv, PagingTypeOK, WalkInv, ShownInOrder
  <2>2. \A i \in 1..Len(shown) - 1 : shown[i] < shown[i + 1]
    BY <2>1, AscendingSteps
  <2>3. cursor = -1 /\ whole => steady \subseteq ToSet(shown)
    BY DEF PagingInv, WalkInv, NoneLeftBehind
  <2> QED  BY <2>2, <2>3 DEF WalkReturnsEachOnce
<1> QED  BY <1>1, PagingAlways, PTL

(* A numbered page of the search is its slice of the hits the user may     *)
(* get, and the values of a field are the first ones of them, as long as   *)
(* nothing changes while the request runs.                                 *)
THEOREM AnswersMatch == PagingSpec => []AnswersMatchTheIndex
BY PagingAlways, PTL DEF PagingInv

-----------------------------------------------------------------------------
(* The installation.                                                       *)

DirectoryNames == {Directories[n] : n \in DOMAIN Directories}

LEMMA DirectoriesListed ==
  /\ DirectoryNames = {"infra", "runtime", "components runtime", "components infra"}
  /\ \A n \in DOMAIN Directories : Directories[n] \in DirectoryNames
<1>1. DOMAIN Directories = {1, 2, 3, 4}
  <2>1. DOMAIN Directories = 1..4
    BY DEF Directories
  <2> QED  BY <2>1
<1>2. /\ Directories[1] = "infra" /\ Directories[2] = "runtime"
      /\ Directories[3] = "components runtime" /\ Directories[4] = "components infra"
  BY DEF Directories
<1> HIDE DEF Directories
<1>3. DirectoryNames = {Directories[1], Directories[2], Directories[3], Directories[4]}
  BY <1>1 DEF DirectoryNames
<1> QED  BY <1>2, <1>3 DEF DirectoryNames

LEMMA StepsListed ==
  /\ Steps = {"idle", "crds", "certs", "hook", "ca", "restart", "istio", "kcp",
              "clients", "kcpdir", "providers", "wait"} \cup DirectoryNames
  /\ \A d \in DirectoryNames : AfterDirectory(d) \in Steps \ {"wait"}
<1>1. Steps = {"idle", "crds", "certs", "hook", "ca", "restart", "istio", "kcp",
               "clients", "kcpdir", "providers", "wait"} \cup DirectoryNames
  BY DEF Steps, DirectoryNames
<1>2. \A d \in DirectoryNames :
        AfterDirectory(d) \in {"runtime", "components runtime", "components infra", "crds"}
  BY DirectoriesListed DEF AfterDirectory
<1> QED  BY <1>1, <1>2, DirectoriesListed

CertOf == {None} \cup CAs
HookOf == {None, Placeholder} \cup CAs
Templates == DirectoryNames \cup {"webhook certificates"}

LEMMA CertificateRanges ==
  /\ CertOf \subseteq HookOf /\ CertOf \subseteq Int
  /\ None \in CertOf /\ SelfSigned \in CertOf /\ Placeholder \in HookOf /\ 1 \in CertOf
  /\ \A n \in 1..(MaxCA - 1) : n + 1 \in CertOf
<1>1. CAs = 0..MaxCA /\ MaxCA \in Nat \ {0}
  BY BootstrapAssumption DEF CAs, SelfSigned
<1>2. None \in Int /\ 1 \in CAs /\ SelfSigned \in CAs /\ CAs \subseteq Int
  BY <1>1 DEF None, SelfSigned
<1>3. \A n \in 1..(MaxCA - 1) : n + 1 \in CAs
  BY <1>1
<1> QED  BY <1>2, <1>3 DEF CertOf, HookOf

(* The types, with their sets named.                                       *)
InstallationTypes ==
  /\ step \in Steps
  /\ templates \in SUBSET Templates
  /\ charts \in BOOLEAN
  /\ running \in SUBSET (Infra \cup Components)
  /\ sidecar \in BOOLEAN
  /\ cert \in CertOf
  /\ hook \in HookOf
  /\ pods \in HookOf
  /\ secrets \in BOOLEAN
  /\ idp \in {"none", "created", "managed"}
  /\ audience \in {"none", "empty", "set"}
  /\ seen \in BOOLEAN
  /\ ready \in BOOLEAN
  /\ faults \in 0..MaxFaults

(* When a pass gets to Wait the provider secrets have been written.        *)
SecretsBeforeWait == step = "wait" => secrets

BootstrapInv == InstallationTypes /\ SecretsBeforeWait

LEMMA BootstrapInitially ==
  Init => BootstrapInv
<1> SUFFICES ASSUME Init PROVE BootstrapInv
  OBVIOUS
<1>1. "idle" \in Steps
  BY StepsListed
<1>2. 0 \in 0..MaxFaults
  BY BootstrapAssumption
<1>3. InstallationTypes
  BY <1>1, <1>2, CertificateRanges DEF Init, InstallationTypes
<1> QED  BY <1>3 DEF Init, BootstrapInv, SecretsBeforeWait

(* What a step of the pass does: it keeps the types, and the mesh becomes  *)
(* ready only after the secrets, with every release running.               *)
StepKeeps ==
  /\ BootstrapInv'
  /\ ready' /\ ~ready => secrets /\ Infra \cup Components \subseteq running

LEMMA ReconcileKeeps ==
  ASSUME BootstrapInv, Reconcile
  PROVE  StepKeeps
<1> USE CertificateRanges, BootstrapAssumption
        DEF BootstrapInv, InstallationTypes, StepKeeps, SecretsBeforeWait, world, cluster, Continue,
            StopWithRequeue
<1>1. {"idle", "crds", "certs", "hook", "ca", "restart", "istio", "kcp", "clients",
       "kcpdir", "providers", "wait", "infra"} \subseteq Steps
  BY StepsListed, DirectoriesListed
<1>2. CASE Start
  BY <1>1, <1>2 DEF Start
<1>3. CASE ApplyTemplates
  <2>1. PICK n \in DOMAIN Directories :
          /\ step = Directories[n]
          /\ templates' = templates \cup {step}
          /\ Continue(AfterDirectory(step))
          /\ UNCHANGED <<world, hook, pods, secrets, audience>>
    BY <1>3 DEF ApplyTemplates
  <2>2. step \in DirectoryNames
    BY <2>1, DirectoriesListed
  <2>3. step' \in Steps /\ step' # "wait" /\ templates' \in SUBSET Templates
    BY <2>1, <2>2, StepsListed DEF Templates
  <2> QED  BY <2>1, <2>3
<1>4. CASE CheckCRDs
  BY <1>1, <1>4 DEF CheckCRDs
<1>5. CASE ApplyCertificates
  BY <1>1, <1>5 DEF ApplyCertificates, Templates
<1>6. CASE CreateKcpWebhookSecret
  BY <1>1, <1>6 DEF CreateKcpWebhookSecret
<1>7. CASE UpdateKcpWebhookSecret
  <2>1. CASE MustUpdate
    BY <1>1, <1>7, <2>1 DEF UpdateKcpWebhookSecret, MustUpdate
  <2>2. CASE ~MustUpdate
    BY <1>1, <1>7, <2>2 DEF UpdateKcpWebhookSecret
  <2> QED  BY <2>1, <2>2
<1>8. CASE DeleteKcpPods
  BY <1>1, <1>8 DEF DeleteKcpPods
<1>9. CASE CheckIstio
  <2>1. /\ UNCHANGED <<templates, charts, running, cert, hook, pods, secrets, idp,
                       audience, seen, faults>>
        /\ step' = "idle" \/ step' = "kcp"
    BY <1>9 DEF CheckIstio
  <2>2. ready' = FALSE \/ ready' = ready
    BY <1>9 DEF CheckIstio
  <2>3. sidecar' = TRUE \/ sidecar' = sidecar
    BY <1>9 DEF CheckIstio
  <2>4. ready' \in BOOLEAN
    <3>1. CASE ready' = FALSE
      BY <3>1
    <3>2. CASE ready' = ready
      BY <3>2
    <3> QED  BY <2>2, <3>1, <3>2
  <2>5. ready' => ready
    BY <2>2, Zenon
  <2>6. sidecar' \in BOOLEAN
    BY <2>3
  <2> QED  BY <1>1, <2>1, <2>4, <2>5, <2>6
<1>10. CASE CheckKcp
  BY <1>1, <1>10 DEF CheckKcp
<1>11. CASE ReadClients
  <2>1. seen' \in BOOLEAN
    <3>1. seen' = (idp = "managed") \/ seen' = FALSE
      BY <1>11 DEF ReadClients
    <3> QED  BY <3>1, Zenon
  <2>2. faults' \in 0..MaxFaults
    BY <1>11 DEF ReadClients
  <2>3. /\ UNCHANGED <<templates, charts, running, cert, hook, pods, secrets, idp,
                       audience, sidecar, ready>>
        /\ step' = "kcpdir"
    BY <1>11 DEF ReadClients
  <2> QED  BY <1>1, <2>1, <2>2, <2>3
<1>12. CASE ApplyKcpDirectory
  BY <1>1, <1>12 DEF ApplyKcpDirectory, AfterKcpSetup
<1>13. CASE KcpUnavailable
  BY <1>1, <1>13 DEF KcpUnavailable
<1>14. CASE WriteProviderSecrets
  BY <1>1, <1>14 DEF WriteProviderSecrets
<1>15. CASE Wait
  <2>1. ready' \in BOOLEAN /\ (ready' => Deployed)
    <3>1. ready' = (Deployed /\ AudienceSet) \/ ready' = Deployed
      BY <1>15 DEF Wait
    <3>2. CASE ready' = (Deployed /\ AudienceSet)
      BY <3>2, Zenon
    <3>3. CASE ready' = Deployed
      BY <3>3, Zenon DEF Deployed
    <3> QED  BY <3>1, <3>2, <3>3
  <2>2. faults' \in 0..MaxFaults
    BY <1>15 DEF Wait
  <2>3. /\ UNCHANGED <<templates, charts, running, cert, hook, pods, secrets, idp,
                       audience, sidecar, seen>>
        /\ step' = "idle" /\ secrets
    BY <1>15 DEF Wait
  <2> QED  BY <1>1, <2>1, <2>2, <2>3 DEF Deployed
<1> QED
  BY <1>2, <1>3, <1>4, <1>5, <1>6, <1>7, <1>8, <1>9, <1>10, <1>11, <1>12, <1>13,
     <1>14, <1>15 DEF Reconcile

LEMMA BootstrapStep ==
  ASSUME BootstrapInv, [Next]_vars
  PROVE  StepKeeps
<1>1. CASE Reconcile
  BY <1>1, ReconcileKeeps
<1> USE CertificateRanges, BootstrapAssumption
        DEF BootstrapInv, InstallationTypes, StepKeeps, SecretsBeforeWait, world, cluster, operator
<1>2. "idle" \in Steps
  BY StepsListed
<1>3. CASE Fail
  <2>1. /\ UNCHANGED <<templates, charts, running, cert, hook, pods, secrets, idp,
                       audience, sidecar, seen>>
        /\ step' = "idle" /\ ready' = FALSE /\ faults' = faults + 1 /\ faults < MaxFaults
    BY <1>3 DEF Fail
  <2>2. faults' \in 0..MaxFaults
    BY <2>1
  <2>3. ready' \in BOOLEAN
    BY <2>1
  <2> QED  BY <1>2, <2>1, <2>2, <2>3
<1>4. CASE Restart
  <2>1. sidecar' \in BOOLEAN
    <3>1. sidecar' = ("istiod" \in running)
      BY <1>4 DEF Restart
    <3> QED  BY <3>1, SMT
  <2>2. /\ UNCHANGED <<templates, charts, running, cert, hook, pods, secrets, idp,
                       audience, seen, ready>>
        /\ step' = "idle" /\ faults' = faults + 1 /\ faults < MaxFaults
    BY <1>4 DEF Restart
  <2> QED  BY <1>2, <2>1, <2>2
<1>5. CASE ReconcileCharts
  BY <1>5 DEF ReconcileCharts
<1>6. ASSUME NEW r \in Infra \cup Components, Install(r)
      PROVE  StepKeeps
  BY <1>6 DEF Install
<1>7. CASE Issue
  BY <1>7 DEF Issue
<1>8. CASE RenewCA
  BY <1>8 DEF RenewCA
<1>9. CASE StartKcp
  BY <1>9 DEF StartKcp
<1>10. CASE ManageClients
  BY <1>10 DEF ManageClients
<1>11. CASE UNCHANGED vars
  BY <1>11 DEF vars
<1> QED
  BY <1>1, <1>3, <1>4, <1>5, <1>6, <1>7, <1>8, <1>9, <1>10, <1>11
  DEF Next, Surroundings

(* The chain of subroutines, its surroundings and the conditions keep      *)
(* their types, for any number of certificate authorities and faults.      *)
THEOREM InstallationTypeCorrect ==
  Spec => []TypeOK
<1>1. BootstrapInv /\ [Next]_vars => BootstrapInv'
  BY BootstrapStep DEF StepKeeps
<1>2. BootstrapInv => TypeOK
  BY DEF BootstrapInv, InstallationTypes, TypeOK, CertOf, HookOf, Templates, DirectoryNames
<1> QED  BY <1>1, <1>2, BootstrapInitially, PTL DEF Spec

(* The mesh becomes ready only when every release it deploys runs and the  *)
(* secrets the providers mount have been written (Wait at the end of the   *)
(* chain), however often a pass ended early, failed or was cut off.        *)
THEOREM ReadyDeployed ==
  Spec => ReadyWhenDeployed
<1>1. BootstrapInv /\ [Next]_vars => BootstrapInv'
  BY BootstrapStep DEF StepKeeps
<1>2. BootstrapInv /\ [Next]_vars
        => [ready' /\ ~ready => secrets /\ Infra \cup Components \subseteq running]_vars
  BY BootstrapStep DEF StepKeeps
<1> QED  BY <1>1, <1>2, BootstrapInitially, PTL DEF Spec, ReadyWhenDeployed

-----------------------------------------------------------------------------
(* The cluster cache.                                                      *)

CacheTypes ==
  /\ storeId \in StoreID
  /\ attached \in [Cluster -> 0..MaxEngage]
  /\ ended \in [Cluster -> SUBSET Object]
  /\ resolvers \in [Cluster -> 0..MaxEngage]
  /\ goroutine \in [Cluster -> [Object -> {"none", "try", "cache", "wait", "leave"}]]
  /\ storeSeen \in [Cluster -> [Object -> StoreID]]
  /\ info \in [Cluster -> [store : StoreID, by : 0..MaxEngage]]
  /\ batch \in [left : SUBSET Cluster, store : StoreID,
                outcome : {"none", "reading", "sent", "failed", "mismatch"}]

(* The registered cluster object is one that was engaged, and nothing is   *)
(* cached with a StoreID that was not read.                                *)
CacheInv ==
  /\ CacheTypes
  /\ \A c \in Cluster : resolvers[c] <= attached[c]
  /\ \A c \in Cluster, g \in Object : goroutine[c][g] = "cache" => storeSeen[c][g] # 0
  /\ \A c \in Cluster : (info[c].by = 0) = (info[c].store = 0)
  /\ ActiveIsRegistered

LEMMA CacheInitially ==
  CacheInit => CacheInv
<1> SUFFICES ASSUME CacheInit PROVE CacheInv
  OBVIOUS
<1>1. 0 \in StoreID /\ 0 \in 0..MaxEngage
  BY CacheAssumption DEF StoreID
<1>2. CacheTypes
  BY <1>1 DEF CacheInit, CacheTypes, NoInfo, NoBatch
<1> QED
  BY <1>2 DEF CacheInit, CacheInv, NoInfo, ActiveIsRegistered

(* A new cluster object takes the place of the registered one, which is    *)
(* cancelled with the one that was engaged before.                         *)
LEMMA EngageKeeps ==
  ASSUME CacheInv, NEW c \in Cluster, Engage(c)
  PROVE  CacheInv'
<1> DEFINE g == attached[c] + 1
<1> USE CacheAssumption DEF CacheInv, CacheTypes
<1>1. /\ g \in Object /\ g \in 0..MaxEngage /\ g # 0
      /\ attached[c] \in 0..MaxEngage /\ resolvers[c] \in 0..MaxEngage
      /\ resolvers[c] < g /\ attached[c] < g
  BY DEF Engage, Object
<1>2. Supersedes(c, g)
  BY <1>1 DEF Supersedes
<1>3. /\ attached' = [attached EXCEPT ![c] = g]
      /\ ended' = [ended EXCEPT ![c] =
                     @ \cup (IF resolvers[c] = 0 THEN {} ELSE {resolvers[c]})
                       \cup (IF attached[c] = 0 THEN {} ELSE {attached[c]})]
      /\ resolvers' = [resolvers EXCEPT ![c] = g]
      /\ goroutine' = [goroutine EXCEPT ![c][g] = "try"]
      /\ UNCHANGED <<storeId, storeSeen, info, batch>>
  BY <1>2 DEF Engage
<1> HIDE DEF g
<1>4. CacheTypes'
  <2>1. /\ resolvers[c] # 0 => resolvers[c] \in Object
        /\ attached[c] # 0 => attached[c] \in Object
    BY <1>1 DEF Object
  <2> QED  BY <1>1, <1>3, <2>1
<1>5. \A d \in Cluster : resolvers'[d] <= attached'[d]
  BY <1>1, <1>3
<1>6. \A d \in Cluster, h \in Object :
        goroutine'[d][h] = IF d = c /\ h = g THEN "try" ELSE goroutine[d][h]
  BY <1>1, <1>3
<1>7. ActiveIsRegistered'
  <2> SUFFICES ASSUME NEW d \in Cluster, NEW h \in Object,
                      goroutine'[d][h] # "none", h \notin ended'[d]
               PROVE  resolvers'[d] = h
    BY DEF ActiveIsRegistered
  <2>1. CASE d # c
    BY <2>1, <1>3, <1>6 DEF ActiveIsRegistered
  <2>2. CASE d = c /\ h = g
    BY <2>2, <1>3
  <2>3. CASE d = c /\ h # g
    <3>1. h \notin ended[c] /\ h # resolvers[c]
      BY <2>3, <1>1, <1>3 DEF Object
    <3>2. goroutine[c][h] # "none"
      BY <2>3, <1>6
    <3> QED  BY <3>1, <3>2 DEF ActiveIsRegistered
  <2> QED  BY <2>1, <2>2, <2>3
<1> QED
  BY <1>3, <1>4, <1>5, <1>6, <1>7

(* What a goroutine that goes on changes.                                  *)
GoesOn(c, g, to) ==
  /\ goroutine[c][g] # "none"
  /\ goroutine' = [goroutine EXCEPT ![c][g] = to]
  /\ UNCHANGED <<storeId, attached, ended, batch>>
  /\ \/ UNCHANGED storeSeen
     \/ storeId # 0 /\ storeSeen' = [storeSeen EXCEPT ![c][g] = storeId]
  /\ to = "cache" => storeSeen'[c][g] # 0
  /\ \/ UNCHANGED resolvers
     \/ to = "none" /\ resolvers' = [resolvers EXCEPT ![c] = Registered(c, g)]
  /\ \/ UNCHANGED info
     \/ /\ storeSeen[c][g] # 0
        /\ info' = [info EXCEPT ![c] = [store |-> storeSeen[c][g], by |-> g]]

Places == {"none", "try", "cache", "wait", "leave"}

(* While its context lives it stays registered.                            *)
LEMMA GoesOnKeeps ==
  ASSUME CacheInv, NEW c \in Cluster, NEW g \in Object, NEW to \in Places,
         GoesOn(c, g, to)
  PROVE  CacheInv'
<1> USE CacheAssumption DEF CacheInv, CacheTypes, GoesOn, Places
<1>1. g \in 0..MaxEngage /\ g # 0
  BY DEF Object
<1>2. Registered(c, g) \in 0..MaxEngage /\ Registered(c, g) <= attached[c]
  BY DEF Registered
<1>3. /\ resolvers' \in [Cluster -> 0..MaxEngage]
      /\ \A d \in Cluster : resolvers'[d] <= attached'[d]
  <2>1. CASE UNCHANGED resolvers
    BY <2>1
  <2>2. CASE resolvers' = [resolvers EXCEPT ![c] = Registered(c, g)]
    BY <1>2, <2>2
  <2> QED  BY <2>1, <2>2
<1>4. /\ storeSeen' \in [Cluster -> [Object -> StoreID]]
      /\ \A d \in Cluster, h \in Object : storeSeen[d][h] # 0 => storeSeen'[d][h] # 0
  <2>1. CASE UNCHANGED storeSeen
    BY <2>1
  <2>2. CASE storeId # 0 /\ storeSeen' = [storeSeen EXCEPT ![c][g] = storeId]
    BY <2>2
  <2> QED  BY <2>1, <2>2
<1>5. /\ info' \in [Cluster -> [store : StoreID, by : 0..MaxEngage]]
      /\ \A d \in Cluster : (info'[d].by = 0) = (info'[d].store = 0)
  <2>1. CASE UNCHANGED info
    BY <2>1
  <2>2. CASE /\ storeSeen[c][g] # 0
             /\ info' = [info EXCEPT ![c] = [store |-> storeSeen[c][g], by |-> g]]
    <3>1. storeSeen[c][g] \in StoreID
      OBVIOUS
    <3> QED  BY <2>2, <3>1, <1>1
  <2> QED  BY <2>1, <2>2
<1>6. goroutine' \in [Cluster -> [Object -> {"none", "try", "cache", "wait", "leave"}]]
  OBVIOUS
<1>7. \A d \in Cluster, h \in Object :
        goroutine'[d][h] = IF d = c /\ h = g THEN to ELSE goroutine[d][h]
  OBVIOUS
<1>8. \A d \in Cluster, h \in Object : goroutine'[d][h] = "cache" => storeSeen'[d][h] # 0
  BY <1>4, <1>7
<1>9. ActiveIsRegistered'
  <2> SUFFICES ASSUME NEW d \in Cluster, NEW h \in Object,
                      goroutine'[d][h] # "none", h \notin ended'[d]
               PROVE  resolvers'[d] = h
    BY DEF ActiveIsRegistered
  <2>1. goroutine[d][h] # "none" /\ h \notin ended[d]
    BY <1>7
  <2>2. resolvers[d] = h
    BY <2>1 DEF ActiveIsRegistered
  <2>3. CASE UNCHANGED resolvers
    BY <2>2, <2>3
  <2>4. CASE to = "none" /\ resolvers' = [resolvers EXCEPT ![c] = Registered(c, g)]
    <3>1. ~(d = c /\ h = g)
      BY <2>4, <1>7
    <3>2. CASE d = c
      BY <2>2, <2>4, <3>1, <3>2 DEF Registered
    <3>3. CASE d # c
      BY <2>2, <2>4, <3>3
    <3> QED  BY <3>2, <3>3
  <2> QED  BY <2>3, <2>4
<1>10. CacheTypes'
  BY <1>3, <1>4, <1>5, <1>6
<1> QED
  BY <1>3, <1>5, <1>8, <1>9, <1>10

LEMMA ResolveKeeps ==
  ASSUME CacheInv, NEW c \in Cluster, NEW g \in Object, Resolve(c, g)
  PROVE  CacheInv'
<1> SUFFICES \E to \in Places : GoesOn(c, g, to)
  BY GoesOnKeeps
<1> USE DEF GoesOn, Places
<1>1. CASE TrySkips(c, g)
  <2>1. GoesOn(c, g, "leave")
    BY <1>1 DEF TrySkips
  <2> QED  BY <2>1
<1>2. CASE TryReads(c, g)
  <2>1. storeSeen'[c][g] = storeId
    BY <1>2 DEF TryReads, CacheInv, CacheTypes
  <2>2. GoesOn(c, g, "cache")
    BY <1>2, <2>1 DEF TryReads
  <2> QED  BY <2>2
<1>3. CASE TryFails(c, g)
  <2>1. GoesOn(c, g, "wait")
    BY <1>3 DEF TryFails, AfterFailure
  <2> QED  BY <2>1
<1>4. CASE TryCaches(c, g)
  <2>1. storeSeen[c][g] # 0
    BY <1>4 DEF TryCaches, CacheInv
  <2>2. GoesOn(c, g, "leave")
    BY <1>4, <2>1 DEF TryCaches
  <2> QED  BY <2>2
<1>5. CASE Backoff(c, g)
  <2>1. GoesOn(c, g, "leave") \/ GoesOn(c, g, "try")
    BY <1>5 DEF Backoff
  <2> QED  BY <2>1
<1>6. CASE Leave(c, g)
  <2>1. GoesOn(c, g, "none")
    BY <1>6 DEF Leave
  <2> QED  BY <2>1
<1> QED
  BY <1>1, <1>2, <1>3, <1>4, <1>5, <1>6 DEF Resolve

(* The batch handler only reads the cache.                                 *)
LEMMA BatchTypes ==
  ASSUME CacheTypes,
         BatchStart \/ BatchSend \/ \E c \in Cluster : BatchItem(c)
  PROVE  batch' \in [left : SUBSET Cluster, store : StoreID,
                     outcome : {"none", "reading", "sent", "failed", "mismatch"}]
<1> USE DEF CacheTypes
<1>1. 0 \in StoreID
  BY CacheAssumption DEF StoreID
<1>2. CASE BatchStart
  BY <1>1, <1>2 DEF BatchStart
<1>3. CASE BatchSend
  BY <1>3 DEF BatchSend
<1>4. ASSUME NEW c \in Cluster, BatchItem(c)
      PROVE  batch' \in [left : SUBSET Cluster, store : StoreID,
                         outcome : {"none", "reading", "sent", "failed", "mismatch"}]
  <2>1. info[c].store \in StoreID /\ batch.store \in StoreID
    OBVIOUS
  <2> QED  BY <1>4, <2>1 DEF BatchItem
<1> QED  BY <1>2, <1>3, <1>4

LEMMA CacheStep ==
  ASSUME CacheInv, [CacheNext]_cacheVars
  PROVE  CacheInv'
<1>1. CASE MakeStore
  <2>1. storeId + 1 \in StoreID
    BY <1>1, CacheAssumption DEF MakeStore, CacheInv, CacheTypes, StoreID
  <2> QED
    BY <1>1, <2>1 DEF MakeStore, resolverVars, CacheInv, CacheTypes, ActiveIsRegistered
<1>2. ASSUME NEW c \in Cluster, Engage(c)
      PROVE  CacheInv'
  BY <1>2, EngageKeeps
<1>3. ASSUME NEW c \in Cluster, NEW g \in Object, Resolve(c, g)
      PROVE  CacheInv'
  BY <1>3, ResolveKeeps
<1>4. CASE BatchStart \/ BatchSend \/ \E c \in Cluster : BatchItem(c)
  <2>1. UNCHANGED <<storeId, resolverVars>>
    BY <1>4 DEF BatchStart, BatchSend, BatchItem
  <2>2. batch' \in [left : SUBSET Cluster, store : StoreID,
                    outcome : {"none", "reading", "sent", "failed", "mismatch"}]
    BY <1>4, BatchTypes DEF CacheInv
  <2> QED  BY <2>1, <2>2 DEF resolverVars, CacheInv, CacheTypes, ActiveIsRegistered
<1>5. CASE UNCHANGED cacheVars
  BY <1>5 DEF cacheVars, resolverVars, CacheInv, CacheTypes, ActiveIsRegistered
<1> QED
  BY <1>1, <1>2, <1>3, <1>4, <1>5 DEF CacheNext

(* The resolvers, what they have read and cached and the batch request     *)
(* keep their types, for any clusters and any number of Engage calls.      *)
THEOREM CacheTypeCorrect ==
  CacheSpec => []CacheTypeOK
<1>1. CacheInv => CacheTypeOK
  BY DEF CacheInv, CacheTypes, CacheTypeOK
<1>2. CacheInv /\ [CacheNext]_cacheVars => CacheInv'
  BY CacheStep
<1> QED  BY <1>1, <1>2, CacheInitially, PTL DEF CacheSpec

(* A resolver whose context lives is the one in the map, so that a new     *)
(* Engage finds it and cancels it, for any clusters and however Engage     *)
(* calls overtake the goroutines (the cleanup compares identities).        *)
THEOREM ActiveRegistered ==
  CacheSpec => []ActiveIsRegistered
<1>1. CacheInv => ActiveIsRegistered
  BY DEF CacheInv
<1>2. CacheInv /\ [CacheNext]_cacheVars => CacheInv'
  BY CacheStep
<1> QED  BY <1>1, <1>2, CacheInitially, PTL DEF CacheSpec

(* What resolvers have read, the cache holds and a batch compares are      *)
(* StoreIDs the Store has had.                                             *)
StoresKnown ==
  /\ \A c \in Cluster, g \in Object : storeSeen[c][g] <= storeId
  /\ \A c \in Cluster : info[c].store <= storeId
  /\ batch.store <= storeId

LEMMA StoresKnownStep ==
  ASSUME CacheInv, StoresKnown, [CacheNext]_cacheVars
  PROVE  StoresKnown'
<1> USE CacheAssumption DEF CacheInv, CacheTypes, StoreID
<1>1. CASE MakeStore
  BY <1>1 DEF MakeStore, resolverVars, StoresKnown
<1>2. ASSUME NEW c \in Cluster, Engage(c)
      PROVE  StoresKnown'
  BY <1>2 DEF Engage, StoresKnown
<1>3. ASSUME NEW c \in Cluster, NEW g \in Object, Resolve(c, g)
      PROVE  StoresKnown'
  <2>1. CASE TryReads(c, g)
    BY <2>1 DEF TryReads, StoresKnown
  <2>2. CASE TryCaches(c, g)
    BY <2>2 DEF TryCaches, StoresKnown
  <2>3. CASE ~TryReads(c, g) /\ ~TryCaches(c, g)
    <3>1. UNCHANGED <<storeId, storeSeen, info, batch>>
      BY <1>3, <2>3 DEF Resolve, TrySkips, TryFails, Backoff, Leave
    <3> QED  BY <3>1 DEF StoresKnown
  <2> QED  BY <2>1, <2>2, <2>3
<1>4. CASE BatchStart
  BY <1>4 DEF BatchStart, resolverVars, StoresKnown
<1>5. CASE BatchSend
  BY <1>5 DEF BatchSend, resolverVars, StoresKnown
<1>6. ASSUME NEW c \in Cluster, BatchItem(c)
      PROVE  StoresKnown'
  BY <1>6 DEF BatchItem, resolverVars, StoresKnown
<1>7. CASE UNCHANGED cacheVars
  BY <1>7 DEF cacheVars, resolverVars, StoresKnown
<1> QED
  BY <1>1, <1>2, <1>3, <1>4, <1>5, <1>6, <1>7 DEF CacheNext

(* As long as the FGA store was not made anew, all items of a batch have   *)
(* the same StoreID (the comment in buildChecks), for any clusters and     *)
(* whichever of them are resolved; with two stores it is false.            *)
THEOREM OneStorePerBatch ==
  CacheSpec => [](storeId <= 1 => BatchInOneStore)
<1> DEFINE Same == storeId <= 1 => BatchInOneStore
           Inv == CacheInv /\ StoresKnown /\ Same
<1>1. CacheInit => Inv
  <2> SUFFICES ASSUME CacheInit PROVE Inv
    OBVIOUS
  <2>1. CacheInv
    BY CacheInitially
  <2>2. StoresKnown /\ BatchInOneStore
    BY DEF CacheInit, StoresKnown, BatchInOneStore, NoInfo, NoBatch
  <2> QED  BY <2>1, <2>2
<1>2. Inv /\ [CacheNext]_cacheVars => Inv'
  <2> SUFFICES ASSUME CacheInv, StoresKnown, Same, [CacheNext]_cacheVars, storeId' <= 1
               PROVE  BatchInOneStore'
    BY CacheStep, StoresKnownStep
  <2>1. ASSUME NEW c \in Cluster, BatchItem(c)
        PROVE  BatchInOneStore'
    <3>1. storeId <= 1
      BY <2>1 DEF BatchItem
    <3>2. info[c].store \in {0, 1} /\ batch.store \in {0, 1}
      <4>1. info[c].store \in StoreID /\ batch.store \in StoreID /\ storeId \in StoreID
        BY DEF CacheInv, CacheTypes
      <4>2. info[c].store <= storeId /\ batch.store <= storeId
        BY DEF StoresKnown
      <4>3. \A n \in StoreID : n \in Int /\ n >= 0
        BY CacheAssumption DEF StoreID
      <4> QED  BY <3>1, <4>1, <4>2, <4>3
    <3>3. info[c].store \in {0, batch.store} \/ batch.store = 0
      BY <3>2
    <3> QED  BY <2>1, <3>3 DEF BatchItem, BatchInOneStore
  <2>2. CASE BatchStart
    BY <2>2 DEF BatchStart, BatchInOneStore
  <2>3. CASE BatchSend
    BY <2>3 DEF BatchSend, BatchInOneStore, CacheInv, CacheTypes
  <2>4. CASE MakeStore
    BY <2>4, CacheAssumption
    DEF MakeStore, BatchInOneStore, CacheInv, CacheTypes, StoreID
  <2>5. ASSUME UNCHANGED <<storeId, batch>>
        PROVE  BatchInOneStore'
    BY <2>5 DEF BatchInOneStore
  <2>6. ASSUME NEW c \in Cluster, Engage(c)
        PROVE  BatchInOneStore'
    BY <2>5, <2>6 DEF Engage
  <2>7. ASSUME NEW c \in Cluster, NEW g \in Object, Resolve(c, g)
        PROVE  BatchInOneStore'
    BY <2>5, <2>7 DEF Resolve, TrySkips, TryReads, TryFails, TryCaches, Backoff, Leave
  <2> QED
    BY <2>1, <2>2, <2>3, <2>4, <2>5, <2>6, <2>7 DEF CacheNext, cacheVars
<1>3. Inv => Same
  OBVIOUS
<1> QED  BY <1>1, <1>2, <1>3, PTL DEF CacheSpec
===============================================================================
