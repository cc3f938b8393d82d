------------------------------ MODULE MCPlatform ------------------------------
(***************************************************************************)
(* What platform-mesh-operator does, and services around the API, for TLC. *)
(* The parts share no state (Bootstrap abstracts what the other parts of   *)
(* the operator detail), so one run explores them one at a time: the part  *)
(* is chosen in the initial state.                                         *)
(***************************************************************************)
EXTENDS Bootstrap, ImageVersions, HelmReleases,
        MissTracker, SearchIndexing, TLC

CONSTANTS i1, i2, traefik, iam, portal, q1, q2, r1

MCLatest == (i1 :> 2) @@ (i2 :> 1)
MCRequires == (portal :> {traefik, iam}) @@ (iam :> {traefik})

VARIABLE part

platformVars == <<vars, imageVars, releaseVars, trackerVars, indexingVars>>

(* A part that is not explored has one initial state.                      *)
PlatformInit ==
  /\ part \in {"installation", "images", "releases", "tracker", "indexing"}
  /\ Init /\ (part # "installation" => cert = None)
  /\ ImageInit /\ TrackerInit
  /\ IndexingInit /\ (part # "indexing" => ~opensearch.legacy)
  /\ IF part = "releases" THEN ReleasesInit ELSE
       /\ enabled = {} /\ toggles = 0 /\ failures = 0 /\ pass = "idle" /\ disabled = {}
       /\ state = [r \in HelmRelease |-> "absent"]
       /\ dependsOn = [r \in HelmRelease |-> {}]

PlatformNext ==
  /\ UNCHANGED part
  /\ \/ /\ part = "installation" /\ Next
        /\ UNCHANGED <<imageVars, releaseVars, trackerVars, indexingVars>>
     \/ /\ part = "images" /\ ImageNext
        /\ UNCHANGED <<vars, releaseVars, trackerVars, indexingVars>>
     \/ /\ part = "releases" /\ ReleasesNext
        /\ UNCHANGED <<vars, imageVars, trackerVars, indexingVars>>
     \/ /\ part = "tracker" /\ TrackerNext
        /\ UNCHANGED <<vars, imageVars, releaseVars, indexingVars>>
     \/ /\ part = "indexing" /\ IndexingNext
        /\ UNCHANGED <<vars, imageVars, releaseVars, trackerVars>>

explored ==
  CASE part = "installation" -> vars [] part = "images" -> imageVars
    [] part = "releases" -> releaseVars [] part = "tracker" -> trackerVars
    [] part = "indexing" -> indexingVars

(* The fairness that the parts need, weaker than that of their modules     *)
(* where any of several actions will do.  The part never changes, so one   *)
(* condition serves an action of every part.                               *)
Fair1 == UNCHANGED part /\
  \/ part = "installation" /\ Reconcile
  \/ part = "images" /\ Render
  \/ part = "releases" /\ Pass
  \/ part = "indexing" /\ BindingStep

Fair2 == UNCHANGED part /\
  \/ part = "installation" /\ ReconcileCharts
  \/ part = "images" /\ Apply
  \/ part = "releases" /\ \E r \in HelmRelease : FluxInstalls(r) \/ FluxUninstalls(r)
  \/ part = "indexing" /\ LifecycleStep

Fair3 == UNCHANGED part /\
  \/ part = "installation" /\ (Issue \/ StartKcp \/ ManageClients)
  \/ part = "indexing" /\ AccountAppears

Fair4 == UNCHANGED part /\
  \/ part = "installation" /\ \E r \in Infra \cup Components : Install(r)
  \/ part = "indexing" /\ \E r \in Resource : ResourceStep(r)

Fair5 == UNCHANGED part /\ part = "indexing" /\ \E r \in Resource : SyncResource(r)

FairPass(i) == UNCHANGED part /\ part = "images" /\ ResourcePass(i)
FairServe(r) == UNCHANGED part /\ part = "tracker" /\ ~At(r, {"idle"}) /\ Serve(r)

PlatformFairness ==
  /\ WF_explored(Fair1) /\ WF_explored(Fair2) /\ WF_explored(Fair3)
  /\ WF_explored(Fair4) /\ WF_explored(Fair5)
  /\ \A i \in Images : WF_explored(FairPass(i))
  /\ \A r \in Request : WF_explored(FairServe(r))

PlatformSpec == PlatformInit /\ [][PlatformNext]_<<part, platformVars>> /\ PlatformFairness

PlatformTypeOK ==
  /\ TypeOK /\ ImageTypeOK /\ ReleasesTypeOK
  /\ TrackerTypeOK /\ IndexingTypeOK

PlatformInstalls == part = "installation" => Installs
PlatformTrustsTheIssuer == part = "installation" => TrustsTheIssuer
ImagesConverge == part = "images" => Converges
===============================================================================
