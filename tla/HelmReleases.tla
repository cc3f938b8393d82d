------------------------------ MODULE HelmReleases ------------------------------
(***************************************************************************)
(* HelmReleases of the platform: what a Deployment pass of                 *)
(* platform-mesh-operator applies, prunes and deletes, against Flux, which *)
(* installs a release once the releases in its dependsOn are ready.        *)
(***************************************************************************)
EXTENDS Integers, FiniteSets

CONSTANTS
  InfraReleases,   \* releases of the infra profile
  ServiceReleases, \* releases of the services
  Requires,        \* the names in the dependsOn of each service
  MaxToggles,      \* bound on switches of a release by the user
  MaxFailures      \* bound on failed API calls

HelmRelease == InfraReleases \cup ServiceReleases

ASSUME ReleaseAssumption ==
  /\ InfraReleases \cap ServiceReleases = {}
  /\ Requires \in [ServiceReleases -> SUBSET HelmRelease]
  /\ MaxToggles \in Nat /\ MaxFailures \in Nat

VARIABLES
  enabled,       \* releases that profile and PlatformMesh switch on
  toggles,       \* switches so far
  failures,      \* failed calls so far
  pass,          \* where the Deployment pass is
  disabled,      \* what this pass still has to delete
  state,         \* state of each HelmRelease
  dependsOn      \* spec.dependsOn as it was applied

releaseVars == <<enabled, toggles, failures, pass, disabled, state, dependsOn>>

Exists(r) == state[r] # "absent"

ReleasesTypeOK ==
  /\ enabled \subseteq HelmRelease
  /\ toggles \in 0..MaxToggles /\ failures \in 0..MaxFailures
  /\ pass \in {"idle", "components", "delete"}
  /\ disabled \subseteq HelmRelease /\ (pass # "delete" => disabled = {})
  /\ state \in [HelmRelease -> {"absent", "waiting", "ready", "terminating"}]
  /\ dependsOn \in [HelmRelease -> SUBSET HelmRelease]
  /\ \A r \in HelmRelease : state[r] = "absent" => dependsOn[r] = {}

ReleasesInit ==
  /\ enabled \in SUBSET HelmRelease
  /\ toggles = 0 /\ failures = 0 /\ pass = "idle" /\ disabled = {}
  /\ state = [r \in HelmRelease |-> "absent"]
  /\ dependsOn = [r \in HelmRelease |-> {}]

Toggle(r) ==
  /\ toggles < MaxToggles /\ toggles' = toggles + 1
  /\ enabled' = (enabled \cup {r}) \ (enabled \cap {r})
  /\ UNCHANGED <<failures, pass, disabled, state, dependsOn>>

Rendered(rs) == [r \in HelmRelease |-> IF r \in rs /\ ~Exists(r) THEN "waiting" ELSE state[r]]

(* renderAndApplyInfraTemplates, and the steps up to the components.       *)
ApplyInfra ==
  /\ pass = "idle" /\ pass' = "components"
  /\ state' = Rendered(InfraReleases \cap enabled)
  /\ UNCHANGED <<enabled, toggles, failures, disabled, dependsOn>>

MutUnpruned(s) == Requires[s]

(* disabledHelmReleases and pruneDisabledDependencies.                     *)
Disabled == HelmRelease \ enabled
Pruned(s) == Requires[s] \ Disabled

(* An apply to a release that Flux still uninstalls succeeds as well.      *)
ApplyComponents ==
  /\ pass = "components" /\ pass' = "delete"
  /\ state' = Rendered(ServiceReleases \cap enabled)
  /\ dependsOn' = [r \in HelmRelease |->
       IF r \in ServiceReleases \cap enabled THEN Pruned(r) ELSE dependsOn[r]]
  /\ disabled' = Disabled
  /\ UNCHANGED <<enabled, toggles, failures>>

(* deleteHelmReleases goes on when a release is not found.                 *)
Delete(r) ==
  /\ pass = "delete" /\ r \in disabled
  /\ disabled' = disabled \ {r}
  /\ state' = [state EXCEPT ![r] = IF Exists(r) THEN "terminating" ELSE "absent"]
  /\ UNCHANGED <<enabled, toggles, failures, pass, dependsOn>>

AllDeleted == disabled = {}

PassEnds ==
  /\ pass = "delete" /\ AllDeleted
  /\ pass' = "idle"
  /\ UNCHANGED <<enabled, toggles, failures, disabled, state, dependsOn>>

(* A call fails, or the operator restarts: the pass starts again.          *)
PassFails ==
  /\ pass # "idle" /\ failures < MaxFailures
  /\ failures' = failures + 1
  /\ pass' = "idle" /\ disabled' = {}
  /\ UNCHANGED <<enabled, toggles, state, dependsOn>>

(* Flux: installs a release whose dependencies are there and ready.        *)
FluxInstalls(r) ==
  /\ state[r] = "waiting"
  /\ \A d \in dependsOn[r] : state[d] = "ready"
  /\ state' = [state EXCEPT ![r] = "ready"]
  /\ UNCHANGED <<enabled, toggles, failures, pass, disabled, dependsOn>>

FluxUninstalls(r) ==
  /\ state[r] = "terminating"
  /\ state' = [state EXCEPT ![r] = "absent"]
  /\ dependsOn' = [dependsOn EXCEPT ![r] = {}]
  /\ UNCHANGED <<enabled, toggles, failures, pass, disabled>>

Pass == ApplyInfra \/ ApplyComponents \/ PassEnds \/ \E r \in HelmRelease : Delete(r)

ReleasesNext ==
  \/ Pass \/ PassFails
  \/ \E r \in HelmRelease : Toggle(r) \/ FluxInstalls(r) \/ FluxUninstalls(r)

(* Passes come again and again (Wait requeues, image versions change, the  *)
(* informer resyncs); Flux gets on with its work.                          *)
ReleasesFairness ==
  /\ WF_releaseVars(Pass)
  /\ \A r \in HelmRelease : WF_releaseVars(FluxInstalls(r)) /\ WF_releaseVars(FluxUninstalls(r))

ReleasesSpec == ReleasesInit /\ [][ReleasesNext]_releaseVars /\ ReleasesFairness

-------------------------------------------------------------------------------
(* A release is only deleted when no release that stays depends on it any  *)
(* more: the pruned dependsOn are applied before deleteHelmReleases.       *)
NoDependencyDeleted ==
  [][\A r \in HelmRelease :
       state[r] # "terminating" /\ state'[r] = "terminating" =>
         \A s \in ServiceReleases : r \in dependsOn[s] =>
           state[s] = "terminating" \/ s \in disabled]_releaseVars

(* Whatever is switched on and off, and in the middle of whichever pass,   *)
(* in the end just the enabled releases are there and all are ready: none  *)
(* waits for a release that is never deployed (pruneDisabledDependencies). *)
Settles ==
  <>[](\A r \in HelmRelease : state[r] = IF r \in enabled THEN "ready" ELSE "absent")
===============================================================================
