------------------------------ MODULE Bootstrap ------------------------------
(***************************************************************************)
(* The platform-mesh-operator brings up an installation: the chain of      *)
(* subroutines over the PlatformMesh resource (Deployment, KcpSetup,       *)
(* ProviderSecret, Wait), one action per call that changes or reads the    *)
(* clusters, next to the systems it waits for: the Resource engine, Flux,  *)
(* cert-manager, the kcp operator and the security operator.               *)
(*                                                                         *)
(* Each of those needs what another step of the chain leaves behind, so    *)
(* the order of the steps, and which failures end a pass, decide whether   *)
(* an installation ever becomes ready.                                     *)
(***************************************************************************)
EXTENDS Integers, FiniteSets

CONSTANTS
  MaxCA,        \* bound: certificate authorities of the authorization webhook
  MaxFaults     \* bound: failed calls and restarts of the operator

ASSUME BootstrapAssumption == MaxCA \in Nat \ {0} /\ MaxFaults \in Nat

VARIABLES
  step,       \* the next step of the pass over the PlatformMesh
  templates,  \* the template directories that have been applied
  charts,     \* the OCIRepositories exist
  running,    \* the releases Flux has installed and reports ready
  sidecar,    \* the operator's pod has the istio proxy
  cert,       \* the CA of the webhook's serving certificate
  hook,       \* the CA in the kubeconfig kcp calls the webhook with
  pods,       \* the CA the kcp pods have loaded, None: no pods
  secrets,    \* the provider secrets have been written
  idp,        \* the identity provider configuration "welcome"
  audience,   \* the audiences of the workspace authentication configuration
  seen,       \* the welcome clients the KcpSetup subroutine has read
  ready,      \* the condition Ready of the PlatformMesh
  faults      \* failed calls and restarts so far

vars == <<step, templates, charts, running, sidecar, cert, hook, pods, secrets,
          idp, audience, seen, ready, faults>>

\* The operator's steps, in the order of the chain.
Directories == <<"infra", "runtime", "components runtime", "components infra">>
Steps == {"idle", "crds", "certs", "hook", "ca", "restart", "istio", "kcp",
          "clients", "kcpdir", "providers", "wait"}
         \cup {Directories[n] : n \in DOMAIN Directories}

Infra == {"cert-manager"}
Components == {"istiod", "kcp-operator", "security-operator"}

None == -2        \* no certificate, no secret, no pods
Placeholder == -1 \* the kubeconfig as the manifest has it
SelfSigned == 0   \* a certificate from before there was a CA issuer
CAs == SelfSigned..MaxCA

Init ==
  /\ step = "idle"
  /\ templates = {}
  /\ charts = FALSE
  /\ running = {}
  /\ sidecar = FALSE
  /\ cert \in {None, SelfSigned}
  /\ hook = None
  /\ pods = None
  /\ secrets = FALSE
  /\ idp = "none"
  /\ audience = "none"
  /\ seen = FALSE
  /\ ready = FALSE
  /\ faults = 0

world == <<charts, running, cert, idp>>
cluster == <<templates, hook, pods, secrets, audience>>

-----------------------------------------------------------------------------
\* The chain of subroutines

\* A step hands over to the next one and does nothing else to the operator.
Continue(next) == step' = next /\ UNCHANGED <<sidecar, seen, ready, faults>>

\* StopWithRequeue: the pass ends here, the mesh is not ready, another follows.
StopWithRequeue ==
  /\ step' = "idle"
  /\ ready' = FALSE
  /\ UNCHANGED <<sidecar, seen, faults>>

Start ==
  /\ step = "idle"
  /\ Continue("infra")
  /\ UNCHANGED <<world, cluster>>

\* A call fails: the error ends the pass and the mesh is not ready.
Fail ==
  /\ step # "idle"
  /\ faults < MaxFaults
  /\ faults' = faults + 1
  /\ step' = "idle"
  /\ ready' = FALSE
  /\ UNCHANGED <<world, cluster, sidecar, seen>>

\* The operator stops; its pod comes back with a proxy if istiod injects one.
Restart ==
  /\ faults < MaxFaults
  /\ faults' = faults + 1
  /\ step' = "idle"
  /\ sidecar' = ("istiod" \in running)
  /\ UNCHANGED <<world, cluster, seen, ready>>

\* Mutant of AfterDirectory: the chain waits for cert-manager before it
\* applies the components.
MutWaitsEarly(d) == IF d = "infra" THEN "runtime" ELSE "crds"

\* The four directories are applied before anything is waited for: the charts
\* of the infra releases are among the components' runtime templates.
AfterDirectory(d) ==
  CASE d = "infra" -> "runtime"
    [] d = "runtime" -> "components runtime"
    [] d = "components runtime" -> "components infra"
    [] d = "components infra" -> "crds"

\* Renders and applies one directory of templates.
ApplyTemplates ==
  \E n \in DOMAIN Directories :
    /\ step = Directories[n]
    /\ templates' = templates \cup {step}
    /\ Continue(AfterDirectory(step))
    /\ UNCHANGED <<world, hook, pods, secrets, audience>>

\* The cert-manager CRDs must be established before certificates are asked for.
CheckCRDs ==
  /\ step = "crds"
  /\ IF "cert-manager" \in running THEN Continue("certs") ELSE StopWithRequeue
  /\ UNCHANGED <<world, cluster>>

\* The issuers and the certificates of the authorization webhook.
ApplyCertificates ==
  /\ step = "certs"
  /\ templates' = templates \cup {"webhook certificates"}
  /\ Continue("hook")
  /\ UNCHANGED <<world, hook, pods, secrets, audience>>

\* The kubeconfig for kcp is created from the manifest, unless it exists.
CreateKcpWebhookSecret ==
  /\ step = "hook"
  /\ hook' = IF hook = None THEN Placeholder ELSE hook
  /\ Continue("ca")
  /\ UNCHANGED <<world, templates, pods, secrets, audience>>

\* Mutant of MustUpdate: only the manifest's placeholder is replaced.
MutOnlyPlaceholder == cert # None /\ hook = Placeholder

MustUpdate == cert # None /\ hook # cert

\* The CA of the serving certificate is written into the kubeconfig when it
\* is another one; a certificate that is not there yet is waited for in later
\* passes, without holding up this one.
UpdateKcpWebhookSecret ==
  /\ step = "ca"
  /\ IF MustUpdate
     THEN hook' = cert /\ Continue("restart")
     ELSE Continue("istio") /\ UNCHANGED hook
  /\ UNCHANGED <<world, templates, pods, secrets, audience>>

\* The kcp pods are deleted so that they load the kubeconfig again.
DeleteKcpPods ==
  /\ step = "restart"
  /\ pods' = None
  /\ Continue("istio")
  /\ UNCHANGED <<world, templates, hook, secrets, audience>>

\* Once istiod is ready, an operator without a proxy deletes its own pod.
CheckIstio ==
  /\ step = "istio"
  /\ UNCHANGED <<world, cluster>>
  /\ \/ "istiod" \notin running /\ StopWithRequeue
     \/ "istiod" \in running /\ sidecar /\ Continue("kcp")
     \/ /\ "istiod" \in running /\ ~sidecar
        /\ step' = "idle"
        /\ sidecar' = TRUE
        /\ UNCHANGED <<seen, ready, faults>>

Available == pods # None

\* The RootShard and the FrontProxy must be available.
CheckKcp ==
  /\ step = "kcp"
  /\ IF Available THEN Continue("clients") ELSE StopWithRequeue
  /\ UNCHANGED <<world, cluster>>

\* KcpSetup reads the clients of the identity provider "welcome"; a failed
\* read counts as a configuration that is not there.
ReadClients ==
  /\ step = "clients"
  /\ step' = "kcpdir"
  /\ \/ seen' = (idp = "managed") /\ UNCHANGED faults
     \/ seen' = FALSE /\ faults < MaxFaults /\ faults' = faults + 1
  /\ UNCHANGED <<world, cluster, sidecar, ready>>

\* A refused identity provider configuration is left to a later pass.
AfterKcpSetup == "providers"

\* The manifests of the kcp workspaces: the authentication configuration with
\* the clients that were read, and the identity provider configuration, which
\* is only accepted once the security operator's webhook answers.
ApplyKcpDirectory ==
  /\ step = "kcpdir"
  /\ Available
  /\ audience' = IF seen THEN "set" ELSE "empty"
  /\ idp' = IF idp = "none" /\ "security-operator" \in running
            THEN "created" ELSE idp
  /\ Continue(AfterKcpSetup)
  /\ UNCHANGED <<charts, running, cert, templates, hook, pods, secrets>>

\* kcp does not answer: the pass fails.
KcpUnavailable ==
  /\ step \in {"kcpdir", "providers"}
  /\ ~Available
  /\ StopWithRequeue
  /\ UNCHANGED <<world, cluster>>

\* The kubeconfigs of the providers, the security operator's among them.
WriteProviderSecrets ==
  /\ step = "providers"
  /\ Available
  /\ secrets' = TRUE
  /\ Continue("wait")
  /\ UNCHANGED <<world, templates, hook, pods, audience>>

Deployed == Infra \cup Components \subseteq running

AudienceSet == audience = "set"

\* Wait: every release is ready, and the audiences are no longer empty; when
\* those cannot be read the check is skipped.
Wait ==
  /\ step = "wait"
  /\ step' = "idle"
  /\ \/ ready' = (Deployed /\ AudienceSet) /\ UNCHANGED faults
     \/ ready' = Deployed /\ faults < MaxFaults /\ faults' = faults + 1
  /\ UNCHANGED <<world, cluster, sidecar, seen>>

Reconcile ==
  \/ Start \/ ApplyTemplates \/ CheckCRDs \/ ApplyCertificates
  \/ CreateKcpWebhookSecret \/ UpdateKcpWebhookSecret \/ DeleteKcpPods
  \/ CheckIstio \/ CheckKcp \/ ReadClients \/ ApplyKcpDirectory
  \/ KcpUnavailable \/ WriteProviderSecrets \/ Wait

-----------------------------------------------------------------------------
\* The systems around the operator

operator == <<step, templates, hook, secrets, audience, sidecar, seen, ready,
              faults>>

\* The Resource engine turns the OCM Resources of the charts, which are among
\* the components' runtime templates, into OCIRepositories.
ReconcileCharts ==
  /\ "components runtime" \in templates
  /\ ~charts
  /\ charts' = TRUE
  /\ UNCHANGED <<operator, running, cert, idp, pods>>

\* What a release needs besides its HelmRelease and its chart.
Needs(r) ==
  CASE r \in Infra -> "infra" \in templates
    [] r \in {"istiod", "kcp-operator"} -> "components infra" \in templates
    [] r = "security-operator" -> "components infra" \in templates /\ secrets

\* Flux installs a release.
Install(r) ==
  /\ r \notin running
  /\ charts
  /\ Needs(r)
  /\ running' = running \cup {r}
  /\ UNCHANGED <<operator, charts, cert, idp, pods>>

\* cert-manager issues the serving certificate, replaces a self-signed one,
\* or signs it with the next CA.
Issue ==
  /\ "webhook certificates" \in templates
  /\ cert < 1
  /\ cert' = 1
  /\ UNCHANGED <<operator, charts, running, idp, pods>>

RenewCA ==
  /\ cert \in 1..MaxCA - 1
  /\ cert' = cert + 1
  /\ UNCHANGED <<operator, charts, running, idp, pods>>

\* The kcp operator runs the pods, which load the kubeconfig as it is then.
StartKcp ==
  /\ "kcp-operator" \in running
  /\ hook # None
  /\ ~Available
  /\ pods' = hook
  /\ UNCHANGED <<operator, world>>

\* The security operator registers the clients of "welcome".
ManageClients ==
  /\ "security-operator" \in running
  /\ idp = "created"
  /\ idp' = "managed"
  /\ UNCHANGED <<operator, charts, running, cert, pods>>

Surroundings ==
  \/ ReconcileCharts \/ Issue \/ StartKcp \/ ManageClients
  \/ \E r \in Infra \cup Components : Install(r)

-----------------------------------------------------------------------------
Next ==
  \/ Reconcile
  \/ Fail
  \/ Restart
  \/ Surroundings
  \/ RenewCA

\* The operator is requeued after every pass: at once or by the rate limiter
\* when it did not finish, for the renewal of the provider tokens when it did.
\* Each of the other systems does what it has been asked for.
Fairness ==
  /\ WF_vars(Reconcile)
  /\ WF_vars(ReconcileCharts)
  /\ WF_vars(Issue)
  /\ WF_vars(StartKcp)
  /\ WF_vars(ManageClients)
  /\ \A r \in Infra \cup Components : WF_vars(Install(r))

Spec == Init /\ [][Next]_vars
FairSpec == Spec /\ Fairness

-----------------------------------------------------------------------------
\* Properties

\* The shape of the state.
TypeOK ==
  /\ step \in Steps
  /\ templates \subseteq ({Directories[n] : n \in DOMAIN Directories}
                          \cup {"webhook certificates"})
  /\ charts \in BOOLEAN
  /\ running \subseteq (Infra \cup Components)
  /\ sidecar \in BOOLEAN
  /\ cert \in {None} \cup CAs
  /\ hook \in {None, Placeholder} \cup CAs
  /\ pods \in {None, Placeholder} \cup CAs
  /\ secrets \in BOOLEAN
  /\ idp \in {"none", "created", "managed"}
  /\ audience \in {"none", "empty", "set"}
  /\ seen \in BOOLEAN
  /\ ready \in BOOLEAN
  /\ faults \in 0..MaxFaults

\* The installation comes up and stays up: no step of the chain waits for
\* something only a later step brings about.
Installs == <>[]ready

\* The kubeconfig ends up with the CA that signs the webhook's certificate,
\* also after that CA has been replaced.
TrustsTheIssuer == <>[](hook = cert)

\* The mesh becomes ready only when every release it deploys runs and the
\* secrets the providers mount have been written.
ReadyWhenDeployed ==
  [][ready' /\ ~ready => secrets /\ Infra \cup Components \subseteq running]_vars

\* "deleting kcp pods to pick up new certificate-authority-data": the pods end
\* up with the CA of the kubeconfig.
PodsTrustTheIssuer == <>[](pods = hook)

\* "Check if WorkspaceAuthenticationConfiguration audience is still a
\* placeholder": a mesh does not become ready without audiences.
ReadyWithAudience == [][ready' /\ ~ready => AudienceSet]_vars

=============================================================================
