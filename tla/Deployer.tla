------------------------------- MODULE Deployer -------------------------------
(***************************************************************************)
(* platform-mesh-deployer: the controllers of one PlatformMesh, of its     *)
(* OCMModules and of their OCMModuleSetups.  They share the engaged        *)
(* clusters and talk through each other's status, brought back by watches. *)
(*                                                                         *)
(* A pass is one action: a controller runs one pass of a key at a time.    *)
(* An edition stands for a version of a module's spec and payload: its     *)
(* workload has a kind of its own, next to the ConfigMap every edition     *)
(* has, its workspace has content and its mapping a path.                  *)
(***************************************************************************)
EXTENDS Integers, FiniteSets

CONSTANTS
  Module,        \* OCMModules of the PlatformMesh
  PreTopology,   \* those of stage pre-topology
  Provisioned,   \* those with workspaces
  Mapped,        \* those with a mapped component
  DependsOn,         \* spec.dependsOn
  Placed,        \* the clusters that placements select, once engaged
  Target,       \* clusters that may engage
  RootCluster,   \* where root shard and front proxy run
  MaxEdition,    \* editions of a module
  PathOf,        \* path of a mapped module's mapping, by edition
  TemplatePaths, \* paths in the FrontProxyTemplate
  MaxEvents,     \* bound on what users and mishaps do
  MishapCost     \* what an error, a crash or a lost cluster counts in it

Edition == 1..MaxEdition

(* The CRD lets neither workspaces nor a dependency on a later stage into  *)
(* a pre-topology module; detectCycle rejects cycles.                      *)
ASSUME DeployerAssumption ==
  /\ PreTopology \subseteq Module /\ Mapped \subseteq Module
  /\ Provisioned \subseteq Module \ PreTopology
  /\ DependsOn \in [Module -> SUBSET Module]
  /\ \A m \in PreTopology : DependsOn[m] \subseteq PreTopology
  /\ Placed \in [Module -> SUBSET Target]
  /\ RootCluster \in Target
  /\ MaxEdition \in Nat \ {0} /\ {MaxEvents, MishapCost} \subseteq Nat \ {0}
  /\ DOMAIN PathOf = Mapped /\ \A m \in Mapped : DOMAIN PathOf[m] = Edition

VARIABLES
  engaged,    \* the registry's clusters
  signal,     \* its pending event
  modules,    \* OCMModules: presence, finalizer, edition
  statuses,   \* their status: Ready, AppliedKinds, the mapping's edition or 0
  moduleSecrets,    \* kubeconfigs and certificates of a module: no, asked, issued
  objects,    \* kinds of a module's objects on each cluster, 0 the ConfigMap
  setups,     \* OCMModuleSetups
  workspaces, \* a module's workspace in kcp
  content,    \* edition of the content in it, or 0
  mesh,       \* PlatformMesh: Ready, root structure, rendered shards, routes
  kcp,        \* admin kubeconfig, then root:modules
  queue,      \* what each controller has in its work queue
  events      \* edits, deletions and mishaps so far

registry == <<engaged, signal>>
provisioned == <<workspaces, content>>
deployVars == <<registry, modules, statuses, moduleSecrets, objects, setups,
                provisioned, mesh, kcp, queue, events>>

Kind == 0..MaxEdition
NoModule == [there |-> "no", finalizer |-> FALSE, edition |-> 1]
NoModuleStatus == [ready |-> FALSE, kinds |-> {}, mapping |-> 0]
NoSetup ==
  [there |-> "no", finalizer |-> FALSE, edition |-> 1, ready |-> FALSE, owned |-> FALSE]
There == {"no", "yes", "deleting"}

DeployTypeOK ==
  /\ engaged \subseteq Target /\ signal \in BOOLEAN
  /\ modules \in [Module -> [there : There, finalizer : BOOLEAN, edition : Edition]]
  /\ statuses \in [Module -> [ready : BOOLEAN, kinds : SUBSET Kind, mapping : Kind]]
  /\ moduleSecrets \in [Module -> {"no", "asked", "issued"}]
  /\ objects \in [Target -> [Module -> SUBSET Kind]]
  /\ setups \in [Module -> [there : There, finalizer : BOOLEAN, edition : Edition,
                            ready : BOOLEAN, owned : BOOLEAN]]
  /\ workspaces \in [Module -> {"no", "creating", "ready", "terminating"}]
  /\ content \in [Module -> Kind]
  /\ mesh \in [ready : BOOLEAN, root : BOOLEAN, rendered : SUBSET Target,
               routes : [Module -> Kind]]
  /\ kcp \in {"no", "asked", "minted", "creating", "ready"}
  /\ queue \in [mesh : BOOLEAN, modules : SUBSET Module, setups : SUBSET Module]
  /\ events \in 0..MaxEvents

Existing == {m \in Module : modules[m].there # "no"}

(* The user has created the modules; the deployer starts.                  *)
DeployInit ==
  /\ engaged = {} /\ signal = FALSE
  /\ modules = [m \in Module |-> [NoModule EXCEPT !.there = "yes"]]
  /\ statuses = [m \in Module |-> NoModuleStatus]
  /\ moduleSecrets = [m \in Module |-> "no"]
  /\ objects = [c \in Target |-> [m \in Module |-> {}]]
  /\ setups = [m \in Module |-> NoSetup]
  /\ workspaces = [m \in Module |-> "no"] /\ content = [m \in Module |-> 0]
  /\ mesh = [ready |-> FALSE, root |-> FALSE, rendered |-> {}, routes |-> [m \in Module |-> 0]]
  /\ kcp = "no"
  /\ queue = [mesh |-> TRUE, modules |-> Module, setups |-> {}]
  /\ events = 0

Event == events < MaxEvents /\ events' = events + 1
Mishap == events + MishapCost <= MaxEvents /\ events' = events + MishapCost

-------------------------------------------------------------------------------
(* The watches: who is brought back by a write to q's objects.             *)

Dependents(m) == {n \in Existing : m \in DependsOn[n]}

MutDependentsForgotten(q, m) == [q EXCEPT !.mesh = TRUE, !.modules = @ \cup {m}]

ModuleChanged(q, m) ==
  [q EXCEPT !.mesh = TRUE, !.modules = @ \cup {m} \cup Dependents(m)]

SetupChanged(q, m) ==
  [q EXCEPT !.setups = @ \cup {m}, !.modules = @ \cup {m}]

MeshChanged(q) ==
  [mesh |-> TRUE, modules |-> q.modules \cup Existing,
   setups |-> q.setups \cup {m \in Module : setups[m].there # "no"}]

-------------------------------------------------------------------------------
(* The registry.                                                           *)

Engages(c) ==
  /\ c \notin engaged
  /\ engaged' = engaged \cup {c} /\ signal' = TRUE
  /\ UNCHANGED <<modules, statuses, moduleSecrets, objects, setups, provisioned, mesh,
                 kcp, queue, events>>

Disengages(c) ==
  /\ c \in engaged /\ Mishap
  /\ engaged' = engaged \ {c} /\ signal' = TRUE
  /\ UNCHANGED <<modules, statuses, moduleSecrets, objects, setups, provisioned, mesh,
                 kcp, queue>>

(* Both controllers receive from the one channel: each event reaches       *)
(* either of them.                                                         *)
Deliver ==
  /\ signal /\ signal' = FALSE
  /\ queue' \in {[queue EXCEPT !.mesh = TRUE],
                 [queue EXCEPT !.modules = @ \cup Existing]}
  /\ UNCHANGED <<engaged, modules, statuses, moduleSecrets, objects, setups, provisioned,
                 mesh, kcp, events>>

-------------------------------------------------------------------------------
(* The user's writes to OCMModules.                                        *)

Write(m, mod) ==
  /\ modules' = [modules EXCEPT ![m] = mod]
  /\ queue' = ModuleChanged(queue, m)
  /\ UNCHANGED <<registry, statuses, moduleSecrets, objects, setups, provisioned, mesh,
                 kcp>>

Create(m) == modules[m].there = "no" /\ Event /\ Write(m, [NoModule EXCEPT !.there = "yes"])

Edit(m) ==
  /\ modules[m].there = "yes" /\ Event
  /\ \E e \in Edition \ {modules[m].edition} : Write(m, [modules[m] EXCEPT !.edition = e])

DeleteModule(m) ==
  /\ modules[m].there = "yes" /\ Event
  /\ Write(m, IF modules[m].finalizer THEN [modules[m] EXCEPT !.there = "deleting"] ELSE NoModule)

-------------------------------------------------------------------------------
(* A pass of the OCMModule controller.                                     *)

Dequeued(m) == [queue EXCEPT !.modules = @ \ {m}]

NothingToReconcile(m) ==
  /\ modules[m].there = "no"
  /\ queue' = Dequeued(m)
  /\ UNCHANGED <<registry, modules, statuses, moduleSecrets, objects, setups,
                 provisioned, mesh, kcp, events>>

EnsureFinalizer(m) ==
  /\ modules[m].there = "yes" /\ ~modules[m].finalizer
  /\ modules' = [modules EXCEPT ![m].finalizer = TRUE]
  /\ queue' = ModuleChanged(queue, m)
  /\ UNCHANGED <<registry, statuses, moduleSecrets, objects, setups, provisioned, mesh,
                 kcp, events>>

(* Every engaged cluster is pruned of the kinds the status records, then   *)
(* the module goes, and what it owns is left to the garbage collector.     *)
FinalizeModule(m) ==
  /\ modules[m].there = "deleting"
  /\ objects' = [c \in Target |-> IF c \notin engaged THEN objects[c] ELSE
                   [objects[c] EXCEPT ![m] = @ \ ({0} \cup statuses[m].kinds)]]
  /\ modules' = [modules EXCEPT ![m] = NoModule]
  /\ statuses' = [statuses EXCEPT ![m] = NoModuleStatus]
  /\ moduleSecrets' = [moduleSecrets EXCEPT ![m] = "no"]
  /\ setups' = [setups EXCEPT ![m].owned = FALSE]
  /\ queue' = ModuleChanged(queue, m)
  /\ UNCHANGED <<registry, provisioned, mesh, kcp, events>>

Reconciled(m) == modules[m].there = "yes" /\ modules[m].finalizer

TopologyReady(m) == m \in PreTopology \/ mesh.ready
DependenciesReady(m) == \A d \in DependsOn[m] : d \in Existing /\ statuses[d].ready
Open(m) == TopologyReady(m) /\ DependenciesReady(m)

(* commitStatus, and a write to the setup: the watches fire for what       *)
(* changed; again: the pass is requeued, or retried after an error.        *)
Commit(m, status, setup, again) ==
  LET q == IF again THEN queue ELSE Dequeued(m)
      r == IF status # statuses[m] THEN ModuleChanged(q, m) ELSE q
  IN /\ statuses' = [statuses EXCEPT ![m] = status]
     /\ setups' = [setups EXCEPT ![m] = setup]
     /\ queue' = IF setup # setups[m] THEN SetupChanged(r, m) ELSE r

Unready(m) == [statuses[m] EXCEPT !.ready = FALSE]

(* awaitTopology and awaitDependencies.                                    *)
AwaitGates(m) ==
  /\ Reconciled(m) /\ ~Open(m)
  /\ Commit(m, Unready(m), setups[m], FALSE)
  /\ UNCHANGED <<registry, modules, moduleSecrets, objects, provisioned, mesh, kcp, events>>

(* ensureSetup creates the setup or takes the one that has its name.       *)
Ensured(m) ==
  IF m \notin Provisioned THEN setups[m]
  ELSE IF setups[m].there = "no"
    THEN [NoSetup EXCEPT !.there = "yes", !.edition = modules[m].edition, !.owned = TRUE]
    ELSE [setups[m] EXCEPT !.edition = modules[m].edition, !.owned = TRUE]

SetupReady(m) == m \in Provisioned => setups[m].ready

AwaitSetup(m) ==
  /\ Reconciled(m) /\ Open(m) /\ ~SetupReady(m)
  /\ Commit(m, Unready(m), Ensured(m), FALSE)
  /\ UNCHANGED <<registry, modules, moduleSecrets, objects, provisioned, mesh, kcp, events>>

FanOut(m) == Placed[m] \cap engaged
Deployable(m) == Reconciled(m) /\ Open(m) /\ SetupReady(m)

(* A mapped component's certificate needs the root shard's issuer.         *)
IssuerKnown(m) == m \in Mapped => RootCluster \in engaged
Issued(m) == m \in Mapped \cup Provisioned => moduleSecrets[m] = "issued"

AwaitSecrets(m) ==
  /\ Deployable(m) /\ FanOut(m) # {} /\ ~(Issued(m) /\ IssuerKnown(m))
  /\ moduleSecrets' = [moduleSecrets EXCEPT ![m] =
                         IF @ = "no" /\ IssuerKnown(m) THEN "asked" ELSE @]
  /\ Commit(m, Unready(m), Ensured(m), TRUE)
  /\ UNCHANGED <<registry, modules, objects, provisioned, mesh, kcp, events>>

(* A cluster that something was applied on is pruned of the kinds just     *)
(* applied there, the other engaged clusters of ConfigMaps.                *)
WithApplied(m, cs) == [c \in Target |-> IF c \notin cs THEN objects[c] ELSE
                     [objects[c] EXCEPT ![m] = @ \cup {0, modules[m].edition}]]
PrunedElsewhere(m, cs, os) == [c \in Target |-> IF c \in cs \/ c \notin engaged THEN os[c] ELSE
                     [os[c] EXCEPT ![m] = @ \ {0}]]

CanApply(m) == Deployable(m) /\ (FanOut(m) = {} \/ (Issued(m) /\ IssuerKnown(m)))

DeployInstances(m) ==
  /\ CanApply(m)
  /\ objects' = PrunedElsewhere(m, FanOut(m), WithApplied(m, FanOut(m)))
  /\ LET some == FanOut(m) # {} IN
     Commit(m, [ready |-> TRUE,
                kinds |-> IF some THEN {0, modules[m].edition} ELSE {},
                mapping |-> IF some /\ m \in Mapped THEN modules[m].edition ELSE 0],
            Ensured(m), FALSE)
  /\ UNCHANGED <<registry, modules, moduleSecrets, provisioned, mesh, kcp, events>>

(* An apply fails after the clusters cs: the status keeps the old kinds.   *)
DeployFails(m) ==
  /\ CanApply(m) /\ Mishap
  /\ \E cs \in SUBSET FanOut(m) : cs # FanOut(m) /\ objects' = WithApplied(m, cs)
  /\ Commit(m, Unready(m), Ensured(m), TRUE)
  /\ UNCHANGED <<registry, modules, moduleSecrets, provisioned, mesh, kcp>>

ModulePass(m) ==
  /\ m \in queue.modules
  /\ \/ NothingToReconcile(m) \/ EnsureFinalizer(m) \/ FinalizeModule(m)
     \/ AwaitGates(m) \/ AwaitSetup(m) \/ AwaitSecrets(m) \/ DeployInstances(m)

-------------------------------------------------------------------------------
(* A pass of the PlatformMesh controller.                                  *)

PreTopologyReady == \A m \in PreTopology \cap Existing : statuses[m].ready

Routed == {m \in Mapped : statuses[m].mapping # 0}
Path(m) == PathOf[m][statuses[m].mapping]

(* mergePathMappings refuses a path that two owners claim.                 *)
Collides ==
  \E m \in Routed : Path(m) \in TemplatePaths \/ \E n \in Routed \ {m} : Path(n) = Path(m)

RootEngaged == RootCluster \in engaged

CommitMesh(new, again) ==
  LET q == [queue EXCEPT !.mesh = again] IN
  /\ mesh' = new
  /\ queue' = IF [new EXCEPT !.rendered = {}, !.routes = {}] #
                 [mesh EXCEPT !.rendered = {}, !.routes = {}] THEN MeshChanged(q) ELSE q

AwaitPreTopology ==
  /\ ~PreTopologyReady
  /\ CommitMesh([mesh EXCEPT !.ready = FALSE], FALSE)
  /\ UNCHANGED kcp

(* Root shard and shards are rendered, and those of clusters that are not  *)
(* engaged torn down, before the front proxy's routes are merged.          *)
TopologyFails ==
  /\ PreTopologyReady /\ (~RootEngaged \/ Collides)
  /\ CommitMesh([mesh EXCEPT !.ready = FALSE,
                             !.rendered = IF RootEngaged THEN engaged ELSE @], TRUE)
  /\ UNCHANGED kcp

(* reconcileTopology and reconcileRootStructure, which polls for kcp.      *)
RenderTopology ==
  /\ PreTopologyReady /\ RootEngaged /\ ~Collides
  /\ LET up == kcp = "ready" IN
     CommitMesh([ready |-> up, root |-> up, rendered |-> engaged,
                 routes |-> [m \in Module |-> statuses[m].mapping]], ~up)
  /\ kcp' = CASE kcp = "no" -> "asked" [] kcp = "minted" -> "creating" [] OTHER -> kcp

MeshPass ==
  /\ queue.mesh
  /\ AwaitPreTopology \/ TopologyFails \/ RenderTopology
  /\ UNCHANGED <<registry, modules, statuses, moduleSecrets, objects, setups,
                 provisioned, events>>

-------------------------------------------------------------------------------
(* A pass of the OCMModuleSetup controller, that of the provisioner.       *)

(* Its watch brings back the setup, and the module that owns it.           *)
CommitSetup(m, setup, again) ==
  LET q == IF again THEN queue ELSE [queue EXCEPT !.setups = @ \ {m}] IN
  /\ setups' = [setups EXCEPT ![m] = setup]
  /\ queue' = IF setup # setups[m] THEN SetupChanged(q, m) ELSE q

SetupGone(m) ==
  /\ setups[m].there = "no"
  /\ CommitSetup(m, setups[m], FALSE)
  /\ UNCHANGED provisioned

EnsureSetupFinalizer(m) ==
  /\ setups[m].there = "yes" /\ ~setups[m].finalizer
  /\ CommitSetup(m, [setups[m] EXCEPT !.finalizer = TRUE], FALSE)
  /\ UNCHANGED provisioned

Minted == kcp \in {"minted", "creating", "ready"}

(* Without the admin kubeconfig there is nothing to clean up.              *)
WorkspaceGone(m) == ~Minted \/ workspaces[m] = "no"

FinalizeSetup(m) ==
  /\ setups[m].there = "deleting"
  /\ IF ~RootEngaged
       THEN CommitSetup(m, setups[m], TRUE) /\ UNCHANGED provisioned
       ELSE IF WorkspaceGone(m)
         THEN CommitSetup(m, NoSetup, FALSE) /\ UNCHANGED provisioned
         ELSE /\ CommitSetup(m, setups[m], TRUE)
              /\ workspaces' = [workspaces EXCEPT ![m] = "terminating"]
              /\ UNCHANGED content

Provisions(m) == setups[m].there = "yes" /\ setups[m].finalizer
NotProvisioned(m) == [setups[m] EXCEPT !.ready = FALSE]

AwaitRootStructure(m) ==
  /\ Provisions(m) /\ ~mesh.root
  /\ CommitSetup(m, NotProvisioned(m), FALSE)
  /\ UNCHANGED provisioned

(* Polls for the workspace; without front proxy, or without the module     *)
(* that has the content, the pass fails and is retried.                    *)
AwaitWorkspace(m) ==
  /\ Provisions(m) /\ mesh.root
  /\ ~RootEngaged \/ workspaces[m] # "ready" \/ m \notin Existing
  /\ CommitSetup(m, NotProvisioned(m), TRUE)
  /\ workspaces' = [workspaces EXCEPT ![m] = IF RootEngaged /\ @ = "no" THEN "creating" ELSE @]
  /\ UNCHANGED content

(* The content is that of the module as it is now.                         *)
ApplyContent(m) ==
  /\ Provisions(m) /\ mesh.root /\ RootEngaged /\ workspaces[m] = "ready" /\ m \in Existing
  /\ content' = [content EXCEPT ![m] = modules[m].edition]
  /\ CommitSetup(m, [setups[m] EXCEPT !.ready = TRUE], FALSE)
  /\ UNCHANGED workspaces

SetupPass(m) ==
  /\ m \in queue.setups
  /\ \/ SetupGone(m) \/ EnsureSetupFinalizer(m) \/ FinalizeSetup(m)
     \/ AwaitRootStructure(m) \/ AwaitWorkspace(m) \/ ApplyContent(m)
  /\ UNCHANGED <<registry, modules, statuses, moduleSecrets, objects, mesh, kcp, events>>

-------------------------------------------------------------------------------
(* Around the deployer: kcp-operator, cert-manager and kcp, the garbage    *)
(* collector, and the death of the process, in the middle of a deployment  *)
(* or not: it has no cluster engaged when it is back.                      *)

IssueSecrets(m) ==
  /\ moduleSecrets[m] = "asked" /\ (m \in Mapped => RootCluster \in mesh.rendered)
  /\ moduleSecrets' = [moduleSecrets EXCEPT ![m] = "issued"]
  /\ UNCHANGED <<registry, modules, statuses, objects, setups, provisioned, mesh, kcp,
                 queue, events>>

KcpProgresses ==
  /\ \/ /\ kcp = "asked" /\ kcp' = "minted" /\ UNCHANGED provisioned
     \/ /\ kcp = "creating" /\ kcp' = "ready" /\ UNCHANGED provisioned
     \/ /\ \E m \in Module :
            \/ /\ workspaces[m] = "creating"
               /\ workspaces' = [workspaces EXCEPT ![m] = "ready"] /\ UNCHANGED content
            \/ /\ workspaces[m] = "terminating"
               /\ workspaces' = [workspaces EXCEPT ![m] = "no"]
               /\ content' = [content EXCEPT ![m] = 0]
        /\ UNCHANGED kcp
  /\ UNCHANGED <<registry, modules, statuses, moduleSecrets, objects, setups, mesh,
                 queue, events>>

Collect(m) ==
  /\ setups[m].there = "yes" /\ ~setups[m].owned
  /\ setups' = [setups EXCEPT ![m] =
                  IF @.finalizer THEN [@ EXCEPT !.there = "deleting"] ELSE NoSetup]
  /\ queue' = SetupChanged(queue, m)
  /\ UNCHANGED <<registry, modules, statuses, moduleSecrets, objects, provisioned, mesh,
                 kcp, events>>

Crash ==
  /\ Mishap
  /\ objects' \in {objects} \cup
       {WithApplied(m, cs) : m \in {n \in queue.modules : CanApply(n)}, cs \in SUBSET engaged}
  /\ engaged' = {} /\ signal' = FALSE
  /\ queue' = MeshChanged(queue)
  /\ UNCHANGED <<modules, statuses, moduleSecrets, setups, provisioned, mesh, kcp>>

DeployNext ==
  \/ Deliver \/ MeshPass \/ KcpProgresses \/ Crash
  \/ \E c \in Target : Engages(c) \/ Disengages(c)
  \/ \E m \in Module :
       \/ Create(m) \/ Edit(m) \/ DeleteModule(m) \/ Collect(m) \/ IssueSecrets(m)
       \/ ModulePass(m) \/ DeployFails(m) \/ SetupPass(m)

(* Controllers work off their queues, a requeued key after the others; the *)
(* rest of the world gets on.  Nobody has to engage a cluster.             *)
DeployFairness ==
  /\ WF_deployVars(Deliver) /\ WF_deployVars(MeshPass) /\ WF_deployVars(KcpProgresses)
  /\ \A m \in Module :
       /\ WF_deployVars(ModulePass(m)) /\ WF_deployVars(SetupPass(m))
       /\ WF_deployVars(IssueSecrets(m)) /\ WF_deployVars(Collect(m))

DeploySpec == DeployInit /\ [][DeployNext]_deployVars /\ DeployFairness

-------------------------------------------------------------------------------
(* "The workload is only deployed after that, so it can rely on its         *)
(* workspaces and their content existing" (ensureSetup).                   *)
ContentBeforePayload ==
  [][\A m \in Provisioned, c \in Target :
       modules[m].edition \in objects'[c][m] \ objects[c][m] =>
         workspaces[m] = "ready" /\ content[m] = modules[m].edition]_deployVars

(* Whatever order the watches, polls and registry events come in, and      *)
(* whatever fails, the controllers that wait for each other all get there, *)
(* with the front proxy's cluster engaged and no path claimed twice: the   *)
(* PlatformMesh is Ready and routes to what the modules publish, a module  *)
(* is Ready as soon as what it depends on is, then with content in kcp,    *)
(* and a deleted one takes setup and workspace with it.                    *)
DeploySettles ==
  <>[](\/ ~RootEngaged \/ Collides
       \/ /\ mesh.ready /\ mesh.routes = [m \in Module |-> statuses[m].mapping]
          /\ \A m \in Module :
               CASE modules[m].there = "no" -> setups[m].there = "no" /\ workspaces[m] = "no"
                 [] modules[m].there = "yes" ->
                      /\ statuses[m].ready <=> DependenciesReady(m)
                      /\ statuses[m].ready /\ m \in Provisioned => content[m] # 0
                 [] OTHER -> FALSE)
===============================================================================
