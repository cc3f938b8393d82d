------------------------------ MODULE MCClusters ------------------------------
(***************************************************************************)
(* Two processes that clusters engage with and leave, for TLC: the         *)
(* deployer and the cluster cache of rebac-authz-webhook.  They share no   *)
(* state, so one run explores them one at a time.                          *)
(***************************************************************************)
EXTENDS Deployer, ClusterCache, TLC

CONSTANTS etcd, iam, c1, c2

MCDependsOn == (etcd :> {}) @@ (iam :> {etcd})
MCPlaced == (etcd :> {c1}) @@ (iam :> {c1, c2})

(* The second path of iam is one of the template's.                        *)
MCPathOf == iam :> <<"/iam", "/services">>

VARIABLE part

ClustersInit == part \in {"deployer", "cache"} /\ DeployInit /\ CacheInit

ClustersNext ==
  /\ UNCHANGED part
  /\ \/ part = "deployer" /\ DeployNext /\ UNCHANGED cacheVars
     \/ part = "cache" /\ CacheNext /\ UNCHANGED deployVars

InPart(p, A) == part = p /\ A

(* The fairness of each module, for the part that is explored.             *)
ClustersFairness ==
  /\ WF_deployVars(InPart("deployer", Deliver))
  /\ WF_deployVars(InPart("deployer", MeshPass))
  /\ WF_deployVars(InPart("deployer", KcpProgresses))
  /\ \A m \in Module : WF_deployVars(InPart("deployer", ModulePass(m)))
  /\ \A m \in Mapped \cup Provisioned : WF_deployVars(InPart("deployer", IssueSecrets(m)))
  /\ \A m \in Provisioned :
       /\ WF_deployVars(InPart("deployer", SetupPass(m)))
       /\ WF_deployVars(InPart("deployer", Collect(m)))
  /\ \A c \in Cluster, g \in Object :
       /\ WF_cacheVars(InPart("cache", Resolve(c, g)))
       /\ SF_cacheVars(InPart("cache", TryReads(c, g)))

ClustersSpec ==
  ClustersInit /\ [][ClustersNext]_<<part, deployVars, cacheVars>> /\ ClustersFairness

DeployerSettles == part = "deployer" => DeploySettles
===============================================================================
