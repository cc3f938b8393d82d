SPECIFICATION ClustersSpec
CONSTANTS
  etcd = etcd
  iam = iam
  c1 = c1
  c2 = c2
  Module = {etcd, iam}
  PreTopology = {etcd}
  Provisioned = {iam}
  Mapped = {iam}
  DependsOn <- MCDependsOn
  Placed <- MCPlaced
  Target = {c1, c2}
  RootCluster = c1
  MaxEdition = 2
  PathOf <- MCPathOf
  TemplatePaths = {"/services"}
  MaxEvents = 2
  MishapCost = 2
  Cluster = {c1, c2}
  Outside = {c2}
  MaxEngage = 2
  MaxStoreIDs = 2
PROPERTIES ContentBeforePayload
CHECK_DEADLOCK FALSE
