SPECIFICATION SafetySpec
CONSTANTS
  N = 2
  Processors = {1, 2}
  Finalizers = {2}
  Initializers = {}
  Terminators = {}
  Foreign = {}
  HasInitializer = FALSE
  HasTerminator = FALSE
  HasConditions = TRUE
  HasSpread = FALSE
  ReadOnly = FALSE
  ProcessResults <- AllResults
  FinalizeResults <- MCTeardown
  Faults = TRUE
  MaxGen = 1
  MaxWorld = 1
  theOrg = theOrg
  theChild = theChild
  Account = {theOrg, theChild}
  Orgs = {theOrg}
  Parent <- MCParent
  Bound = {theOrg}
  Guarded = {theOrg}
  MaxAccountFaults = 0
  traefik = traefik
  iam = iam
  portal = portal
  Service = {traefik, iam, portal}
  UserWaves = {2}
  Documents = 4
  AccountOf <- MCAccountOf
  ValueOf <- MCValueOf
  Limit = 1
  BatchSize = 2
  MaxScanned = 3
  MaxEdits = 1
  MaxMishaps = 1
INVARIANTS ReadyTruthful WavesFollowDependencies  AnswersMatchTheIndex
PROPERTIES InfoGoesLast
CHECK_DEADLOCK FALSE
