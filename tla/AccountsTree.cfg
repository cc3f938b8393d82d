SPECIFICATION FairTree
CONSTANTS
  theOrg = theOrg
  theChild = theChild
  Account = {theOrg, theChild}
  Orgs = {theOrg}
  Parent <- MCParent
  Bound = {}
  Guarded = {}
  MaxAccountFaults = 1
INVARIANTS ReadyMeansUsable
PROPERTIES Onboarded AccountDeletionCompletes
CHECK_DEADLOCK FALSE
