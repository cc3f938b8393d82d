SPECIFICATION Spec
CONSTANTS
  N = 2
  Processors = {1, 2}
  Finalizers = {1, 2}
  Initializers = {1}
  Terminators = {2}
  Foreign = {other}
  HasInitializer = TRUE
  HasTerminator = TRUE
  HasConditions = FALSE
  HasSpread = FALSE
  ReadOnly = FALSE
  ProcessResults <- AllResults
  FinalizeResults <- AnyTeardown
  Faults = TRUE
  MaxGen = 1
  MaxWorld = 1
INVARIANTS TypeOK Protected TerminatedBeforeCleared
PROPERTIES InitializedBeforeCleared
