SPECIFICATION ResyncSpec
CONSTANTS
  N = 1
  Processors = {1}
  Finalizers = {}
  Initializers = {}
  Terminators = {}
  Foreign = {}
  HasInitializer = FALSE
  HasTerminator = FALSE
  HasConditions = FALSE
  HasSpread = TRUE
  ReadOnly = FALSE
  ProcessResults <- SpreadResults
  FinalizeResults <- CommonTeardown
  Faults = TRUE
  MaxGen = 2
  MaxWorld = 1
 
PROPERTIES StatusMovesForward RefreshAcknowledged SpreadRunsAgain

