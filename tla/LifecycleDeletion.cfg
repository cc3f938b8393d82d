SPECIFICATION FairSpec
CONSTANTS
  N = 2
  Processors = {1, 2}
  Finalizers = {1, 2}
  Initializers = {}
  Terminators = {}
  Foreign = {other}
  HasInitializer = FALSE
  HasTerminator = FALSE
  HasConditions = FALSE
  HasSpread = FALSE
  ReadOnly = FALSE
  ProcessResults <- CommonResults
  FinalizeResults <- OrderedAnswers
  Faults = TRUE
  MaxGen = 1
  MaxWorld = 2
PROPERTIES DeletionCompletes OrderedTeardown
