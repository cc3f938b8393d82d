SPECIFICATION BrokerSpec
CONSTANTS
  p1 = p1
  p2 = p2
  Providers = {p1, p2}
  None = None
  Shared = {p2}
  MaxOffers = 3
  MaxFails = 2
  StageCount = 2
  Template = {"export", "schema", "import"}
  TemplatesOf <- MCTemplatesOf
  Checked = {1, 2}
  Progress = {1}
  MaxFaults = 1
  MaxStale = 1
  
PROPERTIES KeepsServing DeletionCompletes ObjectEventuallyServed StagesInOrder MigrationCompletes
CHECK_DEADLOCK FALSE
