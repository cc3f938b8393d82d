SPECIFICATION FairSpec
CONSTANTS
  Bindings = {b1}
  MaxStores = 2
  MaxBinds = 2
  MaxFaults = 1
PROPERTIES DeletionHonoursReservation ReadyMeansAuthorized Recovers 
CHECK_DEADLOCK FALSE
