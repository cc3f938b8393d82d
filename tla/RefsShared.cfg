SPECIFICATION FairSpec
CONSTANTS
  Owners = {a1, a2}
  MaxRequests = 2
  MaxDeletes = 1
  MaxChanges = 1
  MaxFails = 1
PROPERTIES TeardownUnreferenced SelfHeals
CHECK_DEADLOCK FALSE
