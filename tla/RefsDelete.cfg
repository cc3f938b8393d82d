SPECIFICATION Spec
CONSTANTS
  Owners = {a1, a2}
  MaxRequests = 2
  MaxDeletes = 2
  MaxChanges = 0
  MaxFails = 0
PROPERTIES DeletedUnreferenced
CHECK_DEADLOCK FALSE
