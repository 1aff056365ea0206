CONSTANTS
  Clients = {c1, c2}
  Days <- MCDays
  MaxCalls = 2
  None = None
SPECIFICATION Spec
CONSTRAINT OneWrite
INVARIANTS CloudTypeOK AckedStays RightlyDated
PROPERTIES KeepsPromise
CHECK_DEADLOCK FALSE
