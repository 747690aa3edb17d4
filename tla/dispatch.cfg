SPECIFICATION DispatchSpec
CONSTANTS
  Managed <- MCManaged
  Mitigator = "ConflictMitigator"
  Callers = {"caller"}
  Commands = {"a1", "a2", "b1", "m1"}
  Owner <- MCOwner
  Target <- MCTarget
  Accepts <- MCAccepts
  Malformed = {"a2"}
  Registered = {"a1", "a2", "b1", "m1"}
  Raises = {"b1"}
  Strategy = "min_gap"
  Gap = 1
  MaxClock = 2
  None = "none"
INVARIANTS
  DispatchTypeOK
  OnePlace
  PriorityWins
PROPERTY
  CommandsSettle
CHECK_DEADLOCK FALSE
