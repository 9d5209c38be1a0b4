SPECIFICATION CallsSpec
CONSTANTS
  Keys = {"x", "reddit"}
  Capacity = 2
  Rate = 1
  Cost = 2
  MaxClock = 2
  NoBucket = NoBucket
  MaxRetries = 2
  MaxRounds = 2
INVARIANTS
  RealTakesPrecedence
CHECK_DEADLOCK FALSE
