SPECIFICATION Spec
CONSTANTS
  Keys = {"x", "reddit"}
  Capacity = 2
  Rate = 1
  Cost = 2
  MaxClock = 2
  NoBucket = NoBucket
  MaxRetries = 2
  MaxRounds = 2
  LocalGates = {"check", "test"}
  Jobs = {"node-20"}
  Proposals = {"P-1", "P-2"}
  MaxHistory = 3
  Connectors = {"x", "reddit"}
  Actions <- MCActions
  Procs = {p1, p2}  p1 = p1  p2 = p2
  Window = 1
  MaxTime = 2
  MaxCommands = 2
  MaxFaults = 1
  Nothing = Nothing
  VariantCount = 2
  PostCount = 3
  Metrics <- MCMetrics
  Ideas <- MCIdeas
  MinSampleSize = 2
  MaxFetches = 2
  MaxDecisions = 2
  Measured <- MCMeasured
  DailyBudget = 2
  MonthlyBudget = 3
  MaxSpent = 3
  Themes <- MCThemes
  Targets <- MCTargets
  Sizes <- MCSizes
  TagLists <- MCTagLists
  Answers <- MCAnswers
  MaxDrafts = 2
INVARIANTS
  TypeOK
  AcquiredWithinRate
  CallsAccounted
  ForwardOnlyWhenAllPass
  HistoryKept
  ViewsAgree
  ExecutesOnlyHarmless
  TextsAsPrepared
PROPERTIES
  CallsSettle
  FollowsTheNumbers
CHECK_DEADLOCK FALSE
