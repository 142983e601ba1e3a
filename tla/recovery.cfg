SPECIFICATION Spec
CONSTANTS
  Cent = 20
  Rate = 1
  Compounding = "simple"
  AccrualMode = "engine_calculated"
  a1 = a1
  a2 = a2
  Listing <- MCListing
  HalfSpread = 1
  Pledged <- MCPledged
  Foreign <- MCForeign
  FreshBars <- MCFreshBars
  Conditions <- MCConditions
  Gaps = {1, 4}
  Scenarios <- MCScenarios
  FlatLtv = 60
  MaxObservations = 4
CHECK_DEADLOCK FALSE
INVARIANTS
  TypeOK
  MoneyIsAccountedFor
  AlarmIsAnswered
  SettlingAwaitsMoney
  RecoveryIsBounded
  ProceedsHaveAnEpisode
PROPERTIES
  RecoverySpec
  EveryEpisodeIsClosed
