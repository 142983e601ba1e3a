SPECIFICATION Spec
CONSTANTS
  Ids <- MCIds
  Keys <- MCKeys
  NoKey = NoKey
  NoEvent = NoEvent
  NoId = NoId
  Contents <- MCContents
  Window = 1
  Threads = {t1, t2}
  Findings <- MCFindings
  MaxTicks = 3
  MaxTime = 2
  MaxRefusals = 1
SYMMETRY ThreadSymmetry
INVARIANTS
  TypeOK
  SpacedByWindow
  SuppressedOnlyIfRecent
  OutageIsOnRecord
  StoredEventsAreAudited
CHECK_DEADLOCK FALSE
