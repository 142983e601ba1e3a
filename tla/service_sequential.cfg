SPECIFICATION Spec
CONSTANTS
  Cent = 2
  Rate = 1
  Compounding = "simple"
  AccrualMode = "engine_calculated"
  References <- MCReferences
  Payload <- MCPayload
  Window = 2
  NoAccount = NoAccount
  Threads = {t1}
  Accounts = {a1, a2}
  Openings <- MCAllOpenings
  Valuations <- MCAllValuations
  Offered <- EveryKind
  AuditCanFail = FALSE
  MaxRequests = 4
  MaxTime = 1
SYMMETRY AccountSymmetry
INVARIANTS
  TypeOK
  RecordedUpdateIsApplied
  AlarmsAreAnnounced
PROPERTY
  BatchLeavesNoStaleState
