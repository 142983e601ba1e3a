SPECIFICATION Spec
CONSTANTS
  Cent = 2
  Rate = 1
  Compounding = "simple"
  AccrualMode = "engine_calculated"
  References <- MCReferences
  Payload <- MCPayload
  Window = 2
  NoAccount = NoAccount
  Threads = {t1}
  Accounts = {a1}
  Openings <- MCAllOpenings
  Valuations <- MCAllValuations
  Offered <- EveryKind
  AuditCanFail = TRUE
  MaxRequests = 3
  MaxTime = 2
PROPERTY
  BookSpec
