SPECIFICATION Spec
CONSTANTS
  Cent = 2
  Rate = 1
  Compounding = "simple"
  AccrualMode = "engine_calculated"
  References <- MCReferences
  Payload <- MCPayload
  Window = 2
  NoAccount = NoAccount
  Threads = {t1}
  Accounts = {a1}
  Openings <- MCAllOpenings
  Valuations <- MCAllValuations
  Offered = {"register", "market"}
  AuditCanFail = FALSE
  MaxRequests = 3
  MaxTime = 1
PROPERTY
  FailedRegistrationRestores
