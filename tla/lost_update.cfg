SPECIFICATION Spec
CONSTANTS
  Cent = 2
  Rate = 1
  Compounding = "simple"
  AccrualMode = "engine_calculated"
  References <- MCReferences
  Payload <- MCPayload
  Window = 2
  NoAccount = NoAccount
  Threads = {t1, t2}
  Accounts = {a1}
  Openings <- MCOpenings
  Valuations <- MCValuations
  Offered = {"register", "update"}
  AuditCanFail = FALSE
  MaxRequests = 3
  MaxTime = 1
INVARIANT
  RecordedUpdateIsApplied
