SPECIFICATION Spec
CONSTANTS
  Cent = 2
  Rate = 1
  Compounding = "simple"
  AccrualMode = "engine_calculated"
  References = {"draw"}
  Payload <- MCPayload
  Window = 2
  NoAccount = NoAccount
  Threads = {t1, t2}
  Accounts = {a1}
  Openings <- MCOpenings
  Valuations <- MCValuations
  Offered = {"register", "update", "tick", "market"}
  AuditCanFail = FALSE
  MaxRequests = 4
  MaxTime = 1
SYMMETRY ThreadSymmetry
INVARIANTS
  AppliedAtMostOnce
  EachInstantChargedOnce
  StandingAlarmWasAnnounced
