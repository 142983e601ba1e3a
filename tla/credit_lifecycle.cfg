SPECIFICATION Spec
CONSTANTS
  Cent = 2
  Rate = 1
  Compounding = "simple"
  AccrualMode = "engine_calculated"
  Valuations <- MCValuations
  Amounts <- MCAmounts
  MaxBalance = 50
INVARIANTS
  TypeOK
  LimitAgreesWithState
  OfferLessACentIsApproved
  CureLiftsCoverageBreach
PROPERTY
  RepaymentNeverWorsens
