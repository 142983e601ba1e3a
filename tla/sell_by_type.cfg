SPECIFICATION Spec
CONSTANTS
  Cent = 10
  Rate = 1
  Compounding = "simple"
  AccrualMode = "engine_calculated"
  Terms <- MCTerms
  PortfolioCap = 80
  MinQuality = 35
  LendOnHalted = FALSE
  Markets <- MCMarkets
  Accounts <- MCAccounts
  Actions <- MCActions
  MaxChecks = 3
INVARIANT
  HoldingIsFoundByType
