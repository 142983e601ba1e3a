SPECIFICATION Spec
CONSTANTS
  Instruments <- MCInstruments
  Requests <- MCRequests
  Quotes <- MCQuotes
  NoQuote = NoQuote
  Accounts <- MCAccounts
  Rates <- MCRates
  NoRate = NoRate
  Providers <- MCProviders
  MaxQuoteAge = 0
  MaxRateAge = 0
  StaleHaircut = 35
  MinimumQuote = 50
  MinimumRate = 50
  MinQuality = 35
  RateUnit = 10
  MaxTime = 1
INVARIANTS
  TypeOK
  AmbiguousSymbolPricesNobody
  LatestQuotePrices
  SupportIsPriced
  HaltSurvivesFallback
  UsableRateIsPreferred
PROPERTIES
  BoardSpec
  PublicationReachesHolders
