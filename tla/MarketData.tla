----------------------------- MODULE MarketData -----------------------------
(***************************************************************************)
(* What each monitored account is priced with: the quotes and rates it was *)
(* registered with under those published since (MarketDataCache), a market *)
(* data provider, and the choice between them                              *)
(* (src/app/market_data/aggregator.py, fx.py, normalizer.py;               *)
(* _normalize_market_data and _affected_accounts of                        *)
(* src/app/monitoring/service.py), while quotes age.                       *)
(*                                                                         *)
(* Qualities are percentages cut to a whole percent; a rate is the price   *)
(* of RateUnit units of the foreign currency.  An instrument is in the     *)
(* loan's currency or in the one foreign currency.                         *)
(***************************************************************************)
EXTENDS MarketDataCache, Integers, FiniteSets

CONSTANTS
  Accounts,        (* [account -> [holds, mode, conservative, prefersClient,
                                   quotes: [Keys -> Quotes or none], rates]] *)
  Rates,           (* the data a published rate can carry                  *)
  NoRate,          (* no rate                                              *)
  Providers,       (* what the provider can answer: quotes, rates, halted  *)
  MaxQuoteAge, MaxRateAge,         (* ages past which data are stale       *)
  StaleHaircut,                    (* quality a stale quote or rate loses  *)
  MinimumQuote, MinimumRate,       (* qualities below which another source
                                      is asked                             *)
  MinQuality,                      (* min_data_quality_score               *)
  RateUnit,
  MaxTime                          (* bound: the clock                     *)

Modes == {"client_supplied", "provided_by_us", "hybrid"}

Directions == {"direct", "inverse"}

Quote == [price: Nat \ {0}, taken: Int, quality: 0..100, halted: BOOLEAN]

Rate == [rate: 1..(RateUnit * RateUnit), taken: Int, quality: 0..100]

ASSUME PolicyAssumption ==
  /\ MaxQuoteAge \in Nat /\ MaxRateAge \in Nat /\ MaxTime \in Nat
  /\ {StaleHaircut, MinimumQuote, MinimumRate, MinQuality} \subseteq 0..100
  /\ RateUnit \in Nat \ {0}

ASSUME FeedsAssumption ==
  /\ Quotes \subseteq Quote /\ Rates \subseteq Rate /\ NoRate \notin Rates
  /\ Accounts # <<>>

(* What an account registered and what the provider answers.                *)
ASSUME SourcesAssumption ==
  /\ \A a \in DOMAIN Accounts :
       /\ Accounts[a].holds \subseteq Instruments
       /\ Accounts[a].quotes \in [Keys -> Quote \cup {NoQuote}]
       /\ Accounts[a].rates \in [Directions -> Rate \cup {NoRate}]
  /\ \A p \in Providers :
       /\ p.quotes \in [Instruments -> Quote \cup {NoQuote}]
       /\ p.rates \in [Directions -> Rate \cup {NoRate}]

VARIABLES
  rates,        (* CachedMarketData.fx_rates, by direction                 *)
  provider,     (* what the equity and FX providers answer now             *)
  affected,     (* the accounts the last publication was said to affect    *)
  now           (* utc_now()                                               *)

vars == <<quotes, venues, latest, published, rates, provider, affected, now>>

TypeOK ==
  /\ CacheTypeOK
  /\ rates \in [Directions -> Rates \cup {NoRate}]
  /\ provider \in Providers
  /\ affected \subseteq DOMAIN Accounts
  /\ now \in 0..MaxTime

Init ==
  /\ CacheInit
  /\ rates = [d \in Directions |-> NoRate]
  /\ provider \in Providers
  /\ affected = {}
  /\ now = 0

Lesser(x, y) == IF x <= y THEN x ELSE y

Share(x, percent) == (x * percent) \div 100

(* What one evaluation reads: the snapshot of the cache, the provider's      *)
(* answers, the time.                                                        *)
View == [quotes |-> quotes, rates |-> rates, provider |-> provider, now |-> now]

-----------------------------------------------------------------------------
(* Quotes                                                                    *)

(* score_quote: a stale quote loses quality, a halted market caps it.        *)
QuoteQuality(v, q, halted) ==
  LET aged == IF v.now - q.taken > MaxQuoteAge
              THEN Share(q.quality, 100 - StaleHaircut) ELSE q.quality
  IN  IF halted THEN Lesser(aged, MinimumQuote) ELSE aged

(* Faulty variant of ClientTable: what an account registered comes first.    *)
ClientTableOfRegistration(v, a, i) ==
  [k \in Names(i) |-> IF Accounts[a].quotes[k] # NoQuote
                  THEN [of |-> "account", data |-> Accounts[a].quotes[k]]
                  ELSE v.quotes[k]]

(* _normalize_market_data: published quotes take the place of registered     *)
(* ones, key by key.                                                         *)
ClientTable(v, a, i) ==
  [k \in Names(i) |-> IF v.quotes[k] = NoQuote /\ Accounts[a].quotes[k] # NoQuote
                  THEN [of |-> "account", data |-> Accounts[a].quotes[k]]
                  ELSE v.quotes[k]]

ClientQuote(v, a, i) ==
  LET found == Lookup(ClientTable(v, a, i), i)
  IN  IF found = NoQuote THEN NoQuote ELSE found.data

(* A choice of choose_quote_provider: a quote, perhaps none, and whether a   *)
(* warning that the asset is halted comes with it.                           *)
Chosen(q, halted) == [quote |-> q, halted |-> halted \/ (q # NoQuote /\ q.halted)]

(* Faulty variant of ChooseQuote: a fallback forgets the client's warnings.  *)
ChooseQuoteForgetting(v, a, i) ==
  LET client == ClientQuote(v, a, i)
      ours   == v.provider.quotes[i]
      halt   == i.stable \in v.provider.halted
  IN  CASE Accounts[a].mode = "client_supplied" -> Chosen(client, halt)
        [] Accounts[a].mode = "provided_by_us"  -> Chosen(ours, halt)
        [] OTHER ->
             IF client # NoQuote /\ QuoteQuality(v, client, halt) >= MinimumQuote
             THEN Chosen(client, halt)
             ELSE Chosen(IF ours # NoQuote THEN ours ELSE client, halt)

(* choose_quote_provider: in hybrid mode the client's quote if it is good    *)
(* enough, else the provider's with the client's warnings, else the client's *)
(* as it is.  The market's status is the provider's: clients send none.      *)
ChooseQuote(v, a, i) ==
  LET client == ClientQuote(v, a, i)
      ours   == v.provider.quotes[i]
      halt   == i.stable \in v.provider.halted
  IN  CASE Accounts[a].mode = "client_supplied" -> Chosen(client, halt)
        [] Accounts[a].mode = "provided_by_us"  -> Chosen(ours, halt)
        [] OTHER ->
             IF client # NoQuote /\ QuoteQuality(v, client, halt) >= MinimumQuote
             THEN Chosen(client, halt)
             ELSE Chosen(IF ours # NoQuote THEN ours ELSE client,
                         halt \/ (client # NoQuote /\ client.halted))

-----------------------------------------------------------------------------
(* Rates                                                                     *)

(* get_fx_rate: the pair asked for, else the inverse of the opposite one.    *)
FindRate(table) ==
  IF table["direct"] # NoRate THEN table["direct"]
  ELSE IF table["inverse"] # NoRate
  THEN [table["inverse"] EXCEPT !.rate = (RateUnit * RateUnit) \div @]
  ELSE NoRate

ClientRate(v, a) ==
  FindRate([d \in Directions |-> IF v.rates[d] = NoRate THEN Accounts[a].rates[d] ELSE v.rates[d]])

StaleRate(v, r) == v.now - r.taken > MaxRateAge

(* score_fx_rate *)
RateQuality(v, r) ==
  IF StaleRate(v, r) THEN Share(r.quality, 100 - StaleHaircut) ELSE r.quality

Usable(v, r) == RateQuality(v, r) >= MinimumRate

(* The rates the account's data mode lets in, by source.                     *)
Candidates(v, a) ==
  LET offered == [client   |-> IF Accounts[a].mode = "provided_by_us" THEN NoRate
                               ELSE ClientRate(v, a),
                  provider |-> IF Accounts[a].mode = "client_supplied" THEN NoRate
                               ELSE FindRate(v.provider.rates)]
  IN  [s \in {s \in {"client", "provider"} : offered[s] # NoRate} |-> offered[s]]

(* Faulty variant of SelectRate: a preferred source is taken as it is.       *)
SelectRateUnscored(v, a) ==
  LET offered == Candidates(v, a)
      first   == IF Accounts[a].prefersClient THEN "client" ELSE "provider"
  IN  IF DOMAIN offered = {} THEN NoRate
      ELSE IF first \in DOMAIN offered THEN offered[first]
      ELSE offered[CHOOSE s \in DOMAIN offered : TRUE]

(* FXSelector.select_rate.  A conservative policy takes the lower of two     *)
(* usable rates and none of two that are not.  Else the preferred source, a  *)
(* usable provider in the place of a stale client, any usable one; and when  *)
(* none is usable the first there is, client before provider.                *)
SelectRate(v, a) ==
  LET offered == Candidates(v, a)
      usable  == {s \in DOMAIN offered : Usable(v, offered[s])}
      lowest  == CHOOSE s \in usable : \A t \in usable : offered[s].rate <= offered[t].rate
      first   == IF /\ Accounts[a].prefersClient
                    /\ ~("client" \in DOMAIN offered /\ StaleRate(v, offered["client"]))
                 THEN "client" ELSE "provider"
  IN  IF DOMAIN offered = {} THEN NoRate
      ELSE IF Accounts[a].conservative /\ Cardinality(DOMAIN offered) > 1
      THEN IF usable = {} THEN NoRate ELSE offered[lowest]
      ELSE IF usable = {} THEN offered[IF "client" \in DOMAIN offered THEN "client" ELSE "provider"]
      ELSE offered[IF first \in usable THEN first ELSE CHOOSE s \in usable : TRUE]

-----------------------------------------------------------------------------
(* normalize_quote: the price in the loan's currency, zero without a rate.   *)
ConvertedPrice(i, quote, rate) ==
  IF ~i.foreign THEN quote.price
  ELSE IF rate = NoRate THEN 0
  ELSE (quote.price * rate.rate) \div RateUnit

(* What a conversion leaves of a quote's quality.                            *)
ConvertedQuality(v, i, quality, rate) ==
  LET joint == Share(quality, RateQuality(v, rate))
  IN  IF ~i.foreign THEN quality
      ELSE IF rate = NoRate THEN Lesser(quality, 5)
      ELSE IF Usable(v, rate) THEN joint
      ELSE Share(joint, 100 - StaleHaircut)

(* Faulty variant of Normalized: a rate that is missing costs no quality.    *)
NormalizedAtPar(v, a, i) ==
  LET chosen  == ChooseQuote(v, a, i)
      rate    == SelectRate(v, a)
      quality == QuoteQuality(v, chosen.quote, i.stable \in v.provider.halted)
  IN  IF chosen.quote = NoQuote THEN [price |-> 0, quality |-> 0, halted |-> chosen.halted]
      ELSE [price   |-> ConvertedPrice(i, chosen.quote, rate),
            quality |-> IF rate = NoRate THEN quality
                        ELSE ConvertedQuality(v, i, quality, rate),
            halted  |-> chosen.halted]

(* MarketDataAggregator.normalize: the price and the quality the evaluation  *)
(* sees.                                                                     *)
Normalized(v, a, i) ==
  LET chosen  == ChooseQuote(v, a, i)
      rate    == SelectRate(v, a)
      quality == QuoteQuality(v, chosen.quote, i.stable \in v.provider.halted)
  IN  IF chosen.quote = NoQuote THEN [price |-> 0, quality |-> 0, halted |-> chosen.halted]
      ELSE [price   |-> ConvertedPrice(i, chosen.quote, rate),
            quality |-> ConvertedQuality(v, i, quality, rate),
            halted  |-> chosen.halted]

(* The test for eligibility of _evaluate_asset.                              *)
Eligible(normalized) == ~normalized.halted /\ normalized.quality >= MinQuality

(* What the evaluator lends against.                                         *)
Supports(v, a, i) == Eligible(Normalized(v, a, i))

-----------------------------------------------------------------------------
Held == UNION {Accounts[a].holds : a \in DOMAIN Accounts}

(* Symbols held under several stable keys.                                   *)
HeldOnSeveralVenues ==
  {i.symbol : i \in {i \in Held : \E j \in Held : i.symbol = j.symbol /\ i.stable # j.stable}}

(* _match_accounts_for_market_key: a key that is a symbol held on several    *)
(* venues matches only the accounts it names exactly.                        *)
MatchAccounts ==
  LET exact(key)    == {a \in DOMAIN Accounts :
                          \E i \in Accounts[a].holds : key \in {i.asset, i.stable}}
      bySymbol(key) == {a \in DOMAIN Accounts : \E i \in Accounts[a].holds : key = i.symbol}
      several       == HeldOnSeveralVenues
  IN  [key \in Keys |-> IF key \in several THEN exact(key) ELSE exact(key) \cup bySymbol(key)]

(* Faulty variant of AffectedByQuote: only the request's key is looked for.  *)
AffectedByQuoteKey(i, key) == MatchAccounts[key]

AffectedByQuote(i, key) == UNION {MatchAccounts[k] : k \in Names(i) \cup {key}}

(* _affected_accounts, for a rate: the accounts that hold a foreign asset.   *)
AffectedByRate == {a \in DOMAIN Accounts : \E i \in Accounts[a].holds : i.foreign}

(* ingest_market_data_update, with a quote or with a rate                    *)
PublishQuote(i, key, q) ==
  /\ q.taken <= now
  /\ Merge(i, key, q)
  /\ affected' = AffectedByQuote(i, key)
  /\ UNCHANGED <<rates, provider, now>>

PublishRate(d, r) ==
  /\ r.taken <= now
  /\ rates' = [rates EXCEPT ![d] = r]
  /\ affected' = AffectedByRate
  /\ UNCHANGED <<cacheVars, provider, now>>

ProviderMoves ==
  /\ provider' \in Providers
  /\ UNCHANGED <<cacheVars, rates, affected, now>>

Advance ==
  /\ now < MaxTime
  /\ now' = now + 1
  /\ UNCHANGED <<cacheVars, rates, provider, affected>>

Next ==
  \/ \E r \in Requests, q \in Quotes : PublishQuote(r.of, r.key, q)
  \/ \E d \in Directions, r \in Rates : PublishRate(d, r)
  \/ ProviderMoves
  \/ Advance

Spec == Init /\ [][Next]_vars

-----------------------------------------------------------------------------
(* Properties                                                                *)

(* An account that takes published quotes is priced with the one that came   *)
(* last under its asset id, not with one it registered earlier or one filed  *)
(* under another name.  That is the asset id's quote and not the listing's:  *)
(* of several listings published under one asset id, or under it as the key  *)
(* of the request, the last one prices all who hold it, relabelled as theirs *)
(* (ClientSuppliedProvider.get_quote).  Left out is an asset id that is the  *)
(* bare symbol of several listings while it is withdrawn: a registered quote *)
(* may then come back.                                                       *)
LatestQuotePrices ==
  \A a \in DOMAIN Accounts : \A i \in Accounts[a].holds :
    /\ Accounts[a].mode = "client_supplied"
    /\ latest[i.asset] # NoQuote
    /\ ~(Contested(i.asset) /\ quotes[i.asset] = NoQuote)
    => ChooseQuote(View, a, i).quote = latest[i.asset]

(* Nothing is lent against an asset that cannot be priced in the currency of *)
(* the loan: none of the account's sources has a quote, or a rate for it.    *)
SupportIsPriced ==
  \A a \in DOMAIN Accounts : \A i \in Accounts[a].holds :
    Supports(View, a, i) =>
      /\ ChooseQuote(View, a, i).quote # NoQuote
      /\ i.foreign => SelectRate(View, a) # NoRate

(* A halt is not forgotten by changing the source: an asset whose quote says *)
(* it is halted supports nothing when another source is asked for its price. *)
HaltSurvivesFallback ==
  \A a \in DOMAIN Accounts : \A i \in Accounts[a].holds :
    LET client == ClientQuote(View, a, i)
    IN  \/ i.stable \in provider.halted
        \/ Accounts[a].mode # "provided_by_us" /\ client # NoQuote /\ client.halted
        => ~Supports(View, a, i)

(* A rate below the quality threshold is used only when the account's        *)
(* sources have no better, and a conservative policy never converts at more  *)
(* than a usable source's rate.                                              *)
UsableRateIsPreferred ==
  \A a \in DOMAIN Accounts :
    LET usable == {s \in DOMAIN Candidates(View, a) : Usable(View, Candidates(View, a)[s])}
    IN  usable # {} =>
          /\ SelectRate(View, a) # NoRate /\ Usable(View, SelectRate(View, a))
          /\ Accounts[a].conservative =>
               \A s \in usable : SelectRate(View, a).rate <= Candidates(View, a)[s].rate

(* Whoever's price, quality or halt a publication changes is among the       *)
(* accounts it is said to affect, which are the ones ticked.  Left out is an *)
(* instrument without a quote under a name of its own whose symbol others    *)
(* hold from another venue: it may be priced by the symbol they share, and   *)
(* is not followed.                                                          *)
PublicationReachesHolders ==
  [][ quotes' # quotes \/ rates' # rates =>
        \E before \in {View}, after \in {View'} :
          \A a \in DOMAIN Accounts \ affected' :
            \A i \in Accounts[a].holds :
              \/ i.symbol \notin HeldOnSeveralVenues
              \/ \E k \in {i.asset, i.stable} : ClientTable(before, a, i)[k] # NoQuote
              => Normalized(after, a, i) = Normalized(before, a, i) ]_vars
=============================================================================
