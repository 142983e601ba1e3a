-------------------------- MODULE MarketDataProofs --------------------------
(***************************************************************************)
(* What prices a monitored account, for any instruments, requests,         *)
(* accounts, sources and thresholds: the cache keeps its promise inside    *)
(* the service, and the choices between sources keep theirs.  Nothing is   *)
(* assumed of names: instruments may share asset ids, stable keys and      *)
(* symbols in any way, and a request may come under any key.               *)
(***************************************************************************)
EXTENDS MarketData, FiniteSetTheorems, TLAPS

-----------------------------------------------------------------------------
(* The cache                                                                *)

(* What readers find under a name.                                          *)
Shown(k) == IF quotes[k] = NoQuote THEN NoQuote ELSE quotes[k].data

(* A symbol lists the stable keys published under it, and no other.         *)
ListingIsExact ==
  \A s \in Symbols : venues[s] = {i.stable : i \in {j \in published : j.symbol = s}}

(* A name shows what was published last under it, or is withdrawn.          *)
NamesAreLatest ==
  \A k \in Keys : Shown(k) = latest[k] \/ (Contested(k) /\ quotes[k] = NoQuote)

CacheInv ==
  /\ CacheTypeOK
  /\ ListingIsExact
  /\ NamesAreLatest
  /\ AmbiguousSymbolPricesNobody

(* An instrument's names are keys.                                           *)
LEMMA NamesAreKeys ==
  ASSUME NEW i \in Instruments
  PROVE  /\ i.asset \in Keys /\ i.symbol \in Keys /\ i.stable \in Keys
         /\ i.symbol \in Symbols /\ Symbols \subseteq Keys
<1>1. Names(i) \subseteq Keys
  BY DEF Keys
<1>2. \A j \in Instruments : j.symbol \in Keys
  BY DEF Keys, Names
<1>. QED BY <1>1, <1>2 DEF Names, Symbols

LEMMA RequestsAreKeyed ==
  ASSUME NEW r \in Requests
  PROVE  r.of \in Instruments /\ r.key \in Keys
BY RequestsAssumption DEF Keys

(* The empty cache shows nothing.                                            *)
LEMMA CacheInitInv == CacheInit => CacheInv
<1> SUFFICES ASSUME CacheInit PROVE CacheInv
  OBVIOUS
<1> USE DEF CacheInit
<1>1. CacheTypeOK
  BY DEF CacheTypeOK
<1>2. ListingIsExact
  BY DEF ListingIsExact
<1>3. NamesAreLatest
  BY DEF NamesAreLatest, Shown
<1>4. AmbiguousSymbolPricesNobody
  BY DEF AmbiguousSymbolPricesNobody, Contested
<1>. QED BY <1>1, <1>2, <1>3, <1>4 DEF CacheInv

(* A publication keeps the types.                                            *)
LEMMA MergeType ==
  ASSUME CacheTypeOK, NEW j \in Instruments, NEW q \in Quotes, NEW key \in Keys,
         Merge(j, key, q)
  PROVE  CacheTypeOK'
<1>1. [of |-> j, data |-> q] \in Filed
  BY DEF Filed
<1>2. quotes' \in [Keys -> Filed \cup {NoQuote}]
  BY <1>1 DEF Merge, CacheTypeOK
<1>3. venues' \in [Symbols -> SUBSET {i.stable : i \in Instruments}]
  BY NamesAreKeys DEF Merge, CacheTypeOK, Listing
<1>4. latest' \in [Keys -> Quotes \cup {NoQuote}] /\ published' \subseteq Instruments
  BY DEF Merge, Recorded, CacheTypeOK
<1>. QED BY <1>2, <1>3, <1>4 DEF CacheTypeOK

(* A publication lists its stable key under its symbol, and no other.        *)
LEMMA MergeListing ==
  ASSUME CacheInv, NEW j \in Instruments, NEW q \in Quotes, NEW key \in Keys,
         Merge(j, key, q)
  PROVE  ListingIsExact'
<1> SUFFICES ASSUME NEW s \in Symbols
             PROVE  venues'[s] = {i.stable : i \in {i \in published' : i.symbol = s}}
  BY DEF ListingIsExact
<1>1. /\ venues' = [venues EXCEPT ![j.symbol] = venues[j.symbol] \cup {j.stable}]
      /\ published' = published \cup {j}
  BY DEF Merge, Recorded, Listing
<1>2. /\ venues \in [Symbols -> SUBSET {k.stable : k \in Instruments}]
      /\ venues[s] = {i.stable : i \in {i \in published : i.symbol = s}}
  BY DEF CacheInv, CacheTypeOK, ListingIsExact
<1>3. CASE s = j.symbol
  <2>1. venues'[s] = venues[s] \cup {j.stable}
    BY <1>1, <1>2, <1>3
  <2>2. {i \in published' : i.symbol = s} = {i \in published : i.symbol = s} \cup {j}
    BY <1>1, <1>3
  <2>. QED BY <1>2, <2>1, <2>2
<1>4. CASE s # j.symbol
  <2>1. venues'[s] = venues[s]
    BY <1>1, <1>2, <1>4
  <2>2. {i \in published' : i.symbol = s} = {i \in published : i.symbol = s}
    BY <1>1, <1>4
  <2>. QED BY <1>2, <2>1, <2>2
<1>. QED BY <1>3, <1>4

(* The venues' count is the history's: the symbol of what is published is    *)
(* ambiguous exactly when it is contested now.                               *)
LEMMA AmbiguousIsContested ==
  ASSUME CacheInv, NEW j \in Instruments, NEW q \in Quotes, NEW key \in Keys,
         Merge(j, key, q)
  PROVE  BecomesAmbiguous(j) <=> Contested(j.symbol)'
<1>1. /\ published' = published \cup {j} /\ j.symbol \in Symbols
      /\ Listing(j) = venues[j.symbol] \cup {j.stable}
      /\ venues[j.symbol] = {i.stable : i \in {i \in published : i.symbol = j.symbol}}
  BY NamesAreKeys DEF Merge, Recorded, Listing, CacheInv, ListingIsExact
<1>2. ASSUME BecomesAmbiguous(j) PROVE Contested(j.symbol)'
  <2>1. PICK s \in Listing(j) : s # j.stable
    BY <1>2 DEF BecomesAmbiguous
  <2>2. PICK i \in published : i.symbol = j.symbol /\ i.stable = s
    BY <1>1, <2>1
  <2>. QED BY <1>1, <2>1, <2>2 DEF Contested
<1>3. ASSUME Contested(j.symbol)' PROVE BecomesAmbiguous(j)
  <2>1. PICK i \in published' : i.symbol = j.symbol /\ i.stable # j.stable
    BY <1>3 DEF Contested
  <2>2. i \in published
    BY <1>1, <2>1
  <2>3. i.stable \in Listing(j)
    BY <1>1, <2>1, <2>2
  <2>. QED BY <2>1, <2>3 DEF BecomesAmbiguous
<1>. QED BY <1>2, <1>3

(* A symbol that is contested stays so; one that becomes contested is that   *)
(* of what is published.                                                     *)
LEMMA ContestedGrows ==
  ASSUME NEW j \in Instruments, NEW q \in Quotes, NEW key \in Keys, Merge(j, key, q), NEW s
  PROVE  /\ Contested(s) => Contested(s)'
         /\ s # j.symbol => (Contested(s)' <=> Contested(s))
<1>1. published' = published \cup {j}
  BY DEF Merge, Recorded
<1>. QED BY <1>1 DEF Contested

(* What a publication leaves under a name: its quote under the names of its  *)
(* own and under an uncontested symbol, nothing under a contested one, and   *)
(* elsewhere what there was.                                                 *)
LEMMA MergeEntries ==
  ASSUME CacheInv, NEW j \in Instruments, NEW q \in Quotes, NEW key \in Keys,
         Merge(j, key, q), NEW k \in Keys
  PROVE  quotes'[k] = IF k \in {j.asset, j.stable} \cup ({key} \ {j.symbol})
                      THEN [of |-> j, data |-> q]
                      ELSE IF k # j.symbol THEN quotes[k]
                      ELSE IF Contested(k)' THEN NoQuote ELSE [of |-> j, data |-> q]
<1>1. quotes' = [n \in Keys |-> IF n \in FiledUnder(j, key) THEN [of |-> j, data |-> q]
                                ELSE IF n = j.symbol THEN NoQuote ELSE quotes[n]]
  BY DEF Merge
<1>2. BecomesAmbiguous(j) <=> Contested(j.symbol)'
  BY AmbiguousIsContested
<1>3. CASE k \in {j.asset, j.stable} \cup ({key} \ {j.symbol})
  <2>1. k \in FiledUnder(j, key)
    BY <1>3 DEF FiledUnder
  <2>. QED BY <1>1, <1>3, <2>1
<1>4. CASE k \notin {j.asset, j.stable} \cup ({key} \ {j.symbol}) /\ k # j.symbol
  <2>1. k \notin FiledUnder(j, key)
    BY <1>4 DEF FiledUnder
  <2>. QED BY <1>1, <1>4, <2>1
<1>5. CASE k \notin {j.asset, j.stable} \cup ({key} \ {j.symbol}) /\ k = j.symbol
  <2>1. k \in FiledUnder(j, key) <=> ~BecomesAmbiguous(j)
    BY <1>5 DEF FiledUnder
  <2>. QED BY <1>1, <1>2, <1>5, <2>1
<1>. QED BY <1>3, <1>4, <1>5

LEMMA FiledIsAQuote ==
  ASSUME NEW j \in Instruments, NEW q \in Quotes
  PROVE  [of |-> j, data |-> q] # NoQuote
BY NoQuoteAssumption DEF Filed

(* Every name shows what was published last under it, or is withdrawn.       *)
LEMMA MergeNames ==
  ASSUME CacheInv, NEW j \in Instruments, NEW q \in Quotes, NEW key \in Keys,
         Merge(j, key, q)
  PROVE  NamesAreLatest'
<1> SUFFICES ASSUME NEW k \in Keys
             PROVE  \/ (IF quotes'[k] = NoQuote THEN NoQuote ELSE quotes'[k].data) = latest'[k]
                    \/ Contested(k)' /\ quotes'[k] = NoQuote
  BY DEF NamesAreLatest, Shown
<1>1. latest'[k] = IF k \in Names(j) \cup {key} THEN q ELSE latest[k]
  BY DEF Merge, Recorded
<1>2. [of |-> j, data |-> q] # NoQuote
  BY FiledIsAQuote
<1>3. CASE k \in {j.asset, j.stable} \cup ({key} \ {j.symbol})
  <2>1. quotes'[k] = [of |-> j, data |-> q]
    BY <1>3, MergeEntries
  <2>2. latest'[k] = q
    BY <1>1, <1>3 DEF Names
  <2>. QED BY <1>2, <2>1, <2>2
<1>4. CASE k \notin {j.asset, j.stable} \cup ({key} \ {j.symbol}) /\ k # j.symbol
  <2>1. quotes'[k] = quotes[k]
    BY <1>4, MergeEntries
  <2>2. latest'[k] = latest[k]
    BY <1>1, <1>4 DEF Names
  <2>3. Shown(k) = latest[k] \/ (Contested(k) /\ quotes[k] = NoQuote)
    BY DEF CacheInv, NamesAreLatest
  <2>. QED BY <2>1, <2>2, <2>3, ContestedGrows DEF Shown
<1>5. CASE k \notin {j.asset, j.stable} \cup ({key} \ {j.symbol}) /\ k = j.symbol
  <2>1. quotes'[k] = IF Contested(k)' THEN NoQuote ELSE [of |-> j, data |-> q]
    BY <1>5, MergeEntries
  <2>2. latest'[k] = q
    BY <1>1, <1>5 DEF Names
  <2>. QED BY <1>2, <2>1, <2>2
<1>. QED BY <1>3, <1>4, <1>5

(* A symbol that several listings have published keeps no alias.             *)
LEMMA MergeSymbols ==
  ASSUME CacheInv, NEW j \in Instruments, NEW q \in Quotes, NEW key \in Keys,
         Merge(j, key, q)
  PROVE  AmbiguousSymbolPricesNobody'
<1> SUFFICES ASSUME NEW s \in Symbols, Contested(s)', quotes'[s] # NoQuote
             PROVE  \/ quotes'[s].of.symbol # s
                    \/ s \in {quotes'[s].of.asset, quotes'[s].of.stable}
  BY DEF AmbiguousSymbolPricesNobody
<1>1. s \in Keys
  BY NamesAreKeys
<1>2. CASE s \in {j.asset, j.stable} \cup ({key} \ {j.symbol})
  <2>1. quotes'[s] = [of |-> j, data |-> q]
    BY <1>1, <1>2, MergeEntries
  <2>. QED BY <1>2, <2>1
<1>3. CASE s \notin {j.asset, j.stable} \cup ({key} \ {j.symbol}) /\ s # j.symbol
  <2>1. quotes'[s] = quotes[s]
    BY <1>1, <1>3, MergeEntries
  <2>2. Contested(s)
    BY <1>3, ContestedGrows
  <2>. QED BY <2>1, <2>2 DEF CacheInv, AmbiguousSymbolPricesNobody
<1>4. CASE s \notin {j.asset, j.stable} \cup ({key} \ {j.symbol}) /\ s = j.symbol
  BY <1>1, <1>4, MergeEntries
<1>. QED BY <1>2, <1>3, <1>4

(* Every step of the cache keeps the invariant.                              *)
LEMMA CacheInductive == CacheInv /\ [CacheNext]_cacheVars => CacheInv'
<1> SUFFICES ASSUME CacheInv, [CacheNext]_cacheVars PROVE CacheInv'
  OBVIOUS
<1>1. CASE CacheNext
  <2>1. PICK r \in Requests, q \in Quotes : Merge(r.of, r.key, q)
    BY <1>1 DEF CacheNext
  <2>2. r.of \in Instruments /\ r.key \in Keys
    BY RequestsAreKeyed
  <2>3. CacheTypeOK'
    BY <2>1, <2>2, MergeType DEF CacheInv
  <2>4. ListingIsExact'
    BY <2>1, <2>2, MergeListing
  <2>5. NamesAreLatest'
    BY <2>1, <2>2, MergeNames
  <2>6. AmbiguousSymbolPricesNobody'
    BY <2>1, <2>2, MergeSymbols
  <2>. QED BY <2>3, <2>4, <2>5, <2>6 DEF CacheInv
<1>2. CASE UNCHANGED cacheVars
  BY <1>2 DEF CacheInv, CacheTypeOK, ListingIsExact, NamesAreLatest, Shown,
              AmbiguousSymbolPricesNobody, Contested, cacheVars
<1>. QED BY <1>1, <1>2

(* The invariant of the cache, and with it that the bare symbol of several   *)
(* listings prices nothing on behalf of either (merge of market_updates.py), *)
(* for any instruments, however they share their names, any keys and quotes. *)
THEOREM CacheInvariant == CacheSpec => [](CacheInv /\ AmbiguousSymbolPricesNobody)
<1>1. CacheInv => AmbiguousSymbolPricesNobody
  BY DEF CacheInv
<1>. QED BY <1>1, CacheInitInv, CacheInductive, PTL DEF CacheSpec

-----------------------------------------------------------------------------
(* The refinement                                                            *)

shown == [k \in Keys |-> IF quotes[k] = NoQuote THEN NoQuote ELSE quotes[k].data]

taken == {s \in Symbols : Contested(s)}

(* A publication puts its quote on the board under the names it is sent      *)
(* under, withdraws at most its symbol and touches no other entry.           *)
LEMMA MergeIsPut ==
  ASSUME CacheInv, NEW r \in Requests, NEW q \in Quotes, Merge(r.of, r.key, q)
  PROVE  Board!Next
<1> DEFINE j   == r.of
           key == r.key
           p   == [own |-> {j.asset, j.stable} \cup ({key} \ {j.symbol}), alias |-> j.symbol]
<1>1. j \in Instruments /\ key \in Keys /\ j.symbol \in Symbols
  BY RequestsAreKeyed, NamesAreKeys
<1>2. taken' \in {taken, taken \cup {j.symbol}}
  <2>1. \A s \in Symbols : Contested(s) => Contested(s)'
    BY <1>1, ContestedGrows
  <2>2. \A s \in Symbols : s # j.symbol => (Contested(s)' <=> Contested(s))
    BY <1>1, ContestedGrows
  <2>3. CASE Contested(j.symbol)'
    <3>1. taken' = taken \cup {j.symbol}
      BY <1>1, <2>1, <2>2, <2>3 DEF taken
    <3>. QED BY <3>1
  <2>4. CASE ~Contested(j.symbol)'
    <3>1. taken' = taken
      BY <1>1, <2>1, <2>2, <2>4 DEF taken
    <3>. QED BY <3>1
  <2>. QED BY <2>3, <2>4
<1>3. shown' = [k \in Keys |-> IF k \in p.own THEN q
                               ELSE IF k # p.alias THEN shown[k]
                               ELSE IF k \in taken' THEN NoQuote ELSE q]
  <2> SUFFICES ASSUME NEW k \in Keys
               PROVE  (IF quotes'[k] = NoQuote THEN NoQuote ELSE quotes'[k].data)
                        = IF k \in p.own THEN q
                          ELSE IF k # p.alias THEN shown[k]
                          ELSE IF k \in taken' THEN NoQuote ELSE q
    BY DEF shown
  <2>1. /\ p.own = {j.asset, j.stable} \cup ({key} \ {j.symbol})
        /\ p.alias = j.symbol
    OBVIOUS
  <2>2. quotes'[k] = IF k \in p.own THEN [of |-> j, data |-> q]
                     ELSE IF k # p.alias THEN quotes[k]
                     ELSE IF Contested(k)' THEN NoQuote ELSE [of |-> j, data |-> q]
    BY <1>1, <2>1, MergeEntries
  <2>3. k = j.symbol => (k \in taken' <=> Contested(k)')
    BY <1>1 DEF taken
  <2>4. [of |-> j, data |-> q] # NoQuote /\ [of |-> j, data |-> q].data = q
    BY <1>1, FiledIsAQuote
  <2>5. shown[k] = IF quotes[k] = NoQuote THEN NoQuote ELSE quotes[k].data
    BY DEF shown
  <2> HIDE DEF p
  <2>6. CASE k \in p.own
    BY <2>2, <2>4, <2>6
  <2>7. CASE k \notin p.own /\ k # p.alias
    BY <2>2, <2>5, <2>7
  <2>8. CASE k \notin p.own /\ k = p.alias
    BY <2>1, <2>2, <2>3, <2>4, <2>8
  <2>. QED BY <2>6, <2>7, <2>8
<1>4. Board!Put(p, q)
  BY <1>2, <1>3 DEF Board!Put, shown, taken
<1>. QED BY <1>4 DEF Board!Next

(* So every step of the cache is a step of the board or none.                *)
LEMMA CacheStepIsBoardStep ==
  CacheInv /\ [CacheNext]_cacheVars => [Board!Next]_(Board!vars)
<1>1. CacheInv /\ CacheNext => Board!Next
  BY MergeIsPut DEF CacheNext
<1>2. UNCHANGED cacheVars => UNCHANGED Board!vars
  BY DEF cacheVars, Board!vars, Contested
<1>. QED BY <1>1, <1>2

(* The cache implements the board of latest quotes: under every name readers *)
(* find what arrived last under it, a publication changes the names it is    *)
(* sent under and no other, and the symbol of several listings is withdrawn  *)
(* for good.                                                                 *)
THEOREM CacheImplementsBoard == CacheSpec => BoardSpec
<1>1. CacheInit => Board!Init
  BY DEF CacheInit, Board!Init, Contested
<1>. QED BY <1>1, CacheInvariant, CacheStepIsBoardStep, PTL
         DEF CacheSpec, BoardSpec, Board!Spec

-----------------------------------------------------------------------------
(* The cache inside the service                                              *)

(* Every step of the service is a step of the cache or none.                 *)
LEMMA ServiceRunsCache == Spec => CacheSpec
<1>1. Init => CacheInit
  BY DEF Init
<1>2. [Next]_vars => [CacheNext]_cacheVars
  <2> SUFFICES ASSUME [Next]_vars PROVE [CacheNext]_cacheVars
    OBVIOUS
  <2>1. CASE \E r \in Requests, q \in Quotes : PublishQuote(r.of, r.key, q)
    BY <2>1 DEF PublishQuote, CacheNext
  <2>2. CASE \E d \in Directions, r \in Rates : PublishRate(d, r)
    BY <2>2 DEF PublishRate
  <2>3. CASE ProviderMoves \/ Advance
    BY <2>3 DEF ProviderMoves, Advance
  <2>4. CASE UNCHANGED vars
    BY <2>4 DEF vars, cacheVars
  <2>. QED BY <2>1, <2>2, <2>3, <2>4 DEF Next
<1>. QED BY <1>1, <1>2, PTL DEF Spec, CacheSpec

(* The table an account reads is the cache's where the cache has an entry,   *)
(* and its lookup starts at the asset id.                                    *)
LEMMA LatestIsRead ==
  ASSUME CacheInv, NEW a \in DOMAIN Accounts, NEW i \in Accounts[a].holds,
         latest[i.asset] # NoQuote, ~(Contested(i.asset) /\ quotes[i.asset] = NoQuote)
  PROVE  ClientQuote(View, a, i) = latest[i.asset]
<1>1. i.asset \in Keys
  BY SourcesAssumption, NamesAreKeys
<1>2. Shown(i.asset) = latest[i.asset]
  BY <1>1 DEF CacheInv, NamesAreLatest
<1>3. quotes[i.asset] # NoQuote /\ quotes[i.asset].data = latest[i.asset]
  BY <1>2 DEF Shown
<1>4. ClientTable(View, a, i)[i.asset] = quotes[i.asset]
  BY <1>3 DEF ClientTable, View, Names
<1>5. Lookup(ClientTable(View, a, i), i) = quotes[i.asset]
  BY <1>3, <1>4 DEF Lookup
<1>. QED BY <1>3, <1>5 DEF ClientQuote

(* Whatever was published for any listing in whatever order, an account that *)
(* takes published quotes is priced with the one that came last under the    *)
(* asset id it holds.                                                        *)
THEOREM PublishedQuotePrices == Spec => []LatestQuotePrices
<1>1. CacheInv => LatestQuotePrices
  <2> SUFFICES ASSUME CacheInv, NEW a \in DOMAIN Accounts, NEW i \in Accounts[a].holds,
                      Accounts[a].mode = "client_supplied", latest[i.asset] # NoQuote,
                      ~(Contested(i.asset) /\ quotes[i.asset] = NoQuote)
               PROVE  ChooseQuote(View, a, i).quote = latest[i.asset]
    BY DEF LatestQuotePrices
  <2>1. ClientQuote(View, a, i) = latest[i.asset]
    BY LatestIsRead
  <2>. QED BY <2>1 DEF ChooseQuote, Chosen
<1>. QED BY <1>1, ServiceRunsCache, CacheInvariant, PTL

(* The board of latest quotes is what the service's cache implements too.    *)
THEOREM ServiceImplementsBoard == Spec => BoardSpec
BY ServiceRunsCache, CacheImplementsBoard, PTL

-----------------------------------------------------------------------------
(* The choice of a quote                                                     *)

(* The flag the evaluation sees is that of the chosen quote.                 *)
LEMMA NormalizedHalted ==
  ASSUME NEW a \in DOMAIN Accounts, NEW i \in Accounts[a].holds
  PROVE  Normalized(View, a, i).halted = ChooseQuote(View, a, i).halted
BY DEF Normalized

(* However the source is chosen, an asset its quote says is halted supports  *)
(* nothing.                                                                  *)
THEOREM HaltIsNeverForgotten == Spec => []HaltSurvivesFallback
<1>1. HaltSurvivesFallback
  <2> SUFFICES ASSUME NEW a \in DOMAIN Accounts, NEW i \in Accounts[a].holds,
                      \/ i.stable \in provider.halted
                      \/ /\ Accounts[a].mode # "provided_by_us"
                         /\ ClientQuote(View, a, i) # NoQuote
                         /\ ClientQuote(View, a, i).halted
               PROVE  ~Supports(View, a, i)
    BY DEF HaltSurvivesFallback
  <2>1. View.provider = provider
    BY DEF View
  <2>2. ChooseQuote(View, a, i).halted
    BY <2>1 DEF ChooseQuote, Chosen
  <2>. QED BY <2>2, NormalizedHalted DEF Supports, Eligible
<1>. QED BY <1>1, PTL

(* Types: what is chosen is a quote, and its quality a number.               *)
LEMMA ChosenIsQuote ==
  ASSUME TypeOK, NEW a \in DOMAIN Accounts, NEW i \in Accounts[a].holds
  PROVE  ChooseQuote(View, a, i).quote \in Quote \cup {NoQuote}
<1>1. i \in Instruments /\ Names(i) \subseteq Keys
  BY SourcesAssumption DEF Keys
<1>2. /\ View.quotes = quotes /\ View.provider = provider
      /\ quotes \in [Keys -> Filed \cup {NoQuote}]
      /\ provider.quotes[i] \in Quote \cup {NoQuote}
      /\ Accounts[a].quotes \in [Keys -> Quote \cup {NoQuote}]
  BY <1>1, SourcesAssumption DEF View, TypeOK, CacheTypeOK
<1>3. \A k \in Names(i) : \/ ClientTable(View, a, i)[k] = NoQuote
                          \/ ClientTable(View, a, i)[k].data \in Quote
  <2> SUFFICES ASSUME NEW k \in Names(i), ClientTable(View, a, i)[k] # NoQuote
               PROVE  ClientTable(View, a, i)[k].data \in Quote
    OBVIOUS
  <2>1. CASE quotes[k] = NoQuote /\ Accounts[a].quotes[k] # NoQuote
    BY <1>1, <1>2, <2>1 DEF ClientTable
  <2>2. CASE ~(quotes[k] = NoQuote /\ Accounts[a].quotes[k] # NoQuote)
    <3>1. ClientTable(View, a, i)[k] = quotes[k]
      BY <1>2, <2>2 DEF ClientTable
    <3>2. quotes[k] \in Filed
      BY <1>1, <1>2, <3>1
    <3>. QED BY <3>1, <3>2, FeedsAssumption DEF Filed
  <2>. QED BY <2>1, <2>2
<1>4. ClientQuote(View, a, i) \in Quote \cup {NoQuote}
  BY <1>3 DEF ClientQuote, Lookup, Names
<1>. QED BY <1>2, <1>4 DEF ChooseQuote, Chosen

LEMMA QualityIsNumber ==
  ASSUME NEW v, NEW q \in Quote, NEW halted
  PROVE  QuoteQuality(v, q, halted) \in Int
<1>1. q.quality \in Int /\ StaleHaircut \in Int /\ MinimumQuote \in Int
  BY PolicyAssumption DEF Quote
<1>2. Share(q.quality, 100 - StaleHaircut) \in Int
  BY <1>1 DEF Share
<1>. QED BY <1>1, <1>2 DEF QuoteQuality, Lesser

(* The variables stay within their types.                                    *)
THEOREM MarketDataTypeOK == Spec => []TypeOK
<1>1. Init => TypeOK
  BY CacheInitInv, PolicyAssumption DEF Init, TypeOK, CacheInv
<1>2. TypeOK /\ [Next]_vars => TypeOK'
  <2> SUFFICES ASSUME TypeOK, [Next]_vars PROVE TypeOK'
    OBVIOUS
  <2>1. ASSUME NEW i \in Instruments, NEW q \in Quotes, NEW key \in Keys,
               PublishQuote(i, key, q)
        PROVE  TypeOK'
    <3>1. CacheTypeOK'
      BY <2>1, MergeType DEF TypeOK, PublishQuote
    <3>2. affected' \subseteq DOMAIN Accounts
      <4>1. \A k \in Keys : MatchAccounts[k] \subseteq DOMAIN Accounts
        BY DEF MatchAccounts
      <4>2. Names(i) \subseteq Keys /\ key \in Keys
        BY <2>1 DEF Keys
      <4>. QED BY <2>1, <4>1, <4>2 DEF PublishQuote, AffectedByQuote
    <3>. QED BY <2>1, <3>1, <3>2 DEF TypeOK, PublishQuote
  <2>2. ASSUME NEW d \in Directions, NEW r \in Rates, PublishRate(d, r)
        PROVE  TypeOK'
    BY <2>2 DEF PublishRate, TypeOK, CacheTypeOK, cacheVars, AffectedByRate
  <2>3. CASE ProviderMoves
    BY <2>3 DEF ProviderMoves, TypeOK, CacheTypeOK, cacheVars
  <2>4. CASE Advance
    BY <2>4, PolicyAssumption DEF Advance, TypeOK, CacheTypeOK, cacheVars
  <2>5. CASE UNCHANGED vars
    BY <2>5 DEF vars, TypeOK, CacheTypeOK
  <2>. QED BY <2>1, <2>2, <2>3, <2>4, <2>5, RequestsAreKeyed DEF Next
<1>. QED BY <1>1, <1>2, PTL DEF Spec

(* With a threshold above what a missing rate leaves of the quality, nothing *)
(* is lent against an asset without a quote or a rate.                       *)
THEOREM SupportHasAPrice ==
  ASSUME MinQuality > 5
  PROVE  Spec => []SupportIsPriced
<1>1. TypeOK => SupportIsPriced
  <2> SUFFICES ASSUME TypeOK, NEW a \in DOMAIN Accounts, NEW i \in Accounts[a].holds,
                      Supports(View, a, i)
               PROVE  /\ ChooseQuote(View, a, i).quote # NoQuote
                      /\ i.foreign => SelectRate(View, a) # NoRate
    BY DEF SupportIsPriced
  <2>1. Normalized(View, a, i).quality >= MinQuality /\ MinQuality \in Int
    BY PolicyAssumption DEF Supports, Eligible
  <2>2. ASSUME ChooseQuote(View, a, i).quote = NoQuote PROVE FALSE
    <3>1. Normalized(View, a, i).quality = 0
      BY <2>2 DEF Normalized
    <3>. QED BY <2>1, <3>1
  <2>3. ASSUME i.foreign, ChooseQuote(View, a, i).quote # NoQuote,
               SelectRate(View, a) = NoRate
        PROVE  FALSE
    <3> DEFINE quality == QuoteQuality(View, ChooseQuote(View, a, i).quote,
                                       i.stable \in View.provider.halted)
    <3>1. Normalized(View, a, i).quality = Lesser(quality, 5)
      BY <2>3 DEF Normalized, ConvertedQuality
    <3>2. Lesser(quality, 5) = 5 \/ (Lesser(quality, 5) = quality /\ quality <= 5)
      BY DEF Lesser
    <3>3. quality \in Int
      BY <2>3, ChosenIsQuote, QualityIsNumber
    <3> HIDE DEF quality
    <3>. QED BY <2>1, <3>1, <3>2, <3>3
  <2>. QED BY <2>2, <2>3
<1>. QED BY <1>1, MarketDataTypeOK, PTL

-----------------------------------------------------------------------------
(* The choice of a rate                                                      *)

LEMMA FoundRateIsRate ==
  ASSUME NEW table \in [Directions -> Rate \cup {NoRate}], FindRate(table) # NoRate
  PROVE  FindRate(table).rate \in Int
<1>1. table["direct"] \in Rate \cup {NoRate} /\ table["inverse"] \in Rate \cup {NoRate}
  BY DEF Directions
<1>2. CASE table["direct"] # NoRate
  BY <1>1, <1>2 DEF FindRate, Rate
<1>3. CASE table["direct"] = NoRate /\ table["inverse"] # NoRate
  <2>1. table["inverse"] \in Rate
    BY <1>1, <1>3
  <2>2. RateUnit * RateUnit \in Int
    BY PolicyAssumption
  <2>3. table["inverse"].rate \in Nat \ {0}
    BY <2>1, <2>2 DEF Rate
  <2>4. (RateUnit * RateUnit) \div table["inverse"].rate \in Int
    <3> DEFINE whole == RateUnit * RateUnit
    <3>1. whole \in Int
      BY <2>2
    <3> HIDE DEF whole
    <3>2. whole \div table["inverse"].rate \in Int
      BY <2>3, <3>1
    <3>. QED BY <3>2 DEF whole
  <2>5. FindRate(table) = [table["inverse"] EXCEPT
                             !.rate = (RateUnit * RateUnit) \div table["inverse"].rate]
    BY <1>3 DEF FindRate
  <2>. QED BY <2>1, <2>4, <2>5 DEF Rate
<1>. QED BY <1>2, <1>3 DEF FindRate

(* The candidates are a client's and a provider's rate, or fewer.            *)
LEMMA CandidatesAreRates ==
  ASSUME TypeOK, NEW a \in DOMAIN Accounts
  PROVE  /\ DOMAIN Candidates(View, a) \subseteq {"client", "provider"}
         /\ \A s \in DOMAIN Candidates(View, a) :
              /\ Candidates(View, a)[s] # NoRate
              /\ Candidates(View, a)[s].rate \in Int
<1> DEFINE both ==
      [client   |-> IF Accounts[a].mode = "provided_by_us" THEN NoRate ELSE ClientRate(View, a),
       provider |-> IF Accounts[a].mode = "client_supplied" THEN NoRate
                    ELSE FindRate(View.provider.rates)]
<1>1. View.rates = rates /\ View.provider = provider
  BY DEF View
<1>2. /\ Accounts[a].rates \in [Directions -> Rate \cup {NoRate}]
      /\ provider.rates \in [Directions -> Rate \cup {NoRate}]
      /\ rates \in [Directions -> Rate \cup {NoRate}]
  BY SourcesAssumption, FeedsAssumption DEF TypeOK
<1>3. ClientRate(View, a) # NoRate => ClientRate(View, a).rate \in Int
  <2>1. [d \in Directions |-> IF View.rates[d] = NoRate THEN Accounts[a].rates[d]
                             ELSE View.rates[d]] \in [Directions -> Rate \cup {NoRate}]
    BY <1>1, <1>2
  <2>. QED BY <2>1, FoundRateIsRate DEF ClientRate
<1>4. FindRate(View.provider.rates) # NoRate => FindRate(View.provider.rates).rate \in Int
  BY <1>1, <1>2, FoundRateIsRate
<1>5. \A s \in {"client", "provider"} : both[s] # NoRate => both[s].rate \in Int
  BY <1>3, <1>4
<1>6. Candidates(View, a) = [s \in {s \in {"client", "provider"} : both[s] # NoRate} |-> both[s]]
  BY DEF Candidates
<1> HIDE DEF both
<1>. QED BY <1>5, <1>6

(* Of the usable rates of two sources one is the lowest.                     *)
LEMMA LowestExists ==
  ASSUME NEW S, S # {}, S \subseteq {"client", "provider"}, NEW f,
         \A s \in S : f[s].rate \in Int
  PROVE  \E s \in S : \A t \in S : f[s].rate <= f[t].rate
<1>1. CASE S = {"client", "provider"}
  BY <1>1
<1>2. CASE S # {"client", "provider"}
  <2>1. PICK s \in S : S = {s}
    BY <1>2
  <2>. QED BY <2>1
<1>. QED BY <1>1, <1>2

LEMMA TwoSources ==
  ASSUME NEW S, S \subseteq {"client", "provider"}, ~(Cardinality(S) > 1), S # {}
  PROVE  \E s \in S : S = {s}
<1>1. CASE S = {"client", "provider"}
  <2>1. IsFiniteSet({"client"}) /\ Cardinality({"client"}) = 1
    BY FS_Singleton
  <2>2. Cardinality({"client"} \cup {"provider"}) = 2
    BY <2>1, FS_AddElement
  <2>3. S = {"client"} \cup {"provider"}
    BY <1>1
  <2>. QED BY <2>2, <2>3
<1>2. CASE S # {"client", "provider"}
  BY <1>2
<1>. QED BY <1>1, <1>2

(* Whatever the preference, a rate below the threshold is never used where   *)
(* a better one is at hand, and a conservative account gets the lowest.      *)
THEOREM UsableRateIsUsed == Spec => []UsableRateIsPreferred
<1>1. TypeOK => UsableRateIsPreferred
  <2> SUFFICES ASSUME TypeOK, NEW a \in DOMAIN Accounts,
                      {s \in DOMAIN Candidates(View, a) :
                          Usable(View, Candidates(View, a)[s])} # {}
               PROVE  /\ SelectRate(View, a) # NoRate /\ Usable(View, SelectRate(View, a))
                      /\ Accounts[a].conservative =>
                           \A s \in {s \in DOMAIN Candidates(View, a) :
                                        Usable(View, Candidates(View, a)[s])} :
                             SelectRate(View, a).rate <= Candidates(View, a)[s].rate
    BY DEF UsableRateIsPreferred
  <2> DEFINE off    == Candidates(View, a)
             usable == {s \in DOMAIN off : Usable(View, off[s])}
             lowest == CHOOSE s \in usable : \A t \in usable : off[s].rate <= off[t].rate
             first  == IF /\ Accounts[a].prefersClient
                          /\ ~("client" \in DOMAIN off /\ StaleRate(View, off["client"]))
                       THEN "client" ELSE "provider"
             chosen == IF first \in usable THEN first ELSE CHOOSE s \in usable : TRUE
  <2>1. /\ DOMAIN off \subseteq {"client", "provider"}
        /\ \A s \in DOMAIN off : off[s] # NoRate /\ off[s].rate \in Int
    BY CandidatesAreRates
  <2>2. usable # {} /\ usable \subseteq DOMAIN off /\ DOMAIN off # {}
    OBVIOUS
  <2>3. \A s \in usable : off[s] # NoRate /\ Usable(View, off[s]) /\ off[s].rate \in Int
    BY <2>1
  <2>4. SelectRate(View, a) = IF Accounts[a].conservative /\ Cardinality(DOMAIN off) > 1
                              THEN off[lowest] ELSE off[chosen]
    BY <2>2 DEF SelectRate
  <2>5. lowest \in usable /\ \A t \in usable : off[lowest].rate <= off[t].rate
    <3>1. \E s \in usable : \A t \in usable : off[s].rate <= off[t].rate
      <4> HIDE DEF usable, off
      <4>. QED BY <2>1, <2>2, <2>3, LowestExists
    <3>. QED BY <3>1
  <2>6. chosen \in usable
    BY <2>2
  <2>7. CASE Accounts[a].conservative /\ Cardinality(DOMAIN off) > 1
    BY <2>3, <2>4, <2>5, <2>7
  <2>8. CASE ~Accounts[a].conservative
    BY <2>3, <2>4, <2>6, <2>8
  <2>9. CASE Accounts[a].conservative /\ ~(Cardinality(DOMAIN off) > 1)
    <3>1. PICK s \in DOMAIN off : DOMAIN off = {s}
      BY <2>1, <2>2, <2>9, TwoSources
    <3>2. usable = {s} /\ chosen = s
      BY <2>2, <2>6, <3>1
    <3>3. SelectRate(View, a) = off[s]
      BY <2>4, <2>9, <3>2
    <3>. QED BY <2>3, <3>2, <3>3
  <2>. QED BY <2>7, <2>8, <2>9
<1>. QED BY <1>1, MarketDataTypeOK, PTL

-----------------------------------------------------------------------------
(* Who is ticked                                                             *)

(* Nobody that a publication passes over holds anything found by a name it  *)
(* is sent under, save by a symbol that is held on several venues.           *)
LEMMA PassedOver ==
  ASSUME NEW j \in Instruments, NEW key \in Keys,
         NEW a \in DOMAIN Accounts \ AffectedByQuote(j, key), NEW i \in Accounts[a].holds
  PROVE  /\ i.asset \notin Names(j) \cup {key} /\ i.stable \notin Names(j) \cup {key}
         /\ i.symbol \notin HeldOnSeveralVenues => i.symbol \notin Names(j) \cup {key}
<1>1. \A k \in Names(j) \cup {key} : a \notin MatchAccounts[k] /\ k \in Keys
  BY DEF AffectedByQuote, Keys
<1>2. \A k \in Keys : a \notin MatchAccounts[k] =>
        /\ k # i.asset /\ k # i.stable
        /\ i.symbol \notin HeldOnSeveralVenues => k # i.symbol
  BY DEF MatchAccounts
<1>. QED BY <1>1, <1>2

(* What such an account reads is the same before and after: the entries its  *)
(* lookup reaches are not touched.                                           *)
LEMMA PassedOverReadsTheSame ==
  ASSUME NEW j \in Instruments, NEW q \in Quotes, NEW key \in Keys,
         Merge(j, key, q), NEW before, NEW after,
         before.quotes = quotes, after.quotes = quotes', quotes \in [Keys -> Filed \cup {NoQuote}],
         NEW a \in DOMAIN Accounts, NEW i \in Accounts[a].holds,
         i.asset \notin Names(j) \cup {key}, i.stable \notin Names(j) \cup {key},
         \/ i.symbol \notin Names(j) \cup {key}
         \/ \E k \in {i.asset, i.stable} : ClientTable(before, a, i)[k] # NoQuote
  PROVE  ClientQuote(after, a, i) = ClientQuote(before, a, i)
<1>1. /\ i.asset \in Keys /\ i.stable \in Keys /\ i.symbol \in Keys
  BY SourcesAssumption, NamesAreKeys
<1>2. quotes' = [k \in Keys |-> IF k \in FiledUnder(j, key) THEN [of |-> j, data |-> q]
                                ELSE IF k = j.symbol THEN NoQuote ELSE quotes[k]]
  BY DEF Merge
<1>3. \A k \in Keys : k \notin Names(j) \cup {key} => quotes'[k] = quotes[k]
  <2>1. FiledUnder(j, key) \subseteq Names(j) \cup {key} /\ j.symbol \in Names(j)
    BY DEF FiledUnder, Names
  <2>. QED BY <1>2, <2>1
<1>4. \A k \in Names(i) : k \notin Names(j) \cup {key} =>
        ClientTable(after, a, i)[k] = ClientTable(before, a, i)[k]
  <2>1. Names(i) \subseteq Keys
    BY <1>1 DEF Names
  <2>. QED BY <1>3, <2>1 DEF ClientTable
<1>5. /\ i.asset \in Names(i) /\ i.stable \in Names(i) /\ i.symbol \in Names(i)
  BY DEF Names
<1>6. /\ ClientTable(after, a, i)[i.asset] = ClientTable(before, a, i)[i.asset]
      /\ ClientTable(after, a, i)[i.stable] = ClientTable(before, a, i)[i.stable]
  BY <1>4, <1>5
<1>7. Lookup(ClientTable(after, a, i), i) = Lookup(ClientTable(before, a, i), i)
  <2>1. CASE i.symbol \notin Names(j) \cup {key}
    BY <1>4, <1>5, <1>6, <2>1 DEF Lookup
  <2>2. CASE \E k \in {i.asset, i.stable} : ClientTable(before, a, i)[k] # NoQuote
    BY <1>6, <2>2 DEF Lookup
  <2>. QED BY <2>1, <2>2
<1>. QED BY <1>7 DEF ClientQuote

(* An evaluation depends on the cached quotes through what the lookup finds. *)
LEMMA SameQuoteSamePrice ==
  ASSUME NEW before, NEW after, NEW a \in DOMAIN Accounts, NEW i \in Accounts[a].holds,
         ClientQuote(after, a, i) = ClientQuote(before, a, i),
         after.rates = before.rates, after.provider = before.provider,
         after.now = before.now
  PROVE  Normalized(after, a, i) = Normalized(before, a, i)
<1>1. \A q, h : QuoteQuality(after, q, h) = QuoteQuality(before, q, h)
  BY DEF QuoteQuality
<1>2. ChooseQuote(after, a, i) = ChooseQuote(before, a, i)
  BY <1>1 DEF ChooseQuote
<1>3. ClientRate(after, a) = ClientRate(before, a)
  BY DEF ClientRate
<1>4. Candidates(after, a) = Candidates(before, a)
  BY <1>3 DEF Candidates
<1>5. \A r : /\ StaleRate(after, r) = StaleRate(before, r)
            /\ RateQuality(after, r) = RateQuality(before, r)
            /\ Usable(after, r) = Usable(before, r)
  BY DEF StaleRate, RateQuality, Usable
<1>6. SelectRate(after, a) = SelectRate(before, a)
  <2> DEFINE off       == Candidates(before, a)
             usable(v) == {s \in DOMAIN off : Usable(v, off[s])}
             late(v)   == "client" \in DOMAIN off /\ StaleRate(v, off["client"])
             lowest(S) == CHOOSE s \in S : \A t \in S : off[s].rate <= off[t].rate
             first(b)  == IF Accounts[a].prefersClient /\ ~b THEN "client" ELSE "provider"
             pick(S, b) == IF DOMAIN off = {} THEN NoRate
                           ELSE IF Accounts[a].conservative /\ Cardinality(DOMAIN off) > 1
                           THEN IF S = {} THEN NoRate ELSE off[lowest(S)]
                           ELSE IF S = {}
                           THEN off[IF "client" \in DOMAIN off THEN "client" ELSE "provider"]
                           ELSE off[IF first(b) \in S THEN first(b) ELSE CHOOSE s \in S : TRUE]
  <2>1. usable(after) = usable(before) /\ late(after) = late(before)
    BY <1>5
  <2>2. SelectRate(before, a) = pick(usable(before), late(before))
    BY DEF SelectRate
  <2>3. SelectRate(after, a) = pick(usable(after), late(after))
    BY <1>4 DEF SelectRate
  <2> HIDE DEF usable, late, pick
  <2>. QED BY <2>1, <2>2, <2>3
<1>7. \A q, r : ConvertedQuality(after, i, q, r) = ConvertedQuality(before, i, q, r)
  BY <1>5 DEF ConvertedQuality
<1>. QED BY <1>1, <1>2, <1>6, <1>7 DEF Normalized

(* That of a domestic asset does not depend on the rates.                    *)
LEMMA DomesticNeedsNoRate ==
  ASSUME NEW before, NEW after, NEW a \in DOMAIN Accounts, NEW i \in Accounts[a].holds,
         ~i.foreign, after.quotes = before.quotes, after.provider = before.provider,
         after.now = before.now
  PROVE  Normalized(after, a, i) = Normalized(before, a, i)
<1>1. \A q, h : QuoteQuality(after, q, h) = QuoteQuality(before, q, h)
  BY DEF QuoteQuality
<1>2. ClientQuote(after, a, i) = ClientQuote(before, a, i)
  BY DEF ClientQuote, ClientTable
<1>3. ChooseQuote(after, a, i) = ChooseQuote(before, a, i)
  BY <1>1, <1>2 DEF ChooseQuote
<1>4. \A v, q, r : ConvertedQuality(v, i, q, r) = q /\ ConvertedPrice(i, q, r) = q.price
  BY DEF ConvertedQuality, ConvertedPrice
<1>. QED BY <1>1, <1>3, <1>4 DEF Normalized

(* What a step that publishes may not do: change what the accounts it does   *)
(* not tick are priced with.                                                 *)
ReachesHolders ==
  quotes' # quotes \/ rates' # rates =>
    \E before \in {View}, after \in {View'} :
      \A a \in DOMAIN Accounts \ affected' :
        \A i \in Accounts[a].holds :
          \/ i.symbol \notin HeldOnSeveralVenues
          \/ \E k \in {i.asset, i.stable} : ClientTable(before, a, i)[k] # NoQuote
          => Normalized(after, a, i) = Normalized(before, a, i)

(* The accounts an update of a quote or a rate is said to affect, which are  *)
(* those the service ticks (_affected_accounts of monitoring/service.py),    *)
(* include everyone whose price, quality or halt it changes, whatever names  *)
(* instruments share and whatever key the request came under.                *)
THEOREM PublicationsReachHolders == Spec => PublicationReachesHolders
<1>1. CacheInv /\ [Next]_vars => [ReachesHolders]_vars
  <2> SUFFICES ASSUME CacheInv, [Next]_vars, quotes' # quotes \/ rates' # rates,
                      NEW a \in DOMAIN Accounts \ affected', NEW i \in Accounts[a].holds,
                      \/ i.symbol \notin HeldOnSeveralVenues
                      \/ \E k \in {i.asset, i.stable} : ClientTable(View, a, i)[k] # NoQuote
               PROVE  Normalized(View', a, i) = Normalized(View, a, i)
    BY DEF ReachesHolders
  <2> DEFINE before == View
             after  == View'
  <2>1. /\ before.quotes = quotes /\ before.rates = rates
        /\ before.provider = provider /\ before.now = now
        /\ after.quotes = quotes' /\ after.rates = rates'
        /\ after.provider = provider' /\ after.now = now'
    BY DEF View
  <2>2. \/ i.symbol \notin HeldOnSeveralVenues
        \/ \E k \in {i.asset, i.stable} : ClientTable(before, a, i)[k] # NoQuote
    OBVIOUS
  <2> HIDE DEF before, after
  <2> SUFFICES Normalized(after, a, i) = Normalized(before, a, i)
    BY DEF before, after
  <2>3. ASSUME NEW j \in Instruments, NEW q \in Quotes, NEW key \in Keys,
               PublishQuote(j, key, q)
        PROVE  Normalized(after, a, i) = Normalized(before, a, i)
    <3>1. /\ Merge(j, key, q) /\ affected' = AffectedByQuote(j, key)
          /\ rates' = rates /\ provider' = provider /\ now' = now
      BY <2>3 DEF PublishQuote
    <3>2. /\ i.asset \notin Names(j) \cup {key} /\ i.stable \notin Names(j) \cup {key}
          /\ i.symbol \notin HeldOnSeveralVenues => i.symbol \notin Names(j) \cup {key}
      BY <3>1, PassedOver
    <3>3. quotes \in [Keys -> Filed \cup {NoQuote}]
      BY DEF CacheInv, CacheTypeOK
    <3>4. ClientQuote(after, a, i) = ClientQuote(before, a, i)
      BY <2>1, <2>2, <3>1, <3>2, <3>3, PassedOverReadsTheSame
    <3>. QED BY <2>1, <3>1, <3>4, SameQuoteSamePrice
  <2>4. ASSUME NEW d \in Directions, NEW r \in Rates, PublishRate(d, r)
        PROVE  Normalized(after, a, i) = Normalized(before, a, i)
    <3>1. /\ quotes' = quotes /\ provider' = provider /\ now' = now
          /\ affected' = AffectedByRate
      BY <2>4 DEF PublishRate, cacheVars
    <3>2. ~i.foreign
      BY <3>1 DEF AffectedByRate
    <3>. QED BY <2>1, <3>1, <3>2, DomesticNeedsNoRate
  <2>5. CASE ProviderMoves \/ Advance \/ UNCHANGED vars
    BY <2>5 DEF ProviderMoves, Advance, vars, cacheVars
  <2>. QED BY <2>3, <2>4, <2>5, RequestsAreKeyed DEF Next
<1>2. [][ReachesHolders]_vars <=> PublicationReachesHolders
  BY DEF ReachesHolders, PublicationReachesHolders
<1>3. Spec => []CacheInv
  BY ServiceRunsCache, CacheInvariant, PTL
<1>. QED BY <1>1, <1>2, <1>3, PTL DEF Spec
=============================================================================
