-------------------------- MODULE MarketDataCache ---------------------------
(***************************************************************************)
(* The in-memory cache of published quotes                                 *)
(* (src/app/monitoring/market_updates.py).  One quote is filed under       *)
(* several keys: the instrument's asset id, its stable key, the key of the *)
(* request and, while only one venue lists it, its bare symbol.  Names are *)
(* in upper case throughout, as the callers send them.                     *)
(*                                                                         *)
(* A publication is one quote; a request that carries more merges them one *)
(* after the other under the cache's lock.                                 *)
(***************************************************************************)
CONSTANTS
  Instruments,  (* InstrumentIdentity: asset id, symbol, stable key        *)
  Requests,     (* what feeds publish: [of: Instruments, key: a name]      *)
  Quotes,       (* the data a publication can carry                        *)
  NoQuote       (* no entry                                                *)

ASSUME RequestsAssumption == \A r \in Requests : r.of \in Instruments

Names(i) == {i.asset, i.symbol, i.stable}

(* The key of a request is checked against nothing: it may be a name of the  *)
(* instrument, of another one or of none.                                    *)
Keys == (UNION {Names(i) : i \in Instruments}) \cup {r.key : r \in Requests}

Symbols == {i.symbol : i \in Instruments}

Filed == [of: Instruments, data: Quotes]

ASSUME NoQuoteAssumption == NoQuote \notin Quotes \cup Filed

VARIABLES
  quotes,       (* CachedMarketData.quotes                                 *)
  venues,       (* _symbol_to_stable_keys                                  *)
  latest,       (* history: the last quote published under each name       *)
  published     (* history: the instruments published so far               *)

cacheVars == <<quotes, venues, latest, published>>

CacheTypeOK ==
  /\ quotes \in [Keys -> Filed \cup {NoQuote}]
  /\ venues \in [Symbols -> SUBSET {i.stable : i \in Instruments}]
  /\ latest \in [Keys -> Quotes \cup {NoQuote}]
  /\ published \subseteq Instruments

CacheInit ==
  /\ quotes = [k \in Keys |-> NoQuote]
  /\ venues = [s \in Symbols |-> {}]
  /\ latest = [k \in Keys |-> NoQuote]
  /\ published = {}

(* Faulty variant of Listing: asset ids are kept, not stable keys.           *)
ListingOfAssets(i) == venues[i.symbol] \cup {i.asset}

(* Venues that list the symbol once i has been published on its own.         *)
Listing(i) == venues[i.symbol] \cup {i.stable}

BecomesAmbiguous(i) == \E s \in Listing(i) : s # i.stable

(* Faulty variant of FiledUnder: the request's key is always kept.           *)
FiledUnderAnyKey(i, key) ==
  {i.asset, i.stable, key} \cup (IF BecomesAmbiguous(i) THEN {} ELSE {i.symbol})

(* The keys of merge.                                                        *)
FiledUnder(i, key) ==
  {i.asset, i.stable} \cup (IF BecomesAmbiguous(i) THEN {key} \ {i.symbol}
                                                   ELSE {key, i.symbol})

Recorded(i, key, q) ==
  /\ latest' = [k \in Keys |-> IF k \in Names(i) \cup {key} THEN q ELSE latest[k]]
  /\ published' = published \cup {i}

(* Faulty variant of Merge: an ambiguous symbol keeps the quote it has.      *)
MergeKeepingAlias(i, key, q) ==
  /\ venues' = [venues EXCEPT ![i.symbol] = Listing(i)]
  /\ quotes' = [k \in Keys |-> IF k \in FiledUnder(i, key) THEN [of |-> i, data |-> q]
                               ELSE quotes[k]]
  /\ Recorded(i, key, q)

(* merge: file the quote; a symbol that more than one venue lists loses the  *)
(* entry it had, unless it is this instrument's asset id.                    *)
Merge(i, key, q) ==
  /\ venues' = [venues EXCEPT ![i.symbol] = Listing(i)]
  /\ quotes' = [k \in Keys |-> IF k \in FiledUnder(i, key) THEN [of |-> i, data |-> q]
                               ELSE IF k = i.symbol THEN NoQuote
                               ELSE quotes[k]]
  /\ Recorded(i, key, q)

CacheNext == \E r \in Requests, q \in Quotes : Merge(r.of, r.key, q)

CacheSpec == CacheInit /\ [][CacheNext]_cacheVars

-----------------------------------------------------------------------------
(* The lookup of ClientSuppliedProvider in a table of quotes: asset id,      *)
(* stable key, symbol.                                                       *)
Lookup(table, i) ==
  IF table[i.asset] # NoQuote THEN table[i.asset]
  ELSE IF table[i.stable] # NoQuote THEN table[i.stable]
  ELSE table[i.symbol]

(* A symbol under which several listings were published.  An asset id may be *)
(* the bare symbol of others, and a name of several listings itself.         *)
Contested(s) ==
  \E i, j \in published : i.symbol = s /\ j.symbol = s /\ i.stable # j.stable

(* Under every name readers find the quote that arrived last under it, older *)
(* or not and whichever listing it was sent for; only the bare symbol of     *)
(* several listings shows nothing, until it is sent as a name of its own.    *)
(* No publication changes an entry it does not name.                         *)
Board == INSTANCE LatestQuotes
  WITH board        <- [k \in Keys |-> IF quotes[k] = NoQuote THEN NoQuote ELSE quotes[k].data],
       withdrawn    <- {s \in Symbols : Contested(s)},
       Publications <- {[own   |-> {r.of.asset, r.of.stable} \cup ({r.key} \ {r.of.symbol}),
                         alias |-> r.of.symbol] : r \in Requests}

BoardSpec == Board!Spec

(* Once two listings have been published under a symbol, the bare symbol     *)
(* prices nothing on behalf of either: a quote still filed under it was sent *)
(* under that very name, as an asset id, as a stable key or as the key of an *)
(* instrument of another symbol                                              *)
(* (test_market_data_cache_ambiguous_symbol_provider_lookup).                *)
AmbiguousSymbolPricesNobody ==
  \A s \in Symbols :
    Contested(s) /\ quotes[s] # NoQuote =>
      quotes[s].of.symbol # s \/ s \in {quotes[s].of.asset, quotes[s].of.stable}
=============================================================================
