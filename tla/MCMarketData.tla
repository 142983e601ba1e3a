---------------------------- MODULE MCMarketData ----------------------------
(***************************************************************************)
(* A small instance of MarketData: one symbol on two venues, one of them   *)
(* foreign, another on three, two of them published under one asset id     *)
(* which is its bare name; an account for each data mode.                  *)
(***************************************************************************)
EXTENDS MarketData

Home    == [asset |-> "NYSE:X:USD", symbol |-> "X", stable |-> "NYSE:X:USD:ETF", foreign |-> FALSE]
Foreign == [asset |-> "LSE:X:GBP", symbol |-> "X", stable |-> "LSE:X:GBP:ETF", foreign |-> TRUE]
Other   == [asset |-> "TSX:Y:USD", symbol |-> "Y", stable |-> "TSX:Y:USD:ETF", foreign |-> FALSE]
Plain   == [asset |-> "Y", symbol |-> "Y", stable |-> "UNKNOWN:Y:USD:ETF", foreign |-> FALSE]
Twin    == [asset |-> "Y", symbol |-> "Y", stable |-> "LSE:Y:GBP:ETF", foreign |-> TRUE]

MCInstruments == {Home, Foreign, Other, Plain, Twin}

(* Under an asset id, under a symbol, under the asset id of another and under *)
(* the symbol of another.                                                    *)
MCRequests ==
  {[of |-> Plain, key |-> Plain.asset], [of |-> Home, key |-> Home.symbol],
   [of |-> Foreign, key |-> Home.asset], [of |-> Twin, key |-> Twin.asset],
   [of |-> Other, key |-> Home.symbol]}

At(price, taken, quality, halted) ==
  [price |-> price, taken |-> taken, quality |-> quality, halted |-> halted]

(* Good and early; late, of poor quality and halted.                         *)
MCQuotes == {At(8, 0, 100, FALSE), At(6, 1, 40, TRUE)}

RateAt(rate, taken, quality) == [rate |-> rate, taken |-> taken, quality |-> quality]

MCRates == {RateAt(20, 1, 100)}

NoneQuoted == [i \in Instruments |-> NoQuote]
NoneRated == [d \in Directions |-> NoRate]

(* The rates registered and provided are usable while they are fresh.        *)
MCProviders ==
  {[quotes |-> NoneQuoted, rates |-> NoneRated, halted |-> {}],
   [quotes |-> [i \in Instruments |-> At(7, 0, 100, FALSE)], halted |-> {Home.stable},
    rates |-> [NoneRated EXCEPT !["direct"] = RateAt(10, 0, 70)]]}

Unregistered == [k \in Keys |-> NoQuote]

MCAccounts ==
  [client   |-> [holds |-> {Home, Foreign, Plain}, mode |-> "client_supplied",
                 conservative |-> FALSE, prefersClient |-> TRUE, rates |-> NoneRated,
                 quotes |-> [Unregistered EXCEPT ![Home.asset] = At(4, 0, 100, FALSE)]],
   ours     |-> [holds |-> {Foreign}, mode |-> "provided_by_us",
                 conservative |-> FALSE, prefersClient |-> FALSE, rates |-> NoneRated,
                 quotes |-> Unregistered],
   hybrid   |-> [holds |-> {Home, Foreign}, mode |-> "hybrid",
                 conservative |-> FALSE, prefersClient |-> TRUE, quotes |-> Unregistered,
                 rates |-> [NoneRated EXCEPT !["inverse"] = RateAt(20, 0, 100)]],
   cautious |-> [holds |-> {Foreign}, mode |-> "hybrid",
                 conservative |-> TRUE, prefersClient |-> FALSE, quotes |-> Unregistered,
                 rates |-> [NoneRated EXCEPT !["direct"] = RateAt(12, 0, 60)]]]
=============================================================================
