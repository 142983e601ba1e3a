------------------------ MODULE CollateralValuation ------------------------
(***************************************************************************)
(* CollateralRiskEngine.evaluate (src/app/core/evaluator.py): what a       *)
(* portfolio is worth as collateral, asset by asset, the risk score of the *)
(* whole, and the orders that would liquidate a part of it                 *)
(* (src/app/liquidation/plan.py).                                          *)
(*                                                                         *)
(* Rates, shares and scores are percentages, cut to a whole percent.  What *)
(* volatility, liquidity, spread and stress leave of a quote's value is    *)
(* given with the quote (kept, recovered, slippage); concentration, data   *)
(* quality and eligibility, which couple the assets, are computed.         *)
(***************************************************************************)
EXTENDS CollateralRisk, SequencesExt

CONSTANTS
  Terms,        (* [asset type -> [base, cap, tolerance, slope]]           *)
  PortfolioCap, (* portfolio_ltv_cap                                       *)
  MinQuality,   (* min_data_quality_score                                  *)
  LendOnHalted  (* allow_lending_on_stale_or_halted_assets                 *)

ASSUME LendingTermsAssumption ==
  /\ \A type \in DOMAIN Terms :
       Terms[type] \in [base: 0..100, cap: 0..100, tolerance: 0..100, slope: Nat]
  /\ PortfolioCap \in 0..100 /\ MinQuality \in 0..100 /\ LendOnHalted \in BOOLEAN

(* An instrument is an asset of a type on a venue; holdings are a function   *)
(* from instruments to quantities, markets a function from assets to quotes. *)
(* _resolve_market_data: a quote filed under the asset alone prices the one  *)
(* instrument of that asset held, and none when two are.                     *)
Priced(holdings, market) ==
  {i \in DOMAIN holdings :
     /\ i.asset \in DOMAIN market
     /\ \A j \in DOMAIN holdings : j.asset = i.asset => j = i}

Worth(holdings, market, i) ==
  IF i \in Priced(holdings, market) THEN holdings[i] * market[i.asset].price ELSE 0

PortfolioValue(holdings, market) ==
  SumFunction([i \in DOMAIN holdings |-> Worth(holdings, market, i)])

Eligible(quote) ==
  /\ quote.halted => LendOnHalted
  /\ quote.quality >= MinQuality

ConcentrationAdjustment(type, share) ==
  LET haircut == (Excess(share, Terms[type].tolerance) * Terms[type].slope) \div 100
  IN  Clamp(100 - Clamp(haircut, 0, 90), 5, 100)

DataQualityAdjustment(quote) ==
  IF quote.halted /\ ~LendOnHalted THEN 0
  ELSE IF quote.quality < MinQuality THEN Least(quote.quality \div 2, 20)
  ELSE (100 + 3 * quote.quality) \div 4

(* _evaluate_asset: one instrument in a portfolio worth total.               *)
AssetResult(holdings, market, i, total) ==
  LET worth    == Worth(holdings, market, i)
      quote    == market[i.asset]
      share    == IF total = 0 THEN 0 ELSE (100 * worth) \div total
      product  == (quote.kept * ConcentrationAdjustment(i.type, share)
                     * DataQualityAdjustment(quote)) \div 10000
      terms    == Terms[i.type]
      ltv      == Least((terms.base * product) \div 100, terms.cap)
  IN  IF i \notin Priced(holdings, market)
      THEN [worth |-> 0, share |-> 0, lendable |-> 0, stressed |-> 0, risk |-> 100,
            slippage |-> 100, eligible |-> FALSE]
      ELSE [worth    |-> worth,
            share    |-> share,
            lendable |-> IF Eligible(quote) THEN RoundMoney((worth * ltv) \div 100) ELSE 0,
            stressed |-> IF Eligible(quote)
                         THEN RoundMoney((worth * quote.recovered) \div 100) ELSE 0,
            risk     |-> 100 - product,
            slippage |-> IF Eligible(quote) THEN quote.slippage ELSE 100,
            eligible |-> Eligible(quote)]

AssetResults(holdings, market) ==
  LET total == PortfolioValue(holdings, market)
  IN  [i \in DOMAIN holdings |-> AssetResult(holdings, market, i, total)]

(* _portfolio_risk_score: risk by weight, concentration, and what is not     *)
(* eligible.                                                                 *)
PortfolioRiskScore(results) ==
  LET held       == DOMAIN results
      total      == SumFunction([i \in held |-> results[i].worth])
      weighted   == SumFunction([i \in held |-> results[i].risk * results[i].worth]) \div total
      herfindahl == SumFunction([i \in held |-> results[i].share * results[i].share]) \div 100
      ineligible == (100 * SumFunction([i \in held |-> IF results[i].eligible THEN 0
                                                       ELSE results[i].worth])) \div total
  IN  IF total = 0 THEN 100
      ELSE Clamp((75 * weighted + 20 * herfindahl + 35 * ineligible) \div 100, 0, 100)

ValuationOf(results) ==
  LET held  == DOMAIN results
      total == SumFunction([i \in held |-> results[i].worth])
  IN  [value    |-> total,
       approved |-> Least(SumFunction([i \in held |-> results[i].lendable]),
                          (total * PortfolioCap) \div 100),
       stressed |-> SumFunction([i \in held |-> results[i].stressed]),
       score    |-> PortfolioRiskScore(results)]

Valued(holdings, market) ==
  CHOOSE v \in {ValuationOf(r) : r \in {AssetResults(holdings, market)}} : TRUE

-----------------------------------------------------------------------------
Priority(result) == 45 * (100 - result.slippage) + 35 * result.risk + 20 * result.share

Sellable(results) == {i \in DOMAIN results : results[i].eligible /\ results[i].stressed > 0}

(* sorted: what can be sold, by falling priority.                            *)
Ranked(results) ==
  CHOOSE s \in [1..Cardinality(Sellable(results)) -> Sellable(results)] :
    /\ IsInjective(s)
    /\ \A j, k \in DOMAIN s :
         j < k => Priority(results[s[j]]) >= Priority(results[s[k]])

(* Faulty variant of AddOrder: an asset recovers its market value.           *)
AddOrderUnstressed(plan, i, results) ==
  LET cash == Least(results[i].worth, plan.remaining)
  IN  IF plan.remaining = 0 THEN plan
      ELSE [remaining |-> plan.remaining - cash,
            orders    |-> Append(plan.orders, [instrument |-> i, cash |-> cash])]

AddOrder(plan, i, results) ==
  LET cash == Least(results[i].stressed, plan.remaining)
  IN  IF plan.remaining = 0 THEN plan
      ELSE [remaining |-> plan.remaining - cash,
            orders    |-> Append(plan.orders, [instrument |-> i, cash |-> cash])]

(* build_liquidation_plan: the cash each order is expected to recover, in    *)
(* order of priority, until the target is met.  The quantity of an order is  *)
(* in proportion to its cash.                                                *)
LiquidationOrders(results, target) ==
  LET ranked == Ranked(results)
      count  == Cardinality(Sellable(results))
      plan[n \in 0..count] ==
        IF n = 0 THEN [remaining |-> target, orders |-> <<>>]
        ELSE AddOrder(plan[n - 1], ranked[n], results)
  IN  plan[count].orders

TargetRecovery(v, balance) ==
  Larger(RepaymentOnlyCure(v, balance), Excess(balance, v.approved))
=============================================================================
