-------------------------- MODULE PortfolioActions --------------------------
(***************************************************************************)
(* A lender that has a borrower's portfolio actions checked before they    *)
(* are carried out (CreditLifecycleEngine.check_portfolio_action,          *)
(* src/app/lifecycle/service.py) and books the projected account of each   *)
(* one that passes, while the market moves between the calls.  The older   *)
(* gate, CollateralRiskEngine.pre_trade_check (src/app/core/evaluator.py), *)
(* is asked about the same actions.                                        *)
(*                                                                         *)
(* Quantities are whole lots: a quantity that comes from an amount of      *)
(* money is cut to a lot.  A projection is a set: empty when the action is *)
(* refused with an error, else the one account it leads to.                *)
(***************************************************************************)
EXTENDS CollateralValuation

CONSTANTS
  Markets,     (* quotes of the assets, one of them in force at a time     *)
  Accounts,    (* the accounts the lender starts with                      *)
  Actions,     (* what the borrower may propose                            *)
  MaxChecks    (* bound: actions proposed in one behaviour                 *)

Quote ==
  [price: Nat \ {0}, bid: Nat, ask: Nat, halted: BOOLEAN, quality: 0..100,
   kept: 0..100, recovered: 0..100, slippage: 0..100]

ASSUME MarketsAssumption ==
  \A m \in Markets : \A asset \in DOMAIN m : m[asset] \in Quote
ASSUME MaxChecksAssumption == MaxChecks \in Nat
ASSUME TypesAssumption == "cash" \in DOMAIN Terms

(* An account's holdings: lots, maybe none, of what has lending terms.      *)
AreHoldings(holdings) ==
  /\ IsFiniteSet(DOMAIN holdings)
  /\ \A i \in DOMAIN holdings :
       /\ DOMAIN i = {"asset", "type", "venue"} /\ i.type \in DOMAIN Terms
       /\ holdings[i] \in Nat

IsAccount(a) ==
  /\ DOMAIN a = {"holdings", "cash", "loan"}
  /\ AreHoldings(a.holdings) /\ a.cash \in Nat /\ a.loan \in Loan

ASSUME AccountsAssumption == \A a \in Accounts : IsAccount(a)
ASSUME ActionsAssumption ==
  \A action \in Actions :
    /\ {action.type, action.toType} \subseteq DOMAIN Terms \cup {"any"}
    /\ {action.quantity, action.amount, action.toQuantity, action.toAmount} \subseteq Nat

VARIABLES
  account,     (* AccountState: holdings, pledged cash, loan               *)
  market,      (* market_data, without pledged cash                        *)
  answer,      (* the last answer and the action it is about               *)
  checks       (* actions proposed so far                                  *)

vars == <<account, market, answer, checks>>

NoAction ==
  [kind |-> "none", asset |-> "none", type |-> "any", quantity |-> 0, amount |-> 0,
   inward |-> FALSE, funding |-> "none", withdraw |-> FALSE,
   to |-> "none", toType |-> "any", toQuantity |-> 0, toAmount |-> 0]

Decisions ==
  {"none", "refused", "approve", "reduce_available_credit", "reject", "margin_call",
   "liquidation"}

TypeOK ==
  /\ IsAccount(account)
  /\ market \in Markets
  /\ answer.decision \in Decisions
  /\ answer.available \in Nat /\ answer.required \in Nat
  /\ checks \in 0..MaxChecks

-----------------------------------------------------------------------------
(* Pledged cash counts as one more holding, with a quote of its own.         *)
PledgedCash == [asset |-> "pledged_cash", type |-> "cash", venue |-> "unknown"]

CashQuote ==
  [price |-> 1, bid |-> 1, ask |-> 1, halted |-> FALSE, quality |-> 100,
   kept |-> 99, recovered |-> 99, slippage |-> 0]

Put(f, x, y) == [z \in DOMAIN f \cup {x} |-> IF z = x THEN y ELSE f[z]]

(* setdefault: a quote of the client's own for it would be kept.             *)
MarketWithCash ==
  [asset \in DOMAIN market \cup {"pledged_cash"} |->
     IF asset \in DOMAIN market THEN market[asset] ELSE CashQuote]

WithCash(holdings, cash) ==
  IF cash > 0 THEN Put(holdings, PledgedCash, cash) ELSE holdings

CollateralOf(a) == Valued(WithCash(a.holdings, a.cash), MarketWithCash)

(* evaluate raises without holdings, and on worthless ones without a debt.   *)
Assessable(holdings, v, balance) == DOMAIN holdings # {} /\ ~Unassessable(v, balance)

CanAssess(a) == Assessable(WithCash(a.holdings, a.cash), CollateralOf(a), Balance(a.loan))

QuotePrice(quote, side) ==
  IF side = "buy"
  THEN IF quote.ask > 0 THEN quote.ask ELSE (quote.price * 102) \div 100
  ELSE IF quote.bid > 0 THEN quote.bid ELSE (quote.price * 98) \div 100

ExecutionPrice(asset, side) == QuotePrice(market[asset], side)

(* _execution_price raises unless the price is positive.                     *)
Tradable(asset, side) == asset \in DOMAIN market /\ ExecutionPrice(asset, side) > 0

(* Faulty variant of MarketAmount: a sale is credited at the ask.            *)
MarketAmountAtAsk(asset, quantity, side) ==
  RoundMoney(quantity * ExecutionPrice(asset, "buy"))

MarketAmount(asset, quantity, side) ==
  RoundMoney(quantity * ExecutionPrice(asset, side))

(* _quantity_from_amount, _asset_quantity: at most one quantity.             *)
QuantityFor(asset, amount, side) ==
  IF Tradable(asset, side) /\ amount > 0
  THEN {amount \div ExecutionPrice(asset, side)} ELSE {}

AssetQuantity(action, side) ==
  IF action.quantity > 0 THEN {action.quantity}
  ELSE QuantityFor(action.asset, action.amount, side)

(* Faulty variant of HoldingDelta: a sale of more than is held sells it all. *)
HoldingDeltaUnchecked(holdings, asset, type, delta) ==
  LET candidates == {i \in DOMAIN holdings : i.asset = asset /\ type \in {"any", i.type}}
  IN  {[holdings EXCEPT ![i] = Larger(0, @ + delta)] : i \in candidates}

(* _add_holding_delta: the one holding of the asset, and of the type if it   *)
(* is given, changes by delta; a purchase may open a new one.                *)
HoldingDelta(holdings, asset, type, delta) ==
  LET candidates == {i \in DOMAIN holdings : i.asset = asset /\ type \in {"any", i.type}}
      opened     == [asset |-> asset, type |-> type, venue |-> "unknown"]
  IN  IF candidates = {}
      THEN IF delta < 0 \/ type = "any" \/ asset \notin DOMAIN market THEN {}
           ELSE {Put(holdings, opened, delta)}
      ELSE {[holdings EXCEPT ![i] = @ + delta] :
              i \in {i \in candidates : candidates = {i} /\ holdings[i] + delta >= 0}}

(* Cash for a purchase: pledged cash first, the rest drawn or brought in.    *)
Funded(a, cost, funding) ==
  LET shortfall == RoundMoney(cost - a.cash)
      v         == Valued(a.holdings, market)
  IN  IF cost <= a.cash THEN {[a EXCEPT !.cash = RoundMoney(@ - cost)]}
      ELSE IF funding = "external_cash" THEN {[a EXCEPT !.cash = 0]}
      ELSE IF funding = "draw" /\ Assessable(a.holdings, v, Balance(a.loan))
              /\ DrawDecision(v, a.loan, shortfall, 0) = "approved"
      THEN {[a EXCEPT !.cash = 0, !.loan.principal = RoundMoney(@ + shortfall)]}
      ELSE {}

Sell(a, action) ==
  UNION {{[a EXCEPT !.holdings = h,
                    !.cash = IF action.withdraw THEN @
                             ELSE RoundMoney(@ + MarketAmount(action.asset, q, "sell"))] :
            h \in HoldingDelta(a.holdings, action.asset, action.type, -q)} :
          q \in IF Tradable(action.asset, "sell") THEN AssetQuantity(action, "sell") ELSE {}}

(* The cost of a purchase is the amount when one is given, whatever quantity *)
(* is given with it.                                                         *)
PurchaseCost(action, quantity) ==
  IF action.amount > 0 THEN {RoundMoney(action.amount)}
  ELSE IF Tradable(action.asset, "buy") THEN {MarketAmount(action.asset, quantity, "buy")}
  ELSE {}

Buy(a, action) ==
  UNION {UNION {UNION {{[paid EXCEPT !.holdings = h] :
                          h \in HoldingDelta(paid.holdings, action.asset, action.type, q)} :
                       paid \in Funded(a, cost, action.funding)} :
                cost \in PurchaseCost(action, q)} :
         q \in AssetQuantity(action, "buy")}

(* WITHDRAW_SECURITY, whatever its direction, and TRANSFER_SECURITY.         *)
Inward(action) == action.kind = "transfer_security" /\ action.inward

Move(a, action) ==
  UNION {{[a EXCEPT !.holdings = h] :
            h \in HoldingDelta(a.holdings, action.asset, action.type,
                               IF Inward(action) THEN q ELSE -q)} :
          q \in AssetQuantity(action, "sell")}

(* _cash_amount, which raises unless the stated amount is positive: the      *)
(* lifecycle rounds it, the older gate does not.                             *)
StatedCash(action) == IF action.amount > 0 THEN action.amount ELSE action.quantity

CashAmount(action) == RoundMoney(StatedCash(action))

(* Faulty variant of WithdrawCash: more than is pledged may be withdrawn.    *)
WithdrawCashUnchecked(a, action) ==
  {[a EXCEPT !.cash = @ - c] : c \in {c \in {CashAmount(action)} : StatedCash(action) > 0}}

WithdrawCash(a, action) ==
  {[a EXCEPT !.cash = @ - c] :
     c \in {c \in {CashAmount(action)} : StatedCash(action) > 0 /\ c <= a.cash}}

Repay(a, action) ==
  {[a EXCEPT !.loan = RoundLoan(ApplyRepayment(@, c))] :
     c \in {c \in {CashAmount(action)} : StatedCash(action) > 0}}

(* Sell one asset for another.  The buy leg costs what the sale brings, or   *)
(* to_amount; to_quantity, when it is given, is what is bought for it.       *)
Rebalance(a, action) ==
  UNION {LET proceeds == MarketAmount(action.asset, q, "sell")
             cost     == IF action.toAmount > 0 THEN action.toAmount ELSE proceeds
             bought   == IF action.toQuantity > 0 THEN {action.toQuantity}
                         ELSE QuantityFor(action.to, cost, "buy")
         IN  IF cost > proceeds + a.cash THEN {}
             ELSE UNION {UNION {{[a EXCEPT !.holdings = h,
                                           !.cash = RoundMoney(@ + proceeds - cost)] :
                                   h \in HoldingDelta(sold, action.to, action.toType, b)} :
                                b \in bought} :
                         sold \in HoldingDelta(a.holdings, action.asset, action.type, -q)} :
          q \in IF Tradable(action.asset, "sell") THEN AssetQuantity(action, "sell") ELSE {}}

(* _project_portfolio_action; what is sold out is no longer held.            *)
Projected(a, action) ==
  LET outcome ==
        CASE action.kind = "sell"              -> Sell(a, action)
          [] action.kind = "buy"               -> Buy(a, action)
          [] action.kind = "withdraw_cash"     -> WithdrawCash(a, action)
          [] action.kind = "withdraw_security" -> Move(a, action)
          [] action.kind = "transfer_security" -> Move(a, action)
          [] action.kind = "repay"             -> Repay(a, action)
          [] action.kind = "rebalance"         -> Rebalance(a, action)
          [] OTHER                             -> {}
      left(b) == [b EXCEPT !.holdings =
                    [i \in {i \in DOMAIN @ : @[i] > 0} |-> @[i]]]
      empty(b) == DOMAIN b.holdings = {} /\ b.cash = 0 /\ Balance(b.loan) = 0
  IN  {b \in {left(c) : c \in outcome} : ~empty(b)}

(* Faulty variant of ActionDecision: the portfolio before the action is      *)
(* looked at.                                                                *)
ActionDecisionOnBefore(pre, preLoan, post, postLoan) ==
  IF MarginState(pre, Balance(postLoan)) = "safe" THEN "approve" ELSE "reject"

(* _portfolio_action_decision                                                *)
ActionDecision(pre, preLoan, post, postLoan) ==
  LET owed  == RoundMoney(Balance(postLoan))
      state == MarginState(post, Balance(postLoan))
  IN  IF owed = 0 THEN "approve"
      ELSE IF state \in AlarmStates THEN state
      ELSE IF state # "safe" \/ owed > SafeCreditLimit(post) THEN "reject"
      ELSE IF Excess(SafeCreditLimit(post), owed)
                < SafeCreditLimit(pre) - RoundMoney(Balance(preLoan))
      THEN "reduce_available_credit"
      ELSE "approve"

RequiredRepayment(v, loan) ==
  RoundQuotient(Excess(Balance(loan) * LiquidationCoverage(v), v.stressed * Whole),
                LiquidationCoverage(v))

(* _risk_decision_from_lifecycle                                             *)
RiskDecision(decision) ==
  CASE decision = "approved"           -> "approve"
    [] decision = "partially_approved" -> "reduce_available_credit"
    [] OTHER                           -> "reject"

Refused(action) ==
  [decision |-> "refused", available |-> 0, required |-> 0, action |-> action]

Passing == {"approve", "reduce_available_credit"}

-----------------------------------------------------------------------------
(* The older gate takes a list of actions.  It looks an asset up by the      *)
(* spelling of its identifier and, when a type is given, by a type no key    *)
(* has in that place; what it does not find it opens.                        *)
EngineDelta(holdings, asset, type, delta) ==
  LET candidates == {i \in DOMAIN holdings : i.asset = asset /\ type = "any"}
      opened     == [asset |-> asset, type |-> type, venue |-> "unknown"]
  IN  IF candidates = {}
      THEN IF delta < 0 \/ type = "any" THEN {} ELSE {Put(holdings, opened, delta)}
      ELSE {[holdings EXCEPT ![i] = @ + delta] :
              i \in {i \in candidates : candidates = {i} /\ holdings[i] + delta >= 0}}

(* What a purchase costs, which draws of the same list must cover.           *)
EngineCost(action, quantity) ==
  IF action.amount > 0 THEN {action.amount}
  ELSE IF Tradable(action.asset, "buy")
  THEN {quantity * ExecutionPrice(action.asset, "buy")} ELSE {}

(* One action of the list: projected holdings, draw, repayment, funds left.  *)
EngineStep(p, action) ==
  LET quantities == AssetQuantity(action, IF action.kind = "buy" THEN "buy" ELSE "sell")
      with(holdings) == {[p EXCEPT !.holdings = h] : h \in holdings}
      moved(sign) == UNION {with(EngineDelta(p.holdings, action.asset, action.type, sign * q)) :
                              q \in quantities}
      cash == {c \in {StatedCash(action)} : c > 0}
  IN  CASE action.kind = "draw"  -> {[p EXCEPT !.draw = @ + c] : c \in cash}
        [] action.kind = "repay" -> {[p EXCEPT !.repay = @ + c] : c \in cash}
        [] action.kind \in {"sell", "withdraw_security"} -> moved(-1)
        [] action.kind = "transfer_security" -> moved(IF action.inward THEN 1 ELSE -1)
        [] action.kind = "buy" /\ action.funding = "external_cash" -> moved(1)
        [] action.kind = "buy" /\ action.funding # "external_cash" ->
             UNION {UNION {{[r EXCEPT !.funds = @ - cost] :
                              r \in with(EngineDelta(p.holdings, action.asset, action.type, q))} :
                           cost \in {c \in EngineCost(action, q) : c <= p.funds}} :
                    q \in quantities}
        [] OTHER -> {}

(* _project_actions                                                          *)
EngineProjection(holdings, actions) ==
  LET funds[n \in 0..Len(actions)] ==
        IF n = 0 THEN 0
        ELSE funds[n - 1] + IF actions[n].kind = "draw" THEN StatedCash(actions[n]) ELSE 0
      start == [holdings |-> holdings, draw |-> 0, repay |-> 0, funds |-> funds[Len(actions)]]
      states[n \in 0..Len(actions)] ==
        IF n = 0 THEN {start} ELSE UNION {EngineStep(p, actions[n]) : p \in states[n - 1]}
  IN  states[Len(actions)]

(* _pre_trade_decision                                                       *)
EngineDecision(v, outstanding, draw) ==
  LET owed     == RoundMoney(outstanding + draw)
      stressed == RoundMoney(v.stressed)
      state    == MarginState(v, outstanding + draw)
  IN  CASE owed = 0 -> "approve"
        [] owed > 0 /\ stressed < owed -> "liquidation"
        [] /\ owed > 0 /\ stressed >= owed
           /\ stressed < RoundQuotient((outstanding + draw) * LiquidationCoverage(v), Whole)
           -> "require_repayment"
        [] OTHER ->
             IF draw > RoundMoney(Excess(v.approved, outstanding))
             THEN "reduce_available_credit"
             ELSE IF owed > RoundMoney(v.approved) \/ state = "margin_call" THEN "margin_call"
             ELSE IF state = "restrict_new_borrowing" THEN "reduce_available_credit"
             ELSE IF state = "liquidation" THEN "liquidation"
             ELSE "approve"

(* CollateralRiskEngine.pre_trade_check; "refused" where evaluate raises.    *)
EngineAnswer(a, actions) ==
  LET projections == EngineProjection(a.holdings, actions)
      p    == CHOOSE p \in projections : TRUE
      v    == Valued(p.holdings, market)
      owed == Excess(Balance(a.loan), p.repay)
  IN  IF ~Assessable(a.holdings, Valued(a.holdings, market), Balance(a.loan)) THEN "refused"
      ELSE IF projections = {} THEN "reject"
      ELSE IF ~Assessable(p.holdings, v, owed + p.draw) THEN "refused"
      ELSE EngineDecision(v, owed, p.draw)

-----------------------------------------------------------------------------
Init ==
  /\ market \in Markets
  /\ account \in Accounts
  /\ answer = [Refused(NoAction) EXCEPT !.decision = "none"]
  /\ checks = 0

(* The valuation is given once: it is the same before and after a draw.      *)
CheckDrawAction(action) ==
  /\ action.kind = "draw"
  /\ \E v \in {CollateralOf(account)}, draw \in {CashAmount(action)} :
       LET decision == RiskDecision(DrawDecision(v, account.loan, draw, 0))
           projected == ProjectedLoan(account.loan, draw, 0)
       IN  IF StatedCash(action) = 0 \/ ~CanAssess(account)
           THEN answer' = Refused(action) /\ UNCHANGED account
           ELSE /\ answer' = [decision  |-> decision,
                              available |-> RoundMoney(Excess(SafeCreditLimit(v),
                                              RoundMoney(Balance(projected)))),
                              required  |-> RepaymentOnlyCure(v, Balance(projected)),
                              action    |-> action]
                /\ account' = IF decision = "approve"
                              THEN [account EXCEPT !.loan = projected] ELSE account
  /\ UNCHANGED market

(* A projected account that passes is booked; one that cannot be valued is   *)
(* refused like one that cannot be projected.                                *)
CheckPortfolioAction(action) ==
  /\ action.kind # "draw"
  /\ \E pre \in {CollateralOf(account)} :
       LET assessable == {b \in Projected(account, action) : CanAssess(b)}
       IN  IF ~CanAssess(account) \/ assessable = {}
           THEN answer' = Refused(action) /\ UNCHANGED account
           ELSE \E b \in assessable : \E v \in {CollateralOf(b)} :
                  LET decision == ActionDecision(pre, account.loan, v, b.loan)
                  IN  /\ answer' =
                           [decision  |-> decision,
                            available |-> RoundMoney(Excess(SafeCreditLimit(v),
                                                       RoundMoney(Balance(b.loan)))),
                            required  |-> IF decision \in Passing THEN 0
                                          ELSE RequiredRepayment(v, b.loan),
                            action    |-> action]
                      /\ account' = IF decision \in Passing THEN b ELSE account
  /\ UNCHANGED market

Revalue(quotes) ==
  /\ quotes # market
  /\ market' = quotes
  /\ answer' = [Refused(NoAction) EXCEPT !.decision = "none"]
  /\ UNCHANGED <<account, checks>>

Next ==
  \/ /\ checks < MaxChecks
     /\ checks' = checks + 1
     /\ \E action \in Actions : CheckDrawAction(action) \/ CheckPortfolioAction(action)
  \/ \E quotes \in Markets : Revalue(quotes)

Spec == Init /\ [][Next]_vars

-----------------------------------------------------------------------------
Booked ==
  /\ answer.decision \in Passing
  /\ answer.action.kind = "draw" => answer.decision = "approve"

(* What passed the check is safe when it has been carried out: whatever the  *)
(* action projected, cost, drew and left unpriced, the account booked is in  *)
(* no worse state than safe, whichever of the two formulas passed it.        *)
BookedAccountIsSafe ==
  Booked => MarginState(CollateralOf(account), Balance(account.loan)) = "safe"

(* The credit an answer reports as available is there: a draw of it, less a  *)
(* cent, is approved on the account the action led to.                       *)
AvailableCreditCanBeDrawn ==
  Booked /\ answer.available > Cent
    => DrawDecision(CollateralOf(account), account.loan, answer.available - Cent, 0)
         = "approved"

Bid(asset) == IF asset \in DOMAIN market THEN ExecutionPrice(asset, "sell") ELSE 0

LotsValue(holdings) == SumFunction([i \in DOMAIN holdings |-> holdings[i] * Bid(i.asset)])

LiquidValue(a) == a.cash + LotsValue(a.holdings)

(* What an action may bring in from outside the account.                     *)
BroughtIn(action) ==
  LET stated(side) ==
        IF action.amount > 0 THEN action.amount
        ELSE IF Tradable(action.asset, side)
        THEN MarketAmount(action.asset, action.quantity, side) ELSE 0
  IN  CASE action.kind = "repay" -> CashAmount(action)
        [] Inward(action) -> stated("sell")
        [] action.kind = "buy" /\ action.funding = "external_cash" -> stated("buy")
        [] OTHER -> 0

OneSided(action) ==
  /\ action.quantity = 0 \/ action.amount = 0
  /\ action.toQuantity = 0

(* An action cannot make the account richer.  Cash, lots at the bid, and the *)
(* loan against them: trading, drawing, withdrawing and rebalancing only      *)
(* move value between them or lose the spread, to a cent, unless the client   *)
(* states quantity and amount of a trade at once.                            *)
ActionsCreateNoValue ==
  [][ market' = market /\ OneSided(answer'.action)
        => LiquidValue(account') + Balance(account.loan)
             <= LiquidValue(account) + Balance(account'.loan) + Cent
                  + BroughtIn(answer'.action) ]_vars

(* What is reported: loans are whole cents, and no asset sells above what it *)
(* is bought at.                                                             *)
WholeCents == \A a \in Accounts : RoundLoan(a.loan) = a.loan

NeverCrossed ==
  \A m \in Markets : \A asset \in DOMAIN m :
    QuotePrice(m[asset], "sell") <= QuotePrice(m[asset], "buy")

(* No pledged cash, under any name, and no lot that is empty: the older gate *)
(* takes an empty lot for a second holding of its asset.                     *)
HoldsLotsOnly(a) ==
  /\ a.cash = 0
  /\ \A i \in DOMAIN a.holdings : i.asset # "pledged_cash" /\ a.holdings[i] > 0

Shared == {"sell", "withdraw_security", "transfer_security", "repay"}

(* A repayment that rounding does not change.                                *)
InCents(action) == action.kind = "repay" => CashAmount(action) = StatedCash(action)

(* The two gates agree where both apply: an action on an account of lots     *)
(* alone that the lifecycle check lets pass, proceeds withdrawn, is approved *)
(* by the older gate too.  A repayment must be stated in whole cents: the    *)
(* lifecycle check books it rounded, the older gate as it is stated.         *)
GatesAgree ==
  [][ /\ market' = market
      /\ HoldsLotsOnly(account)
      /\ answer'.action.kind \in Shared /\ answer'.action.type = "any"
      /\ answer'.action.kind = "sell" => answer'.action.withdraw
      /\ InCents(answer'.action)
      /\ answer'.decision \in Passing
      => EngineAnswer(account, <<answer'.action>>) = "approve" ]_vars

(* In an alarm the liquidation plan raises its target, or all the collateral *)
(* it may sell; no order takes more than its asset would recover.            *)
PlanRaisesItsTarget ==
  LET collateral == WithCash(account.holdings, account.cash)
      results    == AssetResults(collateral, MarketWithCash)
      v          == ValuationOf(results)
      owed       == Balance(account.loan)
      target     == TargetRecovery(v, owed)
      plan       == LiquidationOrders(results, target)
      raised     == SumFunction([k \in DOMAIN plan |-> plan[k].cash])
      taken(i)   == SumFunction([k \in {k \in DOMAIN plan : plan[k].instrument = i} |->
                                   plan[k].cash])
  IN  MarginState(v, owed) \in AlarmStates =>
        /\ raised = Least(target, v.stressed)
        /\ \A i \in DOMAIN results : taken(i) <= results[i].stressed

Lots(holdings, asset) ==
  SumFunctionOnSet(holdings, {i \in DOMAIN holdings : i.asset = asset})

(* "rebalance buy leg exceeds sale proceeds plus pledged cash"               *)
(* (src/app/lifecycle/service.py:707): a rebalance is projected only if its  *)
(* buy leg does not.                                                         *)
RebalanceIsPaidFor ==
  \A action \in {action \in Actions : action.kind = "rebalance" /\ action.quantity > 0} :
    \A b \in Projected(account, action) :
      (Lots(b.holdings, action.to) - Lots(account.holdings, action.to))
          * ExecutionPrice(action.to, "buy")
        <= MarketAmount(action.asset, action.quantity, "sell") + account.cash

(* "projects holding changes using the stable aggregation key `asset_id +    *)
(* asset_type + currency`" (src/MODEL_SPEC.md:136): a holding named by its   *)
(* asset and its type is found.                                              *)
HoldingIsFoundByType ==
  \A i \in DOMAIN account.holdings :
    EngineProjection(account.holdings,
      <<[NoAction EXCEPT !.kind = "sell", !.asset = i.asset, !.type = i.type,
                         !.quantity = 1]>>) # {}
=============================================================================
