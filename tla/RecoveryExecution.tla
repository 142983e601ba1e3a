------------------------- MODULE RecoveryExecution --------------------------
(***************************************************************************)
(* How a recovery is sold: the interest buffer, the advisory (orders with  *)
(* a limit price, most liquid asset first) and one attempt to execute it   *)
(* against the quotes of the day (src/app/liquidation/execution.py,        *)
(* src/app/liquidation/policy.py).                                         *)
(*                                                                         *)
(* Holdings are functions from assets to lots; a lot is worth at most a    *)
(* cent, so quantities a division leaves are cut to a whole lot.           *)
(***************************************************************************)
EXTENDS CollateralRisk, SequencesExt

CONSTANTS
  Listing,     (* the scenario's assets, in the order it lists them        *)
  HalfSpread   (* units between the price and the bid of a lot             *)

Assets == ToSet(Listing)

ASSUME ListingAssumption == Listing \in Seq(Assets) /\ IsInjective(Listing)
ASSUME HalfSpreadAssumption == HalfSpread \in Nat

(* The lender's execution policy; rates are percentages.                    *)
ExecutionPolicy ==
  [grace: Nat, delay: Nat, settlement: Nat, attempts: Nat,
   cost: 0..100, slippage: 0..100, maxAge: Nat, full: BOOLEAN]

(* price 0: no rate converts it; volume: lots that may be sold in a day.     *)
Quote == [price: Nat, volume: Nat, age: Nat, halted: BOOLEAN]

(* f(x) for one evaluation of x, which a fold would otherwise repeat.        *)
Once(x, f(_)) == CHOOSE y \in {f(z) : z \in {x}} : TRUE

Bid(quote) == IF quote.price = 0 THEN 0 ELSE Larger(1, quote.price - HalfSpread)

NetBid(quote, policy) == Bid(quote) - (Bid(quote) * policy.cost) \div 100

LimitPrice(quote, policy) == (Bid(quote) * (100 - policy.slippage)) \div 100

Executable(quote) == Bid(quote) > 0 /\ ~quote.halted

ProjectedInterestBuffer(loan, observations) ==
  RoundMoney((loan.principal \div Cent) * Rate * observations)

(* Assets by the money that changes hands in them, most first; ties keep the *)
(* scenario's order.                                                         *)
ByLiquidity(quotes) ==
  LET turnover(i) == quotes[Listing[i]].volume * quotes[Listing[i]].price
      before(i, j) == turnover(i) > turnover(j) \/ (turnover(i) = turnover(j) /\ i < j)
      ranks == CHOOSE r \in [DOMAIN Listing -> DOMAIN Listing] :
                 \A j, k \in DOMAIN Listing : j < k => before(r[j], r[k])
  IN  [k \in DOMAIN Listing |-> Listing[ranks[k]]]

(* One more order of a plan, for an asset that is pledged and can be sold.   *)
Propose(plan, asset, holdings, quotes, policy) ==
  LET net      == NetBid(quotes[asset], policy)
      quantity == Least(holdings[asset], plan.remaining \div net)
  IN  IF holdings[asset] = 0 \/ ~Executable(quotes[asset]) \/ net = 0 \/ plan.remaining < net
      THEN plan
      ELSE [remaining |-> plan.remaining - quantity * net,
            orders    |-> Append(plan.orders,
                            [asset |-> asset, quantity |-> quantity,
                             limit |-> LimitPrice(quotes[asset], policy)])]

(***************************************************************************)
(* build_recovery_advisory: orders that would raise the target at today's  *)
(* bids, net of costs, for as long as something is left to raise.          *)
(***************************************************************************)
BuildRecoveryAdvisory(holdings, quotes, target, policy) ==
  LET candidates == ByLiquidity(quotes)
      plan[n \in 0..Len(Listing)] ==
        IF n = 0 THEN [remaining |-> target, orders |-> <<>>]
        ELSE Once(plan[n - 1], LAMBDA p : Propose(p, candidates[n], holdings, quotes, policy))
  IN  plan[Len(Listing)].orders

(* What lets an order of the advisory be filled today.                       *)
Fillable(order, holdings, quotes, policy) ==
  LET quote == quotes[order.asset]
  IN  /\ holdings[order.asset] > 0
      /\ Executable(quote)
      /\ quote.age <= policy.maxAge
      /\ Bid(quote) >= order.limit
      /\ quote.volume > 0

(* Faulty variant of FilledLots: what the earlier attempts sold is forgotten. *)
FilledLotsOversold(order, holdings, quotes, target, policy) ==
  Least(order.quantity,
        Least(quotes[order.asset].volume,
              target \div NetBid(quotes[order.asset], policy)))

(* Faulty variant of FilledLots: the rest of the target is not looked at.    *)
FilledLotsUncapped(order, holdings, quotes, target, policy) ==
  Least(Least(holdings[order.asset], order.quantity), quotes[order.asset].volume)

FilledLots(order, holdings, quotes, target, policy) ==
  Least(Least(holdings[order.asset], order.quantity),
        Least(quotes[order.asset].volume,
              target \div NetBid(quotes[order.asset], policy)))

(* An order of the advisory filled as far as the rest of the target, the     *)
(* holdings and the volume of the day go.                                    *)
Fill(attempt, order, quotes, policy) ==
  LET lots == FilledLots(order, attempt.holdings, quotes, attempt.target, policy)
      net  == lots * NetBid(quotes[order.asset], policy)
  IN  IF attempt.target = 0 \/ ~Fillable(order, attempt.holdings, quotes, policy)
      THEN attempt
      ELSE [holdings |-> [attempt.holdings EXCEPT ![order.asset] = @ - lots],
            target   |-> attempt.target - net,
            proceeds |-> attempt.proceeds + RoundMoney(net)]

(***************************************************************************)
(* execute_recovery_advisory: the holdings and the net proceeds, in cents, *)
(* after one attempt.  The orders are those of the day the episode opened: *)
(* what earlier attempts filled is not taken off them.                     *)
(***************************************************************************)
ExecuteRecoveryAdvisory(holdings, quotes, orders, target, policy) ==
  LET attempt[n \in 0..Len(orders)] ==
        IF n = 0 THEN [holdings |-> holdings, target |-> target, proceeds |-> 0]
        ELSE Once(attempt[n - 1], LAMBDA a : Fill(a, orders[n], quotes, policy))
  IN  attempt[Len(orders)]
=============================================================================
