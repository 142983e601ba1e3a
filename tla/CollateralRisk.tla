--------------------------- MODULE CollateralRisk ---------------------------
(***************************************************************************)
(* What the risk engine and the lifecycle engine conclude from a valuation *)
(* of the collateral and a loan: trigger levels, margin state, safe credit *)
(* limit, draw decision and cures (src/app/core/evaluator.py,              *)
(* src/app/lifecycle/service.py, src/app/liquidation/plan.py).             *)
(*                                                                         *)
(* A valuation stands for the outcome of market-data normalization and of  *)
(* the asset adjustments: the portfolio's market value, the credit limit   *)
(* after haircuts and caps, the stressed liquidation value, and the risk   *)
(* score in percent.  The evaluator computes all four from holdings and    *)
(* quotes alone, never from the loan.                                      *)
(***************************************************************************)
EXTENDS LoanAccounting

MarginStates ==
  {"safe", "watch", "restrict_new_borrowing", "margin_call", "liquidation"}

AlarmStates == {"margin_call", "liquidation"}

Severity ==
  [safe |-> 0, watch |-> 1, restrict_new_borrowing |-> 2,
   margin_call |-> 3, liquidation |-> 4]

Valuation == [value: Nat, approved: Nat, stressed: Nat, score: 0..100]

(* Coverage ratios are counted in ten-thousandths. *)
Whole == 10000

Clamp(x, low, high) == IF x < low THEN low ELSE IF x > high THEN high ELSE x

LiquidationCoverage(v) == Clamp(10100 + 34 * v.score, 10200, 16000)

MarginCallCoverage(v) ==
  Clamp(LiquidationCoverage(v) + 400 + 12 * v.score, 10500, 18500)

RestrictionCoverage(v) ==
  Clamp(MarginCallCoverage(v) + 400 + 8 * v.score, 10800, 20000)

WarningCoverage(v) ==
  Clamp(RestrictionCoverage(v) + 500 + 10 * v.score, 11200, 22000)

(* stressed value / balance < coverage *)
Below(v, balance, coverage) == v.stressed * Whole < coverage * balance

(* Faulty variant of MarginState: the limit is tested before the coverage.  *)
MarginStateLimitFirst(v, balance) ==
  IF balance = 0 THEN "safe"
  ELSE IF v.approved = 0 THEN "liquidation"
  ELSE IF balance > v.approved THEN "margin_call"
  ELSE IF Below(v, balance, LiquidationCoverage(v)) THEN "liquidation"
  ELSE IF Below(v, balance, MarginCallCoverage(v)) THEN "margin_call"
  ELSE IF Below(v, balance, RestrictionCoverage(v)) THEN "restrict_new_borrowing"
  ELSE IF Below(v, balance, WarningCoverage(v)) THEN "watch"
  ELSE "safe"

MarginState(v, balance) ==
  IF balance = 0 THEN "safe"
  ELSE IF v.approved = 0 THEN "liquidation"
  ELSE IF Below(v, balance, LiquidationCoverage(v)) THEN "liquidation"
  ELSE IF balance > v.approved THEN "margin_call"
  ELSE IF Below(v, balance, MarginCallCoverage(v)) THEN "margin_call"
  ELSE IF Below(v, balance, RestrictionCoverage(v)) THEN "restrict_new_borrowing"
  ELSE IF Below(v, balance, WarningCoverage(v)) THEN "watch"
  ELSE "safe"

(* The evaluator raises RiskEvaluationError: nothing pledged is priced and  *)
(* nothing is owed.                                                         *)
Unassessable(v, balance) == v.value = 0 /\ balance = 0

(* Faulty variant of SafeCreditLimit: sized at the margin-call coverage.    *)
SafeCreditLimitAtCall(v) ==
  Least(RoundMoney(v.approved), RoundQuotient(v.stressed * Whole, MarginCallCoverage(v)))

SafeCreditLimit(v) ==
  Least(RoundMoney(v.approved), RoundQuotient(v.stressed * Whole, WarningCoverage(v)))

(* Faulty variant of RepaymentOnlyCure: cures to the liquidation coverage.  *)
RepaymentCureToLiquidation(v, balance) ==
  RoundQuotient(Excess(balance * LiquidationCoverage(v), v.stressed * Whole),
                LiquidationCoverage(v))

RepaymentOnlyCure(v, balance) ==
  RoundQuotient(Excess(balance * MarginCallCoverage(v), v.stressed * Whole),
                MarginCallCoverage(v))

(***************************************************************************)
(* check_draw: the repayment is applied first, then the draw.  The answer  *)
(* is the projected loan, the largest draw that would be approved, and the *)
(* decision.                                                               *)
(***************************************************************************)
AfterRepayment(loan, repay) == RoundLoan(ApplyRepayment(loan, RoundMoney(repay)))

ProjectedLoan(loan, draw, repay) ==
  [AfterRepayment(loan, repay) EXCEPT !.principal = RoundMoney(@ + RoundMoney(draw))]

(* Faulty variant of MaxApprovedDraw: interest and fees are left out.       *)
MaxApprovedDrawOnPrincipal(v, loan, repay) ==
  RoundMoney(Excess(SafeCreditLimit(v), AfterRepayment(loan, repay).principal))

MaxApprovedDraw(v, loan, repay) ==
  RoundMoney(Excess(SafeCreditLimit(v), RoundMoney(Balance(AfterRepayment(loan, repay)))))

DrawDecision(v, loan, draw, repay) ==
  IF /\ RoundMoney(draw) <= MaxApprovedDraw(v, loan, repay)
     /\ MarginState(v, Balance(ProjectedLoan(loan, draw, repay))) = "safe"
  THEN "approved"
  ELSE IF MaxApprovedDraw(v, loan, repay) > 0 THEN "partially_approved"
  ELSE "rejected"
=============================================================================
