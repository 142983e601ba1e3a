--------------------------- MODULE CreditLifecycle --------------------------
(***************************************************************************)
(* A lender working one loan against CreditLifecycleEngine                 *)
(* (src/app/lifecycle/service.py): it originates a line, has draws and     *)
(* repayments checked and books the projected loan of each approved one,   *)
(* has the obligation monitored and pays the cure it is quoted, while      *)
(* interest accrues and the collateral is revalued between the calls.      *)
(*                                                                         *)
(* The engine keeps no state: loan and valuation are what the next call is *)
(* given, quote is the engine's last answer, the amount in it included.    *)
(***************************************************************************)
EXTENDS CollateralRisk

CONSTANTS
  Valuations,  (* what the collateral can be worth                         *)
  Amounts,     (* draws and repayments the lender asks about               *)
  MaxBalance   (* bound: an obligation past it accrues no further          *)

ASSUME ValuationsAssumption == Valuations \subseteq Valuation
ASSUME AmountsAssumption == Amounts \subseteq Nat
ASSUME MaxBalanceAssumption == MaxBalance \in Nat

VARIABLES
  loan,        (* the loan as the lender reports it                        *)
  valuation,   (* what the collateral is worth now                         *)
  quote        (* the engine's last answer: the decision or margin state,  *)
               (* its amount, the repayment the question came with         *)

vars == <<loan, valuation, quote>>

NoQuote == [answer |-> "none", amount |-> 0, repay |-> 0]

Answers ==
  {"none", "originated", "approved", "partially_approved", "rejected"} \cup MarginStates

TypeOK ==
  /\ loan \in Loan
  /\ valuation \in Valuations
  /\ quote \in [answer: Answers, amount: Nat, repay: Nat]

Init ==
  /\ loan = [principal |-> 0, interest |-> 0, fees |-> 0]
  /\ valuation \in Valuations
  /\ quote = NoQuote

(* originate: the safe limit of an unborrowed line, refused when it is zero. *)
Originate ==
  /\ Balance(loan) = 0
  /\ ~Unassessable(valuation, 0)
  /\ SafeCreditLimit(valuation) > 0
  /\ quote' = [NoQuote EXCEPT !.answer = "originated",
                            !.amount = SafeCreditLimit(valuation)]
  /\ UNCHANGED <<loan, valuation>>

(* check_draw evaluates the current and the projected loan: either may raise. *)
CheckDraw(draw, repay) ==
  LET decision == DrawDecision(valuation, loan, draw, repay)
      projected == ProjectedLoan(loan, draw, repay)
  IN  /\ ~Unassessable(valuation, Balance(loan))
      /\ ~Unassessable(valuation, Balance(projected))
      /\ loan' = IF decision = "approved" THEN projected ELSE loan
      /\ quote' = [answer |-> decision,
                   amount |-> IF decision = "partially_approved"
                              THEN MaxApprovedDraw(valuation, loan, repay) ELSE 0,
                   repay  |-> repay]
      /\ UNCHANGED valuation

(* monitor: the margin state of the reported loan and the cure it calls for. *)
Monitor ==
  /\ ~Unassessable(valuation, Balance(loan))
  /\ quote' = [NoQuote EXCEPT !.answer = MarginState(valuation, Balance(loan)),
                              !.amount = RepaymentOnlyCure(valuation, Balance(loan))]
  /\ UNCHANGED <<loan, valuation>>

(* The borrower pays the lender, unasked or to cure. *)
Repay(amount) ==
  /\ amount > 0
  /\ loan' = ApplyRepayment(loan, amount)
  /\ quote' = NoQuote
  /\ UNCHANGED valuation

Accrue ==
  /\ InterestDue(loan, 1) > 0
  /\ Balance(loan) + InterestDue(loan, 1) <= MaxBalance
  /\ loan' = AccrueInterest(loan, 1)
  /\ quote' = NoQuote
  /\ UNCHANGED valuation

Revalue(v) ==
  /\ v # valuation
  /\ valuation' = v
  /\ quote' = NoQuote
  /\ UNCHANGED loan

Offered == quote.answer \in {"originated", "partially_approved"}

Next ==
  \/ Originate
  \/ \E draw \in Amounts \cup {quote.amount}, repay \in Amounts : CheckDraw(draw, repay)
  \/ Monitor
  \/ \E amount \in Amounts \cup {quote.amount} : Repay(amount)
  \/ Accrue
  \/ \E v \in Valuations : Revalue(v)

Spec == Init /\ [][Next]_vars

-----------------------------------------------------------------------------
SeverityNow == Severity[MarginState(valuation, Balance(loan))]

(* A repayment on its own never makes the margin state more severe.  The     *)
(* state is decided by six thresholds of two kinds, coverage and limit, and   *)
(* the waterfall spreads the money over three components.                     *)
RepaymentNeverWorsens ==
  [][ (\E amount \in Amounts \cup {quote.amount} : Repay(amount))
        => SeverityNow' <= SeverityNow ]_vars

(* The engine reports safety twice, as a margin state and as a credit limit,  *)
(* by different formulas.  They agree to within a cent of rounding.           *)
LimitAgreesWithState ==
  /\ Balance(loan) > 0 /\ Balance(loan) + Cent <= SafeCreditLimit(valuation)
       => SeverityNow = 0
  /\ SeverityNow = 0 => Balance(loan) <= SafeCreditLimit(valuation) + Cent

(* An amount the engine offers, at origination or instead of a refused draw,  *)
(* is approved when it is asked for less one cent.                            *)
OfferLessACentIsApproved ==
  Offered /\ quote.amount > Cent
    => DrawDecision(valuation, loan, quote.amount - Cent, quote.repay) = "approved"

(* Paying the cure a margin call quotes, and a cent more, lifts the coverage  *)
(* part of the call: what remains can only be the credit-limit part.          *)
CureLiftsCoverageBreach ==
  quote.answer \in AlarmStates =>
    LET cured == ApplyRepayment(loan, quote.amount + Cent)
    IN  MarginState(valuation, Balance(cured)) \in AlarmStates
          => Balance(cured) > valuation.approved
=============================================================================
