--------------------------- MODULE LoanAccounting ---------------------------
(***************************************************************************)
(* The arithmetic of one loan: its obligation, the repayment waterfall,    *)
(* interest accrual and the rounding of money (src/app/credit/interest.py, *)
(* src/app/lifecycle/service.py, src/app/core/models.py).                  *)
(*                                                                         *)
(* Money is counted in indivisible units, Cent of them to a cent, so that  *)
(* what round(x, 2) discards can be seen.  Amounts a client reports are    *)
(* whole cents; only interest has a sub-cent part.                         *)
(***************************************************************************)
EXTENDS Integers

CONSTANTS
  Cent,        (* units of money in one cent                               *)
  Rate,        (* units one cent of principal earns per unit of time       *)
  Compounding, (* "simple" or "compound"                                   *)
  AccrualMode  (* "engine_calculated" or "client_supplied"                 *)

ASSUME CentAssumption == Cent \in Nat \ {0}
ASSUME RateAssumption == Rate \in Nat
ASSUME TermsAssumption ==
  /\ Compounding \in {"simple", "compound"}
  /\ AccrualMode \in {"engine_calculated", "client_supplied"}

Loan == [principal: Nat, interest: Nat, fees: Nat]

Balance(loan) == loan.principal + loan.interest + loan.fees

Least(x, y) == IF x <= y THEN x ELSE y

Larger(x, y) == IF x >= y THEN x ELSE y

Excess(x, y) == IF x <= y THEN 0 ELSE x - y       \* max(0.0, x - y)

(***************************************************************************)
(* round(numerator / denominator, 2): the nearest whole cent, ties to the  *)
(* even cent.                                                              *)
(***************************************************************************)
RoundQuotient(numerator, denominator) ==
  LET unit == denominator * Cent
      down == numerator \div unit
      rest == 2 * (numerator % unit)
      up   == rest > unit \/ (rest = unit /\ down % 2 = 1)
  IN  Cent * (IF up THEN down + 1 ELSE down)

RoundMoney(amount) == RoundQuotient(amount, 1)

RoundLoan(loan) ==
  [principal |-> RoundMoney(loan.principal),
   interest  |-> RoundMoney(loan.interest),
   fees      |-> RoundMoney(loan.fees)]

(* Faulty variant of ApplyRepayment: principal takes all that is left over. *)
ApplyRepaymentUncapped(loan, amount) ==
  LET afterFees     == Excess(amount, loan.fees)
      afterInterest == Excess(afterFees, loan.interest)
  IN  [principal |-> loan.principal - afterInterest,
       interest  |-> Excess(loan.interest, afterFees),
       fees      |-> Excess(loan.fees, amount)]

(***************************************************************************)
(* A repayment pays fees, then interest, then principal; what is left over *)
(* is neither kept nor returned.                                           *)
(***************************************************************************)
ApplyRepayment(loan, amount) ==
  LET afterFees     == Excess(amount, loan.fees)
      afterInterest == Excess(afterFees, loan.interest)
  IN  [principal |-> Excess(loan.principal, afterInterest),
       interest  |-> Excess(loan.interest, afterFees),
       fees      |-> Excess(loan.fees, amount)]

(* Interest, fee and repayment of one client event, in the handler's order. *)
Settle(loan, update) ==
  ApplyRepayment([principal |-> loan.principal,
                  interest  |-> loan.interest + update.interest,
                  fees      |-> loan.fees + update.fee],
                 update.repay)

InterestDue(loan, elapsed) ==
  LET base == IF Compounding = "simple" THEN loan.principal
              ELSE loan.principal + loan.interest
  IN  IF AccrualMode = "client_supplied" THEN 0
      ELSE (base \div Cent) * Rate * elapsed

AccrueInterest(loan, elapsed) ==
  IF AccrualMode = "engine_calculated" /\ Compounding = "compound"
  THEN [loan EXCEPT !.principal = @ + loan.interest + InterestDue(loan, elapsed),
                    !.interest  = 0]
  ELSE [loan EXCEPT !.interest = @ + InterestDue(loan, elapsed)]
=============================================================================
