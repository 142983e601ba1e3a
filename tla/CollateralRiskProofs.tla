------------------------ MODULE CollateralRiskProofs ------------------------
(***************************************************************************)
(* What the operators of LoanAccounting and CollateralRisk return, for     *)
(* every loan, amount and valuation: the facts the proofs about the state  *)
(* machines rest on.                                                       *)
(***************************************************************************)
EXTENDS CollateralRisk, WellFoundedInduction, TLAPS

(* Rounding money to the cent yields money. *)
LEMMA RoundQuotientNat ==
  ASSUME NEW n \in Nat, NEW d \in Nat \ {0}
  PROVE  RoundQuotient(n, d) \in Nat
<1> DEFINE unit == d * Cent
           down == n \div unit
<1>1. unit \in Nat \ {0}
  BY CentAssumption
<1>2. down \in Nat
  BY <1>1
<1>3. RoundQuotient(n, d) = Cent * down \/ RoundQuotient(n, d) = Cent * (down + 1)
  BY DEF RoundQuotient
<1> QED
  BY <1>2, <1>3, CentAssumption

LEMMA RoundMoneyNat ==
  ASSUME NEW n \in Nat
  PROVE  RoundMoney(n) \in Nat
BY RoundQuotientNat DEF RoundMoney

LEMMA ExcessNat ==
  ASSUME NEW x \in Nat, NEW y \in Nat
  PROVE  Excess(x, y) \in Nat
BY DEF Excess

LEMMA BalanceNat ==
  ASSUME NEW loan \in Loan
  PROVE  Balance(loan) \in Nat
BY DEF Loan, Balance

LEMMA RoundLoanType ==
  ASSUME NEW loan \in Loan
  PROVE  RoundLoan(loan) \in Loan
BY RoundMoneyNat DEF Loan, RoundLoan

LEMMA ApplyRepaymentType ==
  ASSUME NEW loan \in Loan, NEW amount \in Nat
  PROVE  ApplyRepayment(loan, amount) \in Loan
BY ExcessNat DEF Loan, ApplyRepayment

(***************************************************************************)
(* The waterfall loses nothing and invents nothing: a repayment lowers the *)
(* obligation by its amount, down to zero, however the loan is split into  *)
(* fees, interest and principal.                                           *)
(***************************************************************************)
THEOREM WaterfallConserves ==
  ASSUME NEW loan \in Loan, NEW amount \in Nat
  PROVE  Balance(ApplyRepayment(loan, amount)) = Excess(Balance(loan), amount)
<1> DEFINE afterFees == Excess(amount, loan.fees)
           afterInterest == Excess(afterFees, loan.interest)
<1>1. /\ loan.principal \in Nat /\ loan.interest \in Nat /\ loan.fees \in Nat
  BY DEF Loan
<1>2. Balance(ApplyRepayment(loan, amount))
        = Excess(loan.principal, afterInterest) + Excess(loan.interest, afterFees)
            + Excess(loan.fees, amount)
  BY DEF Balance, ApplyRepayment
<1> QED
  BY <1>1, <1>2 DEF Balance, Excess

LEMMA SettleType ==
  ASSUME NEW loan \in Loan,
         NEW update \in [draw: Nat, repay: Nat, interest: Nat, fee: Nat, tick: BOOLEAN]
  PROVE  Settle(loan, update) \in Loan
<1> DEFINE owed == [principal |-> loan.principal,
                    interest  |-> loan.interest + update.interest,
                    fees      |-> loan.fees + update.fee]
<1>1. owed \in Loan
  BY DEF Loan
<1> QED
  BY <1>1, ApplyRepaymentType DEF Settle

LEMMA InterestDueNat ==
  ASSUME NEW loan \in Loan, NEW elapsed \in Nat
  PROVE  InterestDue(loan, elapsed) \in Nat
<1> DEFINE base == IF Compounding = "simple" THEN loan.principal
                   ELSE loan.principal + loan.interest
<1>1. base \in Nat
  BY DEF Loan
<1>2. base \div Cent \in Nat
  BY <1>1, CentAssumption
<1>3. (base \div Cent) * Rate * elapsed \in Nat
  BY <1>2, RateAssumption
<1> QED
  BY <1>3 DEF InterestDue

LEMMA AccrueInterestType ==
  ASSUME NEW loan \in Loan, NEW elapsed \in Nat
  PROVE  AccrueInterest(loan, elapsed) \in Loan
<1>1. loan.principal \in Nat /\ loan.interest \in Nat /\ InterestDue(loan, elapsed) \in Nat
  BY InterestDueNat DEF Loan
<1>2. loan.interest + InterestDue(loan, elapsed) \in Nat
  BY <1>1
<1>3. loan.principal + loan.interest + InterestDue(loan, elapsed) \in Nat
  BY <1>1
<1> QED
  BY <1>2, <1>3 DEF AccrueInterest, Loan

LEMMA ProjectedLoanType ==
  ASSUME NEW loan \in Loan, NEW draw \in Nat, NEW repay \in Nat
  PROVE  ProjectedLoan(loan, draw, repay) \in Loan
<1>1. AfterRepayment(loan, repay) \in Loan
  BY RoundMoneyNat, ApplyRepaymentType, RoundLoanType DEF AfterRepayment
<1>2. RoundMoney(AfterRepayment(loan, repay).principal + RoundMoney(draw)) \in Nat
  BY <1>1, RoundMoneyNat DEF Loan
<1> QED
  BY <1>1, <1>2 DEF ProjectedLoan, Loan

(***************************************************************************)
(* The margin state                                                        *)
(***************************************************************************)
LEMMA MarginStateType ==
  ASSUME NEW v, NEW balance
  PROVE  MarginState(v, balance) \in MarginStates
BY DEF MarginState, MarginStates

LEMMA CoveragesAreRatios ==
  ASSUME NEW v \in Valuation
  PROVE  /\ LiquidationCoverage(v) \in Nat \ {0}
         /\ MarginCallCoverage(v) \in Nat \ {0}
         /\ RestrictionCoverage(v) \in Nat \ {0}
         /\ WarningCoverage(v) \in Nat \ {0}
<1>1. v.score \in Nat
  BY DEF Valuation
<1>2. LiquidationCoverage(v) \in Nat \ {0}
  BY <1>1 DEF LiquidationCoverage, Clamp
<1>3. MarginCallCoverage(v) \in Nat \ {0}
  BY <1>1, <1>2 DEF MarginCallCoverage, Clamp
<1>4. RestrictionCoverage(v) \in Nat \ {0}
  BY <1>1, <1>3 DEF RestrictionCoverage, Clamp
<1>5. WarningCoverage(v) \in Nat \ {0}
  BY <1>1, <1>4 DEF WarningCoverage, Clamp
<1> QED
  BY <1>2, <1>3, <1>4, <1>5

LEMMA ProductMonotone ==
  ASSUME NEW k \in Nat, NEW x \in Nat, NEW y \in Nat, x <= y
  PROVE  k * x <= k * y
<1>1. PICK d \in Nat : y = x + d
  BY y - x \in Nat
<1>2. k * y = k * x + k * d /\ k * d \in Nat /\ k * x \in Nat
  BY <1>1
<1> QED
  BY <1>2

LEMMA BelowMonotone ==
  ASSUME NEW v \in Valuation, NEW x \in Nat, NEW y \in Nat, x <= y,
         NEW coverage \in Nat, Below(v, x, coverage)
  PROVE  Below(v, y, coverage)
<1>1. /\ v.stressed * Whole \in Nat
      /\ coverage * x \in Nat /\ coverage * y \in Nat
  BY DEF Valuation, Whole
<1>2. coverage * x <= coverage * y
  BY ProductMonotone
<1> QED
  BY <1>1, <1>2 DEF Below

(* Limits, offers and cures are amounts of money.                            *)
LEMMA SafeCreditLimitNat ==
  ASSUME NEW v \in Valuation
  PROVE  SafeCreditLimit(v) \in Nat
<1>1. RoundMoney(v.approved) \in Nat
  BY RoundMoneyNat DEF Valuation
<1>2. v.stressed * Whole \in Nat
  BY DEF Valuation, Whole
<1>3. RoundQuotient(v.stressed * Whole, WarningCoverage(v)) \in Nat
  BY <1>2, RoundQuotientNat, CoveragesAreRatios
<1> QED
  BY <1>1, <1>3 DEF SafeCreditLimit, Least

LEMMA RepaymentOnlyCureNat ==
  ASSUME NEW v \in Valuation, NEW balance \in Nat
  PROVE  RepaymentOnlyCure(v, balance) \in Nat
<1>1. MarginCallCoverage(v) \in Nat \ {0}
  BY CoveragesAreRatios
<1>2. balance * MarginCallCoverage(v) \in Nat /\ v.stressed * Whole \in Nat
  BY <1>1 DEF Valuation, Whole
<1>3. Excess(balance * MarginCallCoverage(v), v.stressed * Whole) \in Nat
  BY <1>2, ExcessNat
<1> QED
  BY <1>1, <1>3, RoundQuotientNat DEF RepaymentOnlyCure

LEMMA MaxApprovedDrawNat ==
  ASSUME NEW v \in Valuation, NEW loan \in Loan, NEW repay \in Nat
  PROVE  MaxApprovedDraw(v, loan, repay) \in Nat
<1>1. AfterRepayment(loan, repay) \in Loan
  BY RoundMoneyNat, ApplyRepaymentType, RoundLoanType DEF AfterRepayment
<1>2. RoundMoney(Balance(AfterRepayment(loan, repay))) \in Nat
  BY <1>1, BalanceNat, RoundMoneyNat
<1> QED
  BY <1>2, SafeCreditLimitNat, ExcessNat, RoundMoneyNat DEF MaxApprovedDraw

(***************************************************************************)
(* Rounding                                                                *)
(***************************************************************************)
LEMMA DivisionBounds ==
  ASSUME NEW n \in Nat, NEW unit \in Nat \ {0}
  PROVE  /\ n \div unit \in Nat
         /\ unit * (n \div unit) <= n
         /\ n < unit * (n \div unit) + unit
OBVIOUS

(* Rounding moves an amount by no more than a cent, either way.              *)
LEMMA RoundingBounds ==
  ASSUME NEW n \in Nat, NEW d \in Nat \ {0}
  PROVE  /\ d * RoundQuotient(n, d) <= n + d * Cent
         /\ n <= d * RoundQuotient(n, d) + d * Cent
<1> DEFINE unit == d * Cent
           down == n \div unit
<1>1. unit \in Nat \ {0} /\ Cent \in Nat
  BY CentAssumption
<1>2. down \in Nat /\ unit * down <= n /\ n < unit * down + unit
  BY <1>1, DivisionBounds
<1>3. PICK r \in {down, down + 1} : RoundQuotient(n, d) = Cent * r
  BY DEF RoundQuotient
<1> HIDE DEF down
<1>4. d * (Cent * down) = unit * down /\ d * (Cent * (down + 1)) = unit * down + unit
  BY <1>1, <1>2
<1> HIDE DEF unit
<1>5. d * RoundQuotient(n, d) \in {unit * down, unit * down + unit}
  BY <1>3, <1>4
<1>6. unit * down \in Nat
  BY <1>1, <1>2
<1>7. /\ d * RoundQuotient(n, d) <= n + unit
      /\ n <= d * RoundQuotient(n, d) + unit
  BY <1>1, <1>2, <1>5, <1>6
<1> QED
  BY <1>7 DEF unit

LEMMA RoundMoneyBounds ==
  ASSUME NEW n \in Nat
  PROVE  RoundMoney(n) <= n + Cent /\ n <= RoundMoney(n) + Cent
<1>1. SUFFICES ASSUME NEW d \in Nat \ {0}, d = 1
               PROVE  /\ RoundQuotient(n, d) <= n + Cent
                      /\ n <= RoundQuotient(n, d) + Cent
  BY DEF RoundMoney
<1>2. /\ d * RoundQuotient(n, d) <= n + d * Cent
      /\ n <= d * RoundQuotient(n, d) + d * Cent
  BY RoundingBounds
<1>3. RoundQuotient(n, d) \in Nat /\ Cent \in Nat
  BY RoundQuotientNat, CentAssumption
<1>4. d * RoundQuotient(n, d) = RoundQuotient(n, d) /\ d * Cent = Cent
  BY <1>1, <1>3
<1> QED
  BY <1>2, <1>4

(* Whole cents: what rounding returns, and leaves alone.                     *)
IsCents(x) == \E k \in Nat : x = Cent * k

LEMMA RoundedIsCents ==
  ASSUME NEW n \in Nat, NEW d \in Nat \ {0}
  PROVE  IsCents(RoundQuotient(n, d))
<1> DEFINE down == n \div (d * Cent)
<1>1. d * Cent \in Nat \ {0}
  BY CentAssumption
<1>2. down \in Nat
  BY <1>1, DivisionBounds
<1>3. RoundQuotient(n, d) = Cent * down \/ RoundQuotient(n, d) = Cent * (down + 1)
  BY DEF RoundQuotient
<1> QED
  BY <1>2, <1>3 DEF IsCents

LEMMA MultipleDivides ==
  ASSUME NEW a \in Nat \ {0}, NEW k \in Nat
  PROVE  (a * k) \div a = k /\ (a * k) % a = 0
<1> DEFINE q == (a * k) \div a
<1>1. a * k \in Nat
  OBVIOUS
<1>2. q \in Nat /\ a * q <= a * k /\ a * k < a * q + a
  BY <1>1, DivisionBounds
<1>3. a * k < a * (q + 1) /\ a * q < a * (k + 1)
  BY <1>2
<1> HIDE DEF q
<1>4. k < q + 1
  <2> SUFFICES ASSUME q + 1 <= k PROVE FALSE
    BY <1>2
  <2>1. a * (q + 1) <= a * k
    BY <1>2, ProductMonotone
  <2> QED BY <1>1, <1>2, <1>3, <2>1
<1>5. q < k + 1
  <2> SUFFICES ASSUME k + 1 <= q PROVE FALSE
    BY <1>2
  <2>1. a * (k + 1) <= a * q
    BY <1>2, ProductMonotone
  <2> QED BY <1>1, <1>2, <1>3, <2>1
<1>6. q = k
  BY <1>2, <1>4, <1>5
<1> QED
  BY <1>1, <1>6 DEF q

LEMMA CentsStay ==
  ASSUME NEW x, IsCents(x)
  PROVE  x \in Nat /\ RoundMoney(x) = x
<1>1. PICK k \in Nat : x = Cent * k
  BY DEF IsCents
<1>2. 1 * Cent = Cent /\ Cent \in Nat \ {0} /\ x \in Nat
  BY <1>1, CentAssumption
<1>3. x \div Cent = k /\ x % Cent = 0
  BY <1>1, <1>2, MultipleDivides
<1> QED
  BY <1>1, <1>2, <1>3 DEF RoundMoney, RoundQuotient

LEMMA CentsAdd ==
  ASSUME NEW x, NEW y, IsCents(x), IsCents(y)
  PROVE  IsCents(x + y) /\ IsCents(Excess(x, y))
<1>1. PICK j \in Nat, k \in Nat : x = Cent * j /\ y = Cent * k
  BY DEF IsCents
<1>2. x + y = Cent * (j + k) /\ x \in Nat /\ y \in Nat
  BY <1>1, CentAssumption
<1>3. CASE x <= y
  <2>1. Excess(x, y) = Cent * 0
    BY <1>3, CentAssumption DEF Excess
  <2> QED BY <1>2, <2>1 DEF IsCents
<1>4. CASE ~(x <= y)
  <2>1. j - k \in Nat
    <3> SUFFICES ASSUME j < k PROVE FALSE
      OBVIOUS
    <3>1. Cent * j <= Cent * k
      BY ProductMonotone, CentAssumption
    <3> QED BY <1>1, <1>4, <3>1
  <2>2. Excess(x, y) = Cent * (j - k)
    BY <1>1, <1>2, <1>4, CentAssumption DEF Excess
  <2> QED BY <1>2, <2>1, <2>2 DEF IsCents
<1> QED
  BY <1>3, <1>4

(***************************************************************************)
(* The margin state and the limits                                         *)
(***************************************************************************)
(* Each trigger level is the one below it and an increment, clamped.         *)
LEMMA NextLevel ==
  ASSUME NEW level \in Nat, NEW step \in Nat, NEW low \in Nat, NEW high \in Nat,
         low <= high, level <= high
  PROVE  /\ Clamp(level + step, low, high) \in Nat
         /\ level <= Clamp(level + step, low, high)
         /\ Clamp(level + step, low, high) <= high
BY DEF Clamp

LEMMA CoveragesGrow ==
  ASSUME NEW v \in Valuation
  PROVE  /\ LiquidationCoverage(v) <= MarginCallCoverage(v)
         /\ MarginCallCoverage(v) <= RestrictionCoverage(v)
         /\ RestrictionCoverage(v) <= WarningCoverage(v)
<1>1. PICK score \in Nat : score = v.score
  BY DEF Valuation
<1>2. LiquidationCoverage(v) \in Nat /\ LiquidationCoverage(v) <= 16000
  BY <1>1 DEF LiquidationCoverage, Clamp
<1>3. PICK liquidation \in Nat : liquidation = LiquidationCoverage(v)
  BY <1>2
<1>4. PICK call \in Nat : call = MarginCallCoverage(v) /\ liquidation <= call /\ call <= 18500
  <2>1. PICK step \in Nat : step = 400 + 12 * score
    OBVIOUS
  <2>2. MarginCallCoverage(v) = Clamp(liquidation + step, 10500, 18500)
    <3>1. liquidation + 400 + 12 * score = liquidation + step
      BY <2>1
    <3> QED BY <1>1, <1>3, <3>1 DEF MarginCallCoverage
  <2> QED BY <1>2, <1>3, <2>2, NextLevel
<1>5. PICK restrict \in Nat :
        restrict = RestrictionCoverage(v) /\ call <= restrict /\ restrict <= 20000
  <2>1. PICK step \in Nat : step = 400 + 8 * score
    OBVIOUS
  <2>2. RestrictionCoverage(v) = Clamp(call + step, 10800, 20000)
    <3>1. call + 400 + 8 * score = call + step
      BY <2>1
    <3> QED BY <1>1, <1>4, <3>1 DEF RestrictionCoverage
  <2> QED BY <1>4, <2>2, NextLevel
<1>6. restrict <= WarningCoverage(v)
  <2>1. PICK step \in Nat : step = 500 + 10 * score
    OBVIOUS
  <2>2. WarningCoverage(v) = Clamp(restrict + step, 11200, 22000)
    <3>1. restrict + 500 + 10 * score = restrict + step
      BY <2>1
    <3> QED BY <1>1, <1>5, <3>1 DEF WarningCoverage
  <2> QED BY <1>5, <2>2, NextLevel
<1> QED
  BY <1>3, <1>4, <1>5, <1>6

(* A coverage that is not breached breaches no lower one.                    *)
LEMMA NotBelowLower ==
  ASSUME NEW v \in Valuation, NEW balance \in Nat,
         NEW low \in Nat, NEW high \in Nat, low <= high, ~Below(v, balance, high)
  PROVE  ~Below(v, balance, low)
<1>1. balance * low <= balance * high
  BY ProductMonotone
<1>2. low * balance = balance * low /\ high * balance = balance * high
  OBVIOUS
<1>3. v.stressed * Whole \in Nat /\ low * balance \in Nat /\ high * balance \in Nat
  BY DEF Valuation, Whole
<1> QED
  BY <1>1, <1>2, <1>3 DEF Below

LEMMA SafeSeverity ==
  ASSUME NEW v, NEW balance
  PROVE  /\ Severity[MarginState(v, balance)] = 0 <=> MarginState(v, balance) = "safe"
         /\ Severity["safe"] = 0
BY DEF Severity, MarginState

(* Covered above the warning level and within the limit is safe.             *)
LEMMA CoveredIsSafe ==
  ASSUME NEW v \in Valuation, NEW balance \in Nat,
         v.approved # 0, balance <= v.approved, ~Below(v, balance, WarningCoverage(v))
  PROVE  MarginState(v, balance) = "safe"
<1>1. /\ ~Below(v, balance, RestrictionCoverage(v))
      /\ ~Below(v, balance, MarginCallCoverage(v))
      /\ ~Below(v, balance, LiquidationCoverage(v))
  BY NotBelowLower, CoveragesGrow, CoveragesAreRatios
<1>2. ~(balance > v.approved)
  BY DEF Valuation
<1> QED
  BY <1>1, <1>2 DEF MarginState

(* k times a smaller number is smaller, and the converse.                    *)
LEMMA ProductCancels ==
  ASSUME NEW k \in Nat \ {0}, NEW x \in Nat, NEW y \in Nat, k * x <= k * y
  PROVE  x <= y
<1> SUFFICES ASSUME y + 1 <= x PROVE FALSE
  OBVIOUS
<1>1. k * (y + 1) <= k * x
  BY ProductMonotone
<1>2. k * (y + 1) = k * y + k /\ k * y \in Nat /\ k * x \in Nat
  OBVIOUS
<1> QED
  BY <1>1, <1>2

(* An obligation a cent below the safe limit is in the safe state.           *)
LEMMA BelowLimitIsSafe ==
  ASSUME NEW v \in Valuation, NEW balance \in Nat, balance + Cent <= SafeCreditLimit(v)
  PROVE  MarginState(v, balance) = "safe"
<1> DEFINE coverage == WarningCoverage(v)
           covered == v.stressed * Whole
           rounded == RoundQuotient(covered, coverage)
<1>1. /\ v.approved \in Nat /\ covered \in Nat /\ coverage \in Nat \ {0} /\ Cent \in Nat \ {0}
  BY CoveragesAreRatios, CentAssumption DEF Valuation, Whole
<1>2. rounded \in Nat /\ RoundMoney(v.approved) \in Nat
  BY <1>1, RoundQuotientNat, RoundMoneyNat
<1>3. balance + Cent <= RoundMoney(v.approved) /\ balance + Cent <= rounded
  BY <1>1, <1>2 DEF SafeCreditLimit, Least
<1>4. RoundMoney(v.approved) <= v.approved + Cent
  BY <1>1, RoundMoneyBounds
<1>5. balance <= v.approved
  BY <1>1, <1>2, <1>3, <1>4
<1>6. v.approved # 0
  <2> SUFFICES ASSUME v.approved = 0 PROVE FALSE
    OBVIOUS
  <2>1. 0 = Cent * 0
    BY <1>1
  <2>2. RoundMoney(0) = 0
    BY <2>1, CentsStay DEF IsCents
  <2> QED BY <1>1, <1>3, <2>2
<1>7. coverage * rounded <= covered + coverage * Cent
  BY <1>1, RoundingBounds
<1> HIDE DEF coverage, covered, rounded
<1>8. coverage * (balance + Cent) <= coverage * rounded
  BY <1>1, <1>2, <1>3, ProductMonotone
<1>9. coverage * (balance + Cent) = coverage * balance + coverage * Cent
  BY <1>1
<1>10. coverage * balance \in Nat /\ coverage * Cent \in Nat /\ coverage * rounded \in Nat
  BY <1>1, <1>2
<1>11. coverage * balance <= covered
  BY <1>1, <1>7, <1>8, <1>9, <1>10
<1>12. ~Below(v, balance, WarningCoverage(v))
  BY <1>1, <1>10, <1>11 DEF Below, coverage, covered
<1> QED
  BY <1>5, <1>6, <1>12, CoveredIsSafe

(* An obligation in the safe state is at most a cent above the safe limit.   *)
LEMMA SafeIsBelowLimit ==
  ASSUME NEW v \in Valuation, NEW balance \in Nat, MarginState(v, balance) = "safe"
  PROVE  balance <= SafeCreditLimit(v) + Cent
<1> DEFINE coverage == WarningCoverage(v)
           covered == v.stressed * Whole
           rounded == RoundQuotient(covered, coverage)
<1>1. /\ v.approved \in Nat /\ covered \in Nat /\ coverage \in Nat \ {0} /\ Cent \in Nat \ {0}
  BY CoveragesAreRatios, CentAssumption DEF Valuation, Whole
<1>2. rounded \in Nat /\ RoundMoney(v.approved) \in Nat
  BY <1>1, RoundQuotientNat, RoundMoneyNat
<1>3. CASE balance = 0
  BY <1>1, <1>3, SafeCreditLimitNat
<1>4. CASE balance # 0
  <2>1. ~(balance > v.approved) /\ ~Below(v, balance, coverage)
    BY <1>4 DEF MarginState
  <2>2. v.approved <= RoundMoney(v.approved) + Cent
    BY <1>1, RoundMoneyBounds
  <2>3. covered <= coverage * rounded + coverage * Cent
    BY <1>1, RoundingBounds
  <2>4. coverage * balance <= covered
    BY <1>1, <2>1 DEF Below
  <2> HIDE DEF coverage, covered, rounded
  <2>5. coverage * (rounded + Cent) = coverage * rounded + coverage * Cent
    BY <1>1, <1>2
  <2>6. /\ coverage * balance \in Nat /\ coverage * rounded \in Nat
        /\ coverage * Cent \in Nat /\ rounded + Cent \in Nat
    BY <1>1, <1>2
  <2>7. coverage * balance <= coverage * (rounded + Cent)
    BY <1>1, <2>3, <2>4, <2>5, <2>6
  <2>8. balance <= rounded + Cent
    BY <1>1, <2>6, <2>7, ProductCancels
  <2>9. balance <= RoundMoney(v.approved) + Cent
    BY <1>1, <1>2, <2>1, <2>2
  <2> QED
    BY <1>1, <1>2, <2>8, <2>9 DEF SafeCreditLimit, Least, coverage, covered, rounded
<1> QED
  BY <1>3, <1>4

(* What is left after the quoted cure and a cent is covered at the call      *)
(* level: if it is in alarm, it is for the limit.                            *)
LEMMA CureCovers ==
  ASSUME NEW v \in Valuation, NEW balance \in Nat, NEW left \in Nat,
         left = Excess(balance, RepaymentOnlyCure(v, balance) + Cent),
         MarginState(v, left) \in AlarmStates
  PROVE  left > v.approved
<1> DEFINE coverage == MarginCallCoverage(v)
           covered == v.stressed * Whole
           missing == Excess(balance * coverage, covered)
           cure == RepaymentOnlyCure(v, balance)
<1>1. v.approved \in Nat /\ covered \in Nat /\ coverage \in Nat \ {0} /\ Cent \in Nat \ {0}
  BY CoveragesAreRatios, CentAssumption DEF Valuation, Whole
<1>2. balance * coverage \in Nat /\ missing \in Nat /\ cure \in Nat
  <2>1. balance * coverage \in Nat
    BY <1>1
  <2> QED BY <1>1, <2>1, ExcessNat, RepaymentOnlyCureNat
<1>3. missing <= coverage * cure + coverage * Cent
  BY <1>1, <1>2, RoundingBounds DEF RepaymentOnlyCure
<1>4. balance * coverage <= missing + covered
  BY <1>1, <1>2 DEF Excess
<1> SUFFICES ASSUME left <= v.approved PROVE FALSE
  BY <1>1
<1>5. left # 0
  BY DEF MarginState, AlarmStates
<1>6. balance = left + (cure + Cent)
  BY <1>1, <1>2, <1>5 DEF Excess
<1> HIDE DEF cure, missing, covered, coverage
<1>7. balance * coverage = coverage * left + (coverage * cure + coverage * Cent)
  BY <1>1, <1>2, <1>6
<1>8. coverage * left \in Nat /\ coverage * cure \in Nat /\ coverage * Cent \in Nat
  BY <1>1, <1>2
<1>9. coverage * left <= covered
  BY <1>1, <1>2, <1>3, <1>4, <1>7, <1>8
<1>10. ~Below(v, left, MarginCallCoverage(v))
  BY <1>1, <1>8, <1>9 DEF Below, coverage, covered
<1>11. ~Below(v, left, LiquidationCoverage(v))
  BY <1>10, NotBelowLower, CoveragesGrow, CoveragesAreRatios
<1>12. v.approved # 0 /\ ~(left > v.approved)
  BY <1>1, <1>5
<1> QED
  BY <1>5, <1>10, <1>11, <1>12 DEF MarginState, AlarmStates

(***************************************************************************)
(* A smaller obligation is never in a more severe margin state: the six    *)
(* tests of _margin_state, of coverage and of limit, are in an order that  *)
(* never lets a lower balance fall through to a worse answer.              *)
(***************************************************************************)
THEOREM MarginStateMonotone ==
  ASSUME NEW v \in Valuation, NEW x \in Nat, NEW y \in Nat, x <= y
  PROVE  Severity[MarginState(v, x)] <= Severity[MarginState(v, y)]
<1>1. /\ Severity["safe"] = 0 /\ Severity["watch"] = 1
      /\ Severity["restrict_new_borrowing"] = 2
      /\ Severity["margin_call"] = 3 /\ Severity["liquidation"] = 4
  BY DEF Severity
<1>2. Severity[MarginState(v, y)] \in 0..4
  BY <1>1 DEF MarginState
<1>3. y = 0 => x = 0
  OBVIOUS
<1>4. Below(v, x, LiquidationCoverage(v)) => Below(v, y, LiquidationCoverage(v))
  BY BelowMonotone, CoveragesAreRatios
<1>5. Below(v, x, MarginCallCoverage(v)) => Below(v, y, MarginCallCoverage(v))
  BY BelowMonotone, CoveragesAreRatios
<1>6. Below(v, x, RestrictionCoverage(v)) => Below(v, y, RestrictionCoverage(v))
  BY BelowMonotone, CoveragesAreRatios
<1>7. Below(v, x, WarningCoverage(v)) => Below(v, y, WarningCoverage(v))
  BY BelowMonotone, CoveragesAreRatios
<1>8. x > v.approved => y > v.approved
  BY DEF Valuation
<1> QED
  BY <1>1, <1>2, <1>3, <1>4, <1>5, <1>6, <1>7, <1>8 DEF MarginState

(* A larger amount has no smaller share.                                     *)
LEMMA QuotientMonotone ==
  ASSUME NEW x \in Nat, NEW y \in Nat, NEW c \in Nat \ {0}, x <= y
  PROVE  x \div c <= y \div c
<1> DEFINE p == x \div c
           q == y \div c
<1>1. p \in Nat /\ q \in Nat /\ c * p <= x /\ y < c * q + c
  BY DivisionBounds
<1> HIDE DEF p, q
<1>2. SUFFICES ASSUME q + 1 <= p PROVE FALSE
  BY <1>1 DEF p, q
<1>3. c * (q + 1) <= c * p
  BY <1>1, <1>2, ProductMonotone
<1>4. c * (q + 1) = c * q + c /\ c * q \in Nat /\ c * p \in Nat
  BY <1>1
<1>. QED BY <1>1, <1>3, <1>4

(***************************************************************************)
(* Rounding to the nearest cent                                            *)
(***************************************************************************)
LEMMA HalfACent ==
  ASSUME NEW n \in Nat
  PROVE  2 * RoundMoney(n) <= 2 * n + Cent /\ 2 * n <= 2 * RoundMoney(n) + Cent
<1> DEFINE down == n \div Cent
           left == n % Cent
<1>1. 1 * Cent = Cent /\ Cent \in Nat \ {0}
  BY CentAssumption
<1>2. down \in Nat /\ left \in Nat /\ n = Cent * down + left
  BY <1>1
<1>3. \/ RoundMoney(n) = Cent * (down + 1) /\ 2 * left >= Cent
      \/ RoundMoney(n) = Cent * down /\ 2 * left <= Cent
  BY <1>1, <1>2 DEF RoundMoney, RoundQuotient
<1> HIDE DEF down, left
<1>4. Cent * down \in Nat /\ Cent * (down + 1) = Cent * down + Cent
      /\ left < Cent
  BY <1>1, <1>2 DEF left
<1> DEFINE base == Cent * down
<1>5. /\ n = base + left /\ left < Cent /\ base \in Nat /\ left \in Nat
      /\ \/ RoundMoney(n) = base + Cent /\ 2 * left >= Cent
         \/ RoundMoney(n) = base /\ 2 * left <= Cent
  BY <1>2, <1>3, <1>4
<1> HIDE DEF base
<1>. QED BY <1>1, <1>5

(* Amounts of whole cents that differ by less than a cent are in order.      *)
LEMMA CentsInOrder ==
  ASSUME NEW x, NEW y, IsCents(x), IsCents(y), x < y + Cent
  PROVE  x <= y
<1>1. PICK j \in Nat, k \in Nat : x = Cent * j /\ y = Cent * k
  BY DEF IsCents
<1>2. Cent \in Nat \ {0} /\ Cent * (k + 1) = Cent * k + Cent /\ Cent * j \in Nat
  BY CentAssumption
<1>3. j <= k
  <2> SUFFICES ASSUME k + 1 <= j PROVE FALSE
    OBVIOUS
  <2>1. Cent * (k + 1) <= Cent * j
    BY <1>2, ProductMonotone
  <2>. QED BY <1>1, <1>2, <2>1
<1>. QED BY <1>1, <1>2, <1>3, ProductMonotone

(* What is no more than some whole cents is rounded to no more.              *)
LEMMA RoundedWithin ==
  ASSUME NEW n \in Nat, NEW y, IsCents(y), n <= y
  PROVE  RoundMoney(n) <= y
<1>1. 2 * RoundMoney(n) <= 2 * n + Cent /\ RoundMoney(n) \in Nat
  BY HalfACent, RoundMoneyNat
<1>2. y \in Nat /\ Cent \in Nat \ {0}
  BY CentsStay, CentAssumption
<1>3. IsCents(RoundMoney(n))
  <2>1. IsCents(RoundQuotient(n, 1))
    BY RoundedIsCents
  <2>. QED BY <2>1 DEF RoundMoney
<1>4. RoundMoney(n) < y + Cent
  BY <1>1, <1>2
<1>. QED BY <1>3, <1>4, CentsInOrder

(* A cent at most is rounded up only if more than half of it is there.       *)
LEMMA RoundedCent ==
  ASSUME NEW n \in Nat, n <= Cent
  PROVE  RoundMoney(n) = 0 \/ (RoundMoney(n) = Cent /\ 2 * n > Cent)
<1>1. 1 * Cent = Cent /\ Cent \in Nat \ {0}
  BY CentAssumption
<1>2. CASE n = Cent
  <2>1. Cent = Cent * 1
    BY <1>1
  <2>2. IsCents(Cent)
    BY <2>1 DEF IsCents
  <2>. QED BY <1>1, <1>2, <2>2, CentsStay
<1>3. CASE n < Cent
  <2>1. n \div Cent = 0 /\ n % Cent = n
    BY <1>1, <1>3
  <2>2. RoundMoney(n) = Cent * (IF 2 * n > Cent THEN 1 ELSE 0)
    BY <1>1, <2>1 DEF RoundMoney, RoundQuotient
  <2>. QED BY <1>1, <2>2
<1>. QED BY <1>1, <1>2, <1>3

(***************************************************************************)
(* The largest draw less a cent is approved: the projected obligation is,  *)
(* to the unit, a cent below the safe limit.                               *)
(***************************************************************************)
LEMMA RepaidIsCents ==
  ASSUME NEW l \in Loan, NEW repay \in Nat
  PROVE  LET after == AfterRepayment(l, repay)
         IN  /\ after \in Loan
             /\ IsCents(after.principal)
             /\ IsCents(Balance(after))
<1> DEFINE paid  == ApplyRepayment(l, RoundMoney(repay))
           after == AfterRepayment(l, repay)
<1>1. paid \in Loan
  BY RoundMoneyNat, ApplyRepaymentType
<1>2. after = RoundLoan(paid)
  BY DEF AfterRepayment
<1> HIDE DEF paid, after
<1>3. paid.principal \in Nat /\ paid.interest \in Nat /\ paid.fees \in Nat
  BY <1>1 DEF Loan
<1>4. /\ IsCents(RoundMoney(paid.principal))
      /\ IsCents(RoundMoney(paid.interest))
      /\ IsCents(RoundMoney(paid.fees))
  BY <1>3, RoundedIsCents DEF RoundMoney
<1>5. /\ after.principal = RoundMoney(paid.principal)
      /\ after.interest = RoundMoney(paid.interest)
      /\ after.fees = RoundMoney(paid.fees)
  BY <1>2 DEF RoundLoan
<1>6. IsCents(after.principal + after.interest)
  BY <1>4, <1>5, CentsAdd
<1>7. IsCents(Balance(after))
  BY <1>4, <1>5, <1>6, CentsAdd DEF Balance
<1>8. after \in Loan
  BY <1>1, <1>2, RoundLoanType
<1> QED
  BY <1>4, <1>5, <1>7, <1>8 DEF after

LEMMA LimitIsCents ==
  ASSUME NEW v \in Valuation
  PROVE  IsCents(SafeCreditLimit(v))
<1>1. /\ v.approved \in Nat /\ v.stressed * Whole \in Nat
      /\ WarningCoverage(v) \in Nat \ {0}
  BY CoveragesAreRatios DEF Valuation, Whole
<1>2. IsCents(RoundMoney(v.approved))
  BY <1>1, RoundedIsCents DEF RoundMoney
<1>3. IsCents(RoundQuotient(v.stressed * Whole, WarningCoverage(v)))
  BY <1>1, RoundedIsCents
<1> QED
  BY <1>2, <1>3 DEF SafeCreditLimit, Least

(* A draw of whole cents adds itself to the obligation, and nothing else.    *)
LEMMA DrawAddsItself ==
  ASSUME NEW l \in Loan, NEW repay \in Nat, NEW draw, IsCents(draw)
  PROVE  Balance(ProjectedLoan(l, draw, repay)) = Balance(AfterRepayment(l, repay)) + draw
<1> DEFINE after == AfterRepayment(l, repay)
<1>1. after \in Loan /\ IsCents(after.principal)
  BY RepaidIsCents
<1>2. draw \in Nat /\ RoundMoney(draw) = draw
  BY CentsStay
<1>3. RoundMoney(after.principal + draw) = after.principal + draw
  BY <1>1, CentsAdd, CentsStay
<1>4. ProjectedLoan(l, draw, repay) = [after EXCEPT !.principal = after.principal + draw]
  BY <1>2, <1>3 DEF ProjectedLoan
<1> HIDE DEF after
<1>5. Balance([after EXCEPT !.principal = after.principal + draw]) = Balance(after) + draw
  BY <1>1, <1>2 DEF Loan, Balance
<1> QED
  BY <1>4, <1>5 DEF after

LEMMA LargestDraw ==
  ASSUME NEW v \in Valuation, NEW l \in Loan, NEW repay \in Nat
  PROVE  /\ IsCents(MaxApprovedDraw(v, l, repay))
         /\ MaxApprovedDraw(v, l, repay)
              = Excess(SafeCreditLimit(v), Balance(AfterRepayment(l, repay)))
<1> DEFINE owed == Balance(AfterRepayment(l, repay))
<1>1. IsCents(owed) /\ IsCents(SafeCreditLimit(v))
  BY RepaidIsCents, LimitIsCents
<1>2. RoundMoney(owed) = owed
  BY <1>1, CentsStay
<1>3. IsCents(Excess(SafeCreditLimit(v), owed))
  BY <1>1, CentsAdd
<1> QED
  BY <1>2, <1>3, CentsStay DEF MaxApprovedDraw

LEMMA LessACentIsApproved ==
  ASSUME NEW v \in Valuation, NEW l \in Loan, NEW repay \in Nat,
         MaxApprovedDraw(v, l, repay) > Cent
  PROVE  DrawDecision(v, l, MaxApprovedDraw(v, l, repay) - Cent, repay) = "approved"
<1> DEFINE largest == MaxApprovedDraw(v, l, repay)
           draw    == largest - Cent
           owed    == Balance(AfterRepayment(l, repay))
<1>1. Cent \in Nat \ {0} /\ IsCents(Cent)
  <2>1. Cent = Cent * 1
    BY CentAssumption
  <2> QED BY <2>1, CentAssumption DEF IsCents
<1>2. IsCents(largest) /\ largest = Excess(SafeCreditLimit(v), owed)
  BY LargestDraw
<1>3. owed \in Nat /\ SafeCreditLimit(v) \in Nat /\ largest \in Nat
  BY <1>2, RepaidIsCents, LimitIsCents, CentsStay
<1> HIDE DEF largest, owed
<1>4. draw = Excess(largest, Cent)
  BY <1>1, <1>3 DEF Excess, largest
<1>5. IsCents(draw)
  BY <1>1, <1>2, <1>4, CentsAdd
<1>6. draw \in Nat /\ RoundMoney(draw) = draw
  BY <1>5, CentsStay
<1>7. Balance(ProjectedLoan(l, draw, repay)) = owed + draw
  BY <1>5, DrawAddsItself DEF owed
<1>8. largest > Cent
  BY DEF largest
<1>9. owed + draw \in Nat /\ owed + draw + Cent = SafeCreditLimit(v)
  BY <1>1, <1>2, <1>3, <1>6, <1>8 DEF Excess
<1>10. MarginState(v, owed + draw) = "safe"
  BY <1>3, <1>9, BelowLimitIsSafe
<1>11. RoundMoney(draw) <= largest
  BY <1>1, <1>3, <1>6
<1> QED
  BY <1>7, <1>10, <1>11 DEF DrawDecision, largest

(***************************************************************************)
(* Functions defined by recursion on a number of steps: a chosen function  *)
(* that satisfies the equations exists, follows the steps and keeps to     *)
(* their type.                                                             *)
(***************************************************************************)
(* Induction over a prefix of the naturals, for a set: the library states it *)
(* for an operator, this for the smallest counterexample, which a            *)
(* well-founded order has.                                                   *)
LEMMA PrefixInduction ==
  ASSUME NEW N \in Nat, NEW S, 0 \in S, \A n \in 0..(N - 1) : n \in S => n + 1 \in S
  PROVE  0..N \subseteq S
<1> DEFINE Bad == (0..N) \ S
           Less == OpToRel(<, Nat)
<1> SUFFICES ASSUME Bad # {} PROVE FALSE
  OBVIOUS
<1>1. IsWellFoundedOn(Less, Nat)
  BY NatLessThanWellFounded
<1>2. Bad \subseteq Nat
  OBVIOUS
<1> HIDE DEF Less
<1>3. PICK n \in Bad : \A m \in Bad : ~(<<m, n>> \in Less)
  BY <1>1, <1>2, WFMin
<1>4. n \in 0..N /\ n # 0 /\ n \notin S
  BY <1>3
<1>5. n - 1 \in 0..(N - 1) /\ n - 1 \notin S
  BY <1>4
<1>6. <<n - 1, n>> \in Less
  BY <1>4 DEF Less, OpToRel
<1>. QED BY <1>3, <1>5, <1>6

Steps(step, N, D) == step \in [1..N -> [D -> D]]

Follows(f, N, start, step) == f[0] = start /\ \A n \in 1..N : f[n] = step[n][f[n - 1]]

(* Such a function exists for any steps of the right type.                   *)
LEMMA RecursionExists ==
  ASSUME NEW N \in Nat, NEW D, NEW start \in D, NEW step, Steps(step, N, D)
  PROVE  \E f \in [0..N -> D] : Follows(f, N, start, step)
<1> DEFINE Good == {n \in 0..N : \E f \in [0..n -> D] : Follows(f, n, start, step)}
<1>1. 0 \in Good
  <2> DEFINE f == [k \in 0..0 |-> start]
  <2>1. f \in [0..0 -> D] /\ Follows(f, 0, start, step)
    BY DEF Follows
  <2> HIDE DEF f
  <2>. QED BY <2>1
<1>2. ASSUME NEW n \in 0..(N - 1), n \in Good
      PROVE  n + 1 \in Good
  <2>1. PICK f \in [0..n -> D] : Follows(f, n, start, step)
    BY <1>2
  <2> DEFINE g == [k \in 0..(n + 1) |-> IF k = n + 1 THEN step[n + 1][f[n]] ELSE f[k]]
  <2>2. f[n] \in D /\ step[n + 1] \in [D -> D]
    BY <2>1 DEF Steps
  <2>3. step[n + 1][f[n]] \in D
    BY <2>2
  <2>4. g \in [0..(n + 1) -> D] /\ g[0] = f[0] /\ g[n + 1] = step[n + 1][f[n]]
        /\ \A k \in 0..n : g[k] = f[k]
    BY <2>1, <2>3
  <2> HIDE DEF g
  <2>5. ASSUME NEW k \in 1..(n + 1)
        PROVE  g[k] = step[k][g[k - 1]]
    <3>1. CASE k = n + 1
      BY <3>1, <2>4
    <3>2. CASE k \in 1..n
      BY <3>2, <2>1, <2>4 DEF Follows
    <3>. QED BY <3>1, <3>2
  <2>6. Follows(g, n + 1, start, step)
    BY <2>1, <2>4, <2>5 DEF Follows
  <2>7. n + 1 \in 0..N
    OBVIOUS
  <2>. QED BY <2>4, <2>6, <2>7
<1> HIDE DEF Good
<1>3. 0..N \subseteq Good
  BY <1>1, <1>2, PrefixInduction
<1>4. PICK f \in [0..N -> D] : Follows(f, N, start, step)
  BY <1>3 DEF Good
<1>. QED BY <1>4

(* A function that follows such steps keeps to their type.                   *)
LEMMA RecursionTyped ==
  ASSUME NEW N \in Nat, NEW D, NEW step, Steps(step, N, D), NEW f,
         f[0] \in D, \A n \in 1..N : f[n - 1] \in D => f[n] = step[n][f[n - 1]]
  PROVE  \A n \in 0..N : f[n] \in D
<1> DEFINE Good == {n \in 0..N : f[n] \in D}
<1>1. 0 \in Good
  OBVIOUS
<1>2. ASSUME NEW n \in 0..(N - 1), n \in Good
      PROVE  n + 1 \in Good
  <2>1. n + 1 \in 1..N /\ (n + 1) - 1 = n /\ f[n] \in D
    BY <1>2
  <2>2. f[n + 1] = step[n + 1][f[n]] /\ step[n + 1] \in [D -> D]
    BY <2>1 DEF Steps
  <2>. QED BY <2>1, <2>2
<1> HIDE DEF Good
<1>3. 0..N \subseteq Good
  BY <1>1, <1>2, PrefixInduction
<1>. QED BY <1>3 DEF Good
=============================================================================
