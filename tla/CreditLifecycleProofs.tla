----------------------- MODULE CreditLifecycleProofs ------------------------
(***************************************************************************)
(* Theorems about CreditLifecycle, for every set of valuations and of      *)
(* amounts, every interest rate and either kind of compounding.            *)
(***************************************************************************)
EXTENDS CreditLifecycle, CollateralRiskProofs

LEMMA DrawDecisionType ==
  ASSUME NEW v, NEW l, NEW draw, NEW repay
  PROVE  DrawDecision(v, l, draw, repay) \in {"approved", "partially_approved", "rejected"}
BY DEF DrawDecision

LEMMA InitTypeOK == Init => TypeOK
BY DEF Init, TypeOK, NoQuote, Loan, Answers

LEMMA NextTypeOK == TypeOK /\ [Next]_vars => TypeOK'
<1> SUFFICES ASSUME TypeOK, [Next]_vars
             PROVE  TypeOK'
  OBVIOUS
<1>0. /\ loan \in Loan /\ valuation \in Valuations /\ valuation \in Valuation
      /\ quote \in [answer: Answers, amount: Nat, repay: Nat]
      /\ quote.amount \in Nat
  BY ValuationsAssumption DEF TypeOK
<1>1. CASE Originate
  <2>1. SafeCreditLimit(valuation) \in Nat
    BY <1>0, SafeCreditLimitNat
  <2>2. quote' = [answer |-> "originated", amount |-> SafeCreditLimit(valuation), repay |-> 0]
    BY <1>1 DEF Originate, NoQuote
  <2> QED
    BY <1>0, <1>1, <2>1, <2>2 DEF Originate, TypeOK, Answers
<1>2. ASSUME NEW draw \in Amounts \cup {quote.amount}, NEW repay \in Amounts,
             CheckDraw(draw, repay)
      PROVE  TypeOK'
  <2>1. draw \in Nat /\ repay \in Nat
    BY <1>0, AmountsAssumption
  <2>2. ProjectedLoan(loan, draw, repay) \in Loan
    BY <1>0, <2>1, ProjectedLoanType
  <2>3. MaxApprovedDraw(valuation, loan, repay) \in Nat
    BY <1>0, <2>1, MaxApprovedDrawNat
  <2>4. DrawDecision(valuation, loan, draw, repay) \in Answers
    BY DrawDecisionType DEF Answers
  <2>5. loan' \in Loan
    BY <1>0, <1>2, <2>2 DEF CheckDraw
  <2>6. quote' \in [answer: Answers, amount: Nat, repay: Nat]
    BY <1>2, <2>1, <2>3, <2>4 DEF CheckDraw
  <2> QED
    BY <1>0, <1>2, <2>5, <2>6 DEF CheckDraw, TypeOK
<1>3. CASE Monitor
  <2>1. RepaymentOnlyCure(valuation, Balance(loan)) \in Nat
    BY <1>0, BalanceNat, RepaymentOnlyCureNat
  <2>2. MarginState(valuation, Balance(loan)) \in Answers
    BY MarginStateType DEF Answers
  <2>3. quote' = [answer |-> MarginState(valuation, Balance(loan)),
                  amount |-> RepaymentOnlyCure(valuation, Balance(loan)), repay |-> 0]
    BY <1>3 DEF Monitor, NoQuote
  <2> QED
    BY <1>0, <1>3, <2>1, <2>2, <2>3 DEF Monitor, TypeOK
<1>4. ASSUME NEW amount \in Amounts \cup {quote.amount}, Repay(amount)
      PROVE  TypeOK'
  <2>1. amount \in Nat
    BY <1>0, AmountsAssumption
  <2> QED
    BY <1>0, <1>4, <2>1, ApplyRepaymentType DEF Repay, TypeOK, NoQuote, Answers
<1>5. CASE Accrue
  BY <1>0, <1>5, AccrueInterestType DEF Accrue, TypeOK, NoQuote, Answers
<1>6. ASSUME NEW v \in Valuations, Revalue(v)
      PROVE  TypeOK'
  BY <1>0, <1>6 DEF Revalue, TypeOK, NoQuote, Answers
<1>7. CASE UNCHANGED vars
  BY <1>7 DEF vars, TypeOK
<1> QED
  BY <1>1, <1>2, <1>3, <1>4, <1>5, <1>6, <1>7 DEF Next

(* Loans, quotes and answers keep their types: no amount is ever negative.   *)
THEOREM TypeCorrect == Spec => []TypeOK
BY InitTypeOK, NextTypeOK, PTL DEF Spec

(***************************************************************************)
(* A repayment never makes the margin state more severe: the waterfall     *)
(* lowers the balance by what is paid, and a lower balance is never in a   *)
(* worse state.                                                            *)
(***************************************************************************)
LEMMA RepaymentStep ==
  ASSUME TypeOK, NEW amount \in Amounts \cup {quote.amount}, Repay(amount)
  PROVE  SeverityNow' <= SeverityNow
<1>1. loan \in Loan /\ valuation \in Valuation /\ amount \in Nat
  BY AmountsAssumption, ValuationsAssumption DEF TypeOK
<1>2. loan' = ApplyRepayment(loan, amount) /\ valuation' = valuation
  BY DEF Repay
<1>3. Balance(loan') = Excess(Balance(loan), amount)
  BY <1>1, <1>2, WaterfallConserves
<1>4. Balance(loan) \in Nat
  BY <1>1, BalanceNat
<1>5. Balance(loan') \in Nat /\ Balance(loan') <= Balance(loan)
  BY <1>1, <1>3, <1>4 DEF Excess
<1>6. Severity[MarginState(valuation, Balance(loan'))]
        <= Severity[MarginState(valuation, Balance(loan))]
  BY <1>1, <1>4, <1>5, MarginStateMonotone
<1> QED
  BY <1>2, <1>6 DEF SeverityNow

THEOREM RepaymentsNeverWorsen == Spec => RepaymentNeverWorsens
<1>1. TypeOK /\ [Next]_vars
        => [ (\E amount \in Amounts \cup {quote.amount} : Repay(amount))
               => SeverityNow' <= SeverityNow ]_vars
  BY RepaymentStep
<1> QED
  BY <1>1, TypeCorrect, PTL DEF Spec, RepaymentNeverWorsens

(***************************************************************************)
(* The margin state and the credit limit agree within a cent of rounding.  *)
(* No step is involved: the two formulas agree on every loan and valuation. *)
(***************************************************************************)
LEMMA LimitAgreesWhenTyped == TypeOK => LimitAgreesWithState
<1> SUFFICES ASSUME TypeOK PROVE LimitAgreesWithState
  OBVIOUS
<1>1. valuation \in Valuation /\ Balance(loan) \in Nat
  BY ValuationsAssumption, BalanceNat DEF TypeOK
<1>2. ASSUME Balance(loan) + Cent <= SafeCreditLimit(valuation)
      PROVE  SeverityNow = 0
  BY <1>1, <1>2, BelowLimitIsSafe, SafeSeverity DEF SeverityNow
<1>3. ASSUME SeverityNow = 0
      PROVE  Balance(loan) <= SafeCreditLimit(valuation) + Cent
  BY <1>1, <1>3, SafeIsBelowLimit, SafeSeverity DEF SeverityNow
<1> QED
  BY <1>2, <1>3 DEF LimitAgreesWithState

THEOREM LimitAgrees == Spec => []LimitAgreesWithState
BY TypeCorrect, LimitAgreesWhenTyped, PTL

(***************************************************************************)
(* The last answer speaks of the loan and the valuation as they are: every *)
(* step that moves either withdraws it.                                    *)
(***************************************************************************)
QuoteIsCurrent ==
  /\ quote.answer = "originated" =>
       /\ Balance(loan) = 0
       /\ quote.amount = SafeCreditLimit(valuation)
  /\ quote.answer = "partially_approved" =>
       quote.amount = MaxApprovedDraw(valuation, loan, quote.repay)
  /\ quote.answer \in MarginStates =>
       quote.amount = RepaymentOnlyCure(valuation, Balance(loan))

LEMMA WithdrawnIsCurrent == quote = NoQuote => QuoteIsCurrent
BY DEF QuoteIsCurrent, NoQuote, MarginStates

LEMMA QuoteStep == TypeOK /\ QuoteIsCurrent /\ [Next]_vars => QuoteIsCurrent'
<1> SUFFICES ASSUME TypeOK, QuoteIsCurrent, [Next]_vars
             PROVE  QuoteIsCurrent'
  OBVIOUS
<1>1. CASE Originate
  <2>1. quote' = [answer |-> "originated", amount |-> SafeCreditLimit(valuation), repay |-> 0]
    BY <1>1 DEF Originate, NoQuote
  <2> QED
    BY <1>1, <2>1 DEF Originate, QuoteIsCurrent, MarginStates
<1>2. ASSUME NEW draw \in Amounts \cup {quote.amount}, NEW repay \in Amounts,
             CheckDraw(draw, repay)
      PROVE  QuoteIsCurrent'
  <2> DEFINE decision == DrawDecision(valuation, loan, draw, repay)
  <2>1. decision \in {"approved", "partially_approved", "rejected"}
    BY DrawDecisionType
  <2>2. /\ quote'.answer = decision
        /\ quote'.repay = repay
        /\ decision = "partially_approved" =>
             /\ quote'.amount = MaxApprovedDraw(valuation, loan, repay)
             /\ loan' = loan
        /\ valuation' = valuation
    BY <1>2 DEF CheckDraw
  <2> QED
    BY <2>1, <2>2 DEF QuoteIsCurrent, MarginStates
<1>3. CASE Monitor
  <2>1. quote' = [answer |-> MarginState(valuation, Balance(loan)),
                  amount |-> RepaymentOnlyCure(valuation, Balance(loan)), repay |-> 0]
    BY <1>3 DEF Monitor, NoQuote
  <2>2. MarginState(valuation, Balance(loan)) \notin {"originated", "partially_approved"}
    BY MarginStateType DEF MarginStates
  <2> QED
    BY <1>3, <2>1, <2>2 DEF Monitor, QuoteIsCurrent
<1>4. ASSUME NEW amount \in Amounts \cup {quote.amount}, Repay(amount)
      PROVE  QuoteIsCurrent'
  BY <1>4 DEF Repay, QuoteIsCurrent, NoQuote, MarginStates
<1>5. CASE Accrue
  BY <1>5 DEF Accrue, QuoteIsCurrent, NoQuote, MarginStates
<1>6. ASSUME NEW v \in Valuations, Revalue(v)
      PROVE  QuoteIsCurrent'
  BY <1>6 DEF Revalue, QuoteIsCurrent, NoQuote, MarginStates
<1>7. CASE UNCHANGED vars
  BY <1>7 DEF vars, QuoteIsCurrent
<1> QED
  BY <1>1, <1>2, <1>3, <1>4, <1>5, <1>6, <1>7 DEF Next

LEMMA QuotesAreCurrent == Spec => [](TypeOK /\ QuoteIsCurrent)
<1>1. Init => QuoteIsCurrent
  BY WithdrawnIsCurrent DEF Init
<1> QED
  BY <1>1, QuoteStep, TypeCorrect, PTL DEF Spec

(* The cure a margin call quotes, paid with a cent more, lifts the coverage  *)
(* part of the call: rounding may take a cent from it, and no more.          *)
THEOREM CuresLiftTheBreach == Spec => []CureLiftsCoverageBreach
<1>1. TypeOK /\ QuoteIsCurrent => CureLiftsCoverageBreach
  <2> SUFFICES ASSUME TypeOK, QuoteIsCurrent, quote.answer \in AlarmStates
               PROVE  LET cured == ApplyRepayment(loan, quote.amount + Cent)
                      IN  MarginState(valuation, Balance(cured)) \in AlarmStates
                            => Balance(cured) > valuation.approved
    BY DEF CureLiftsCoverageBreach
  <2> DEFINE cured == ApplyRepayment(loan, quote.amount + Cent)
  <2>1. /\ loan \in Loan /\ valuation \in Valuation /\ quote.amount + Cent \in Nat
        /\ Balance(loan) \in Nat
    BY ValuationsAssumption, CentAssumption, BalanceNat DEF TypeOK
  <2>2. quote.amount = RepaymentOnlyCure(valuation, Balance(loan))
    BY DEF QuoteIsCurrent, AlarmStates, MarginStates
  <2>3. Balance(cured) = Excess(Balance(loan), quote.amount + Cent)
    BY <2>1, WaterfallConserves
  <2>4. Balance(cured) \in Nat
    BY <2>1, <2>3, ExcessNat
  <2> HIDE DEF cured
  <2>5. MarginState(valuation, Balance(cured)) \in AlarmStates
          => Balance(cured) > valuation.approved
    BY <2>1, <2>2, <2>3, <2>4, CureCovers
  <2> QED
    BY <2>5 DEF cured
<1> QED
  BY <1>1, QuotesAreCurrent, PTL

(***************************************************************************)
(* An offer less a cent is approved: the projected obligation is, to the   *)
(* unit, a cent below the safe limit.                                      *)
(***************************************************************************)
(* With nothing owed and nothing repaid the largest draw is the whole limit. *)
LEMMA NothingOwed ==
  ASSUME NEW v \in Valuation, NEW l \in Loan, Balance(l) = 0, NEW repay \in Nat
  PROVE  MaxApprovedDraw(v, l, repay) = SafeCreditLimit(v)
<1> DEFINE paid == ApplyRepayment(l, RoundMoney(repay))
<1>1. paid \in Loan /\ Balance(paid) = Excess(0, RoundMoney(repay))
  BY RoundMoneyNat, ApplyRepaymentType, WaterfallConserves
<1>2. Excess(0, RoundMoney(repay)) = 0
  BY RoundMoneyNat DEF Excess
<1> HIDE DEF paid
<1>3. paid.principal = 0 /\ paid.interest = 0 /\ paid.fees = 0
  <2>1. paid.principal \in Nat /\ paid.interest \in Nat /\ paid.fees \in Nat
    BY <1>1 DEF Loan
  <2>2. paid.principal + paid.interest + paid.fees = 0
    BY <1>1, <1>2 DEF Balance
  <2> QED BY <2>1, <2>2
<1>4. RoundMoney(0) = 0
  <2>1. 0 = Cent * 0
    BY CentAssumption
  <2> QED BY <2>1, CentsStay DEF IsCents
<1>5. Balance(RoundLoan(paid)) = 0
  BY <1>3, <1>4 DEF RoundLoan, Balance
<1>6. Balance(AfterRepayment(l, repay)) = 0
  BY <1>5 DEF AfterRepayment, paid
<1>7. SafeCreditLimit(v) \in Nat
  BY SafeCreditLimitNat
<1> QED
  BY <1>6, <1>7, LargestDraw DEF Excess

THEOREM OffersAreApproved == Spec => []OfferLessACentIsApproved
<1>1. TypeOK /\ QuoteIsCurrent => OfferLessACentIsApproved
  <2> SUFFICES ASSUME TypeOK, QuoteIsCurrent, Offered, quote.amount > Cent
               PROVE  DrawDecision(valuation, loan, quote.amount - Cent, quote.repay)
                        = "approved"
    BY DEF OfferLessACentIsApproved
  <2>1. loan \in Loan /\ valuation \in Valuation /\ quote.repay \in Nat
    BY ValuationsAssumption DEF TypeOK
  <2>2. quote.amount = MaxApprovedDraw(valuation, loan, quote.repay)
    <3>1. CASE quote.answer = "originated"
      BY <2>1, <3>1, NothingOwed DEF QuoteIsCurrent
    <3>2. CASE quote.answer = "partially_approved"
      BY <3>2 DEF QuoteIsCurrent
    <3> QED BY <3>1, <3>2 DEF Offered
  <2> QED
    BY <2>1, <2>2, LessACentIsApproved
<1> QED
  BY <1>1, QuotesAreCurrent, PTL
=============================================================================
