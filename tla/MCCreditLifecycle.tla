-------------------------- MODULE MCCreditLifecycle -------------------------
(***************************************************************************)
(* Small instance of CreditLifecycle: portfolios whose stressed value, not *)
(* the credit limit, binds; one limited by its credit line; an ineligible  *)
(* one; and one without prices.  Two units to a cent.                      *)
(***************************************************************************)
EXTENDS CreditLifecycle

MCValuations ==
  { [value |-> 60, approved |-> 40, stressed |-> 48, score |-> 0],
    [value |-> 60, approved |-> 40, stressed |-> 42, score |-> 20],
    [value |-> 60, approved |-> 24, stressed |-> 40, score |-> 50],
    [value |-> 20, approved |-> 12, stressed |-> 18, score |-> 100],
    [value |-> 20, approved |->  0, stressed |->  0, score |-> 100],
    [value |->  0, approved |->  0, stressed |->  0, score |-> 100] }

MCAmounts == {0, 2, 8, 20}
=============================================================================
