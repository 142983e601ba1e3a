-------------------------- MODULE MonitoredAccount --------------------------
(***************************************************************************)
(* The record of one monitored account and what each operation of the      *)
(* monitoring service makes of it (src/app/monitoring/models.py,           *)
(* src/app/monitoring/service.py).  The operators are pure: which copy of  *)
(* the record they are given, and when the result is stored, is the        *)
(* business of MonitoringService and AccountBook.                          *)
(*                                                                         *)
(* Every account pledges the same portfolio, so one valuation serves all.  *)
(***************************************************************************)
EXTENDS CollateralRisk, Sequences

CONSTANTS
  References,  (* event references of loan updates                         *)
  Payload,     (* the update each reference stands for                     *)
  Window,      (* references an account remembers: 1000 in the code        *)
  NoAccount    (* what the store holds for an unknown account: None        *)

Update == [draw: Nat, repay: Nat, interest: Nat, fee: Nat, tick: BOOLEAN]

ASSUME PayloadAssumption == Payload \in [References -> Update]
ASSUME WindowAssumption == Window \in Nat \ {0}

Statuses == {"active", "paused", "disabled"}

(***************************************************************************)
(* The last three fields are history, carried with every copy of the       *)
(* record as its fields are: which registration it descends from, since    *)
(* when and for how long interest has been charged, how often each         *)
(* reference was applied.                                                  *)
(***************************************************************************)
Account ==
  [status: Statuses, loan: Loan, last: MarginStates \cup {"none"},
   accruedTo: Nat, processed: Seq(References),
   serial: Nat, runsFrom: Nat, charged: Nat, applied: [References -> Nat]]

ASSUME NoAccountAssumption == NoAccount \notin Account

Registered(loan, status, at, serial) ==
  [status |-> status, loan |-> loan, last |-> "none",
   accruedTo |-> at, processed |-> <<>>,
   serial |-> serial, runsFrom |-> at, charged |-> 0,
   applied |-> [r \in References |-> 0]]

IsProcessed(account, r) == \E i \in 1..Len(account.processed) : account.processed[i] = r

(* Faulty variant of Remember: the extended list is dropped.                *)
RememberNothing(processed, r) == processed

(* The references kept are the newest Window - 1 and the new one. *)
Remember(processed, r) ==
  Append(SubSeq(processed, 1 + Excess(Len(processed), Window - 1), Len(processed)), r)

(***************************************************************************)
(* apply_loan_update.  The draw is checked on what is owed after the       *)
(* event's own interest, fee and repayment; interest the engine has not    *)
(* charged yet is no part of it.                                           *)
(***************************************************************************)
SettledLoan(account, r) == Settle(account.loan, Payload[r])

IsRefused(account, r, v) ==
  /\ Payload[r].draw > 0
  /\ \/ Unassessable(v, Balance(SettledLoan(account, r)))
     \/ DrawDecision(v, SettledLoan(account, r), Payload[r].draw, 0) # "approved"

UpdatedLoan(account, r) ==
  IF Payload[r].draw > 0
  THEN ProjectedLoan(SettledLoan(account, r), Payload[r].draw, 0)
  ELSE SettledLoan(account, r)

Posted(account, r) ==
  [account EXCEPT !.loan = UpdatedLoan(account, r),
                  !.processed = Remember(@, r),
                  !.applied = [account.applied EXCEPT ![r] = @ + 1]]

(***************************************************************************)
(* evaluate_account.  The initial evaluation charges nothing and starts    *)
(* the accrual clock; a later one charges the time since the last.         *)
(***************************************************************************)
Elapsed(account, at) == Excess(at, account.accruedTo)

AccruedLoan(account, at, initial) ==
  IF ~initial /\ at > account.accruedTo
  THEN RoundLoan(AccrueInterest(account.loan, Elapsed(account, at)))
  ELSE account.loan

(* Faulty variant of Assessed: the accrual clock stays where it was.        *)
AssessedClockStuck(account, v, at, initial) ==
  LET loan == AccruedLoan(account, at, initial)
  IN  [account EXCEPT !.loan = loan,
                      !.last = MarginState(v, Balance(loan)),
                      !.runsFrom = IF initial THEN at ELSE @,
                      !.charged = IF initial THEN 0 ELSE @ + Elapsed(account, at)]

Assessed(account, v, at, initial) ==
  LET loan == AccruedLoan(account, at, initial)
  IN  [account EXCEPT !.loan = loan,
                      !.accruedTo = at,
                      !.last = MarginState(v, Balance(loan)),
                      !.runsFrom = IF initial THEN at ELSE @,
                      !.charged = IF initial THEN 0 ELSE @ + Elapsed(account, at)]
=============================================================================
