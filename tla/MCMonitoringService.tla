------------------------- MODULE MCMonitoringService ------------------------
(***************************************************************************)
(* Small instances of MonitoringService.  Two units to a cent; the loans   *)
(* are 10 cents or nothing; interest is a quarter cent per cent and unit   *)
(* of time, rounded.                                                       *)
(*                                                                         *)
(* Under Sound an opening loan is safe and leaves room for one draw; under *)
(* Strained it is called, and liquidated once interest has accrued; under  *)
(* Unpriced the evaluation raises if nothing is owed.                      *)
(***************************************************************************)
EXTENDS MonitoringService, TLC

Sound    == [value |-> 60, approved |-> 40, stressed |-> 48, score |-> 0]
Strained == [value |-> 40, approved |-> 24, stressed |-> 21, score |-> 0]
Unpriced == [value |->  0, approved |->  0, stressed |->  0, score |-> 100]

MCValuations == {Sound, Strained}
MCAllValuations == {Sound, Strained, Unpriced}

Borrowed == [principal |-> 20, interest |-> 0, fees |-> 0]
Unborrowed == [principal |-> 0, interest |-> 0, fees |-> 0]

MCOpenings == {Borrowed}
MCAllOpenings == {Borrowed, Unborrowed}

MCReferences == {"draw", "payment"}

MCPayload ==
  [r \in References |->
     IF r = "draw"
     THEN [draw |-> 10, repay |-> 0, interest |-> 0, fee |-> 0, tick |-> TRUE]
     ELSE [draw |->  0, repay |-> 8, interest |-> 2, fee |-> 2, tick |-> FALSE]]

EveryKind == Kinds

(* Threads are interchangeable, and the concurrent runs check invariants only. *)
ThreadSymmetry == Permutations(Threads)

(* So are the accounts, of each other, in every property of the sequential   *)
(* run: its invariants and its action property.                              *)
AccountSymmetry == Permutations(Accounts)
=============================================================================
