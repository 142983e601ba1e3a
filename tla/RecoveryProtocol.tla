-------------------------- MODULE RecoveryProtocol --------------------------
(***************************************************************************)
(* What the recovery of one loan from its collateral promises, whatever is *)
(* sold and at what price: an episode is opened for an obligation, is      *)
(* cancelled or executed in no more attempts than allowed, and the money it*)
(* raises is in transit until it is settled against the obligation.        *)
(* HistoricalReplay implements it.                                         *)
(***************************************************************************)
EXTENDS Integers

CONSTANT
  Tolerance    (* the cent within which a target counts as reached         *)

VARIABLES
  allowed,     (* attempts the lender's policy grants an episode, at least 1 *)
  status,      (* of the episode                                           *)
  attempts,    (* executions so far                                        *)
  target,      (* net recovery the episode is to raise                     *)
  net,         (* net proceeds raised so far                               *)
  transit,     (* part of net not yet settled                              *)
  settled,     (* what settlements took off the obligation                 *)
  debt         (* the obligation                                           *)

episodeVars == <<status, attempts, target, net, transit, settled>>
vars == <<allowed, status, attempts, target, net, transit, settled, debt>>

Statuses ==
  {"none", "scheduled", "executing", "settling", "failed", "unresolved_at_replay_end"}

TypeOK ==
  /\ allowed \in Nat \ {0}
  /\ status \in Statuses
  /\ attempts \in Nat
  /\ target \in Nat
  /\ net \in Nat
  /\ transit \in Nat
  /\ settled \in Nat
  /\ debt \in Nat

Cleared ==
  /\ status' = "none"
  /\ attempts' = 0
  /\ target' = 0
  /\ net' = 0
  /\ transit' = 0
  /\ settled' = 0
  /\ UNCHANGED <<allowed, debt>>

Init ==
  /\ allowed \in Nat \ {0}
  /\ status = "none"
  /\ attempts = 0
  /\ target = 0
  /\ net = 0
  /\ transit = 0
  /\ settled = 0
  /\ debt \in Nat

(* The obligation bears interest; one that is paid off stays paid off.      *)
Accrue ==
  /\ debt > 0
  /\ debt' \in Nat
  /\ debt' >= debt
  /\ UNCHANGED <<allowed, episodeVars>>

(* Proceeds of an episode that is closed already pay the obligation, too.    *)
PayEarlier ==
  /\ debt' \in Nat
  /\ debt' < debt
  /\ UNCHANGED <<allowed, episodeVars>>

Open ==
  /\ status = "none"
  /\ debt > 0
  /\ status' = "scheduled"
  /\ target' \in Nat
  /\ UNCHANGED <<allowed, attempts, net, transit, settled, debt>>

Cancel ==
  /\ status = "scheduled"
  /\ Cleared

Reached(raised) == raised + Tolerance >= target

(* An attempt raises some money, perhaps none, and decides what follows.    *)
Attempt ==
  /\ status \in {"scheduled", "executing"}
  /\ net' \in Nat
  /\ net' >= net
  /\ transit' = transit + (net' - net)
  /\ attempts' = attempts + 1
  /\ status' = IF Reached(net') THEN "settling"
               ELSE IF attempts' >= allowed THEN "failed"
               ELSE "executing"
  /\ UNCHANGED <<allowed, target, settled, debt>>

(* Money arrives.  Only an obligation it pays off takes less than all of it. *)
Settle ==
  /\ transit' \in Nat
  /\ transit' < transit
  /\ settled' \in Nat
  /\ settled' >= settled
  /\ settled' - settled <= transit - transit'
  /\ debt' \in Nat
  /\ debt' <= debt
  /\ debt' > 0 => settled' - settled = transit - transit'
  /\ UNCHANGED <<allowed, status, attempts, target, net>>

Complete ==
  /\ status = "settling"
  /\ Reached(settled)
  /\ Cleared

EndReplay ==
  /\ status \in {"scheduled", "executing", "settling"}
  /\ status' = "unresolved_at_replay_end"
  /\ UNCHANGED <<allowed, attempts, target, net, transit, settled, debt>>

Next ==
  \/ Accrue
  \/ PayEarlier
  \/ Open
  \/ Cancel
  \/ Attempt
  \/ Settle
  \/ Complete
  \/ EndReplay

Spec == Init /\ [][Next]_vars

-----------------------------------------------------------------------------
(* No money an episode raises is lost on its way to the loan: what was       *)
(* raised has been settled or is in transit, until the loan is paid off.     *)
ProceedsReachTheLoan ==
  /\ settled + transit <= net
  /\ debt > 0 => settled + transit = net

(* The status tells the truth about the money: settling means the target was *)
(* raised, executing and failed mean it was not, a failure that every        *)
(* attempt was used.                                                         *)
StatusMatchesMoney ==
  /\ status = "none" => net = 0 /\ attempts = 0
  /\ status = "scheduled" => net = 0 /\ attempts = 0
  /\ status = "settling" => Reached(net)
  /\ status \in {"executing", "failed"} => ~Reached(net)
  /\ status = "executing" => attempts < allowed
  /\ status = "failed" => attempts = allowed
  /\ attempts <= allowed

MoneyIsAccountedFor == ProceedsReachTheLoan /\ StatusMatchesMoney

(* An episode closed as settled has taken its target off the loan.           *)
NothingIsClosedUnsettled ==
  [][ status = "settling" /\ status' = "none" => settled + Tolerance >= target ]_vars
=============================================================================
