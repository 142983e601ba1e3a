----------------------- MODULE RecoveryProtocolProofs -----------------------
(***************************************************************************)
(* The recovery of a loan from its collateral accounts for its money, for  *)
(* any obligation, number of attempts, proceeds and settlement dates.      *)
(***************************************************************************)
EXTENDS RecoveryProtocol, TLAPS

(* What is proved is inductive with the types alone: the status of an        *)
(* episode and its money say enough about each other.                        *)
ProtocolInv == TypeOK /\ MoneyIsAccountedFor

(* No episode, no money.                                                     *)
LEMMA ProtocolInitInv == Init => ProtocolInv
BY DEF Init, ProtocolInv, TypeOK, Statuses, MoneyIsAccountedFor, ProceedsReachTheLoan,
       StatusMatchesMoney, Reached

(* Arithmetic of what is raised and of what arrives.                         *)
LEMMA RaisedAdds ==
  ASSUME NEW s \in Nat, NEW t \in Nat, NEW n \in Nat, NEW raised \in Nat, raised >= n
  PROVE  /\ t + (raised - n) \in Nat
         /\ s + t <= n => s + (t + (raised - n)) <= raised
         /\ s + t = n => s + (t + (raised - n)) = raised
OBVIOUS

LEMMA ArrivedMoves ==
  ASSUME NEW s \in Nat, NEW t \in Nat, NEW n \in Nat, NEW sn \in Nat, NEW tn \in Nat,
         sn - s <= t - tn
  PROVE  /\ s + t <= n => sn + tn <= n
         /\ s + t = n /\ sn - s = t - tn => sn + tn = n
OBVIOUS

(* The steps that open and close an episode.                                 *)
LEMMA OpenOrCloseKeeps ==
  ASSUME ProtocolInv, Open \/ Cancel \/ Complete
  PROVE  ProtocolInv'
<1> USE DEF ProtocolInv, TypeOK, MoneyIsAccountedFor, ProceedsReachTheLoan,
            StatusMatchesMoney, Reached, Statuses
<1>1. CASE Open
  BY <1>1 DEF Open
<1>2. CASE Cancel
  BY <1>2 DEF Cancel, Cleared
<1>3. CASE Complete
  BY <1>3 DEF Complete, Cleared
<1>. QED BY <1>1, <1>2, <1>3

(* An attempt raises money that is in transit, and tells by its status       *)
(* whether the target was reached.                                           *)
LEMMA AttemptKeeps ==
  ASSUME ProtocolInv, Attempt
  PROVE  ProtocolInv'
<1>1. /\ net' \in Nat /\ net' >= net /\ transit' = transit + (net' - net)
      /\ attempts' = attempts + 1
      /\ UNCHANGED <<allowed, target, settled, debt>>
      /\ status \in {"scheduled", "executing"}
      /\ status' = IF Reached(net') THEN "settling"
                   ELSE IF attempts' >= allowed THEN "failed" ELSE "executing"
  BY DEF Attempt
<1>0. net' \in Nat /\ net' >= net
  BY <1>1
<1>2. /\ allowed \in Nat /\ allowed # 0 /\ attempts \in Nat /\ target \in Nat
      /\ net \in Nat /\ transit \in Nat /\ settled \in Nat /\ debt \in Nat
  BY DEF ProtocolInv, TypeOK
<1>3. TypeOK'
  <2>1. PICK raised \in Nat : raised = net'
    BY <1>0
  <2>2. transit + (raised - net) \in Nat
    BY <1>0, <1>2, <2>1, RaisedAdds
  <2>3. attempts' \in Nat
    BY <1>1, <1>2
  <2>4. status' \in Statuses
    BY <1>1 DEF Statuses
  <2>. QED BY <1>1, <1>2, <2>1, <2>2, <2>3, <2>4 DEF TypeOK
<1>4. ProceedsReachTheLoan'
  <2>1. settled + transit <= net /\ (debt > 0 => settled + transit = net)
    BY DEF ProtocolInv, MoneyIsAccountedFor, ProceedsReachTheLoan
  <2>2. PICK raised \in Nat : raised = net'
    BY <1>0
  <2>3. raised >= net
    BY <1>0, <2>2
  <2>4. settled + (transit + (raised - net)) <= raised
    BY <1>2, <2>1, <2>3, RaisedAdds
  <2>5. debt > 0 => settled + (transit + (raised - net)) = raised
    BY <1>2, <2>1, <2>3, RaisedAdds
  <2>6. settled' = settled /\ debt' = debt /\ transit' = transit + (raised - net)
    BY <1>1, <2>2
  <2>. QED BY ONLY <2>2, <2>4, <2>5, <2>6 DEF ProceedsReachTheLoan
<1>5. StatusMatchesMoney'
  <2>1. attempts < allowed
    BY <1>1, <1>2 DEF ProtocolInv, MoneyIsAccountedFor, StatusMatchesMoney
  <2>2. Reached(net)' <=> Reached(net')
    BY <1>1 DEF Reached
  <2>. QED BY <1>1, <1>2, <2>1, <2>2 DEF StatusMatchesMoney
<1>. QED BY <1>3, <1>4, <1>5 DEF ProtocolInv, MoneyIsAccountedFor

(* Money that arrives is taken off the obligation, interest is added to it;  *)
(* the end of the replay leaves the money where it is.  What an episode      *)
(* closed earlier pays can only pay the loan off sooner.                     *)
LEMMA OthersKeep ==
  ASSUME ProtocolInv, Accrue \/ PayEarlier \/ Settle \/ EndReplay \/ UNCHANGED vars
  PROVE  ProtocolInv'
<1>1. CASE Accrue
  BY <1>1 DEF Accrue, episodeVars, ProtocolInv, TypeOK, MoneyIsAccountedFor,
              ProceedsReachTheLoan, StatusMatchesMoney, Reached
<1>2. CASE Settle
  <2>1. /\ UNCHANGED <<allowed, status, attempts, target, net>>
        /\ transit' \in Nat /\ transit' < transit
        /\ settled' \in Nat /\ debt' \in Nat /\ debt' <= debt
        /\ settled' - settled <= transit - transit'
        /\ debt' > 0 => settled' - settled = transit - transit'
    BY <1>2 DEF Settle
  <2>2. TypeOK'
    BY <2>1 DEF ProtocolInv, TypeOK
  <2>3. transit \in Nat /\ settled \in Nat /\ debt \in Nat /\ net \in Nat
    BY DEF ProtocolInv, TypeOK
  <2>4. ProceedsReachTheLoan'
    <3>1. settled + transit <= net /\ (debt > 0 => settled + transit = net)
      BY DEF ProtocolInv, MoneyIsAccountedFor, ProceedsReachTheLoan
    <3>2. PICK s \in Nat, t \in Nat, d \in Nat : s = settled' /\ t = transit' /\ d = debt'
      BY <2>1
    <3>3. /\ s - settled <= transit - t
          /\ d <= debt
          /\ d > 0 => s - settled = transit - t
      BY <2>1, <3>2
    <3>4. /\ s + t <= net
          /\ d > 0 => s + t = net
      BY <2>3, <3>1, <3>3, ArrivedMoves
    <3>5. net' = net
      BY <2>1
    <3>. QED BY ONLY <3>2, <3>4, <3>5 DEF ProceedsReachTheLoan
  <2>5. StatusMatchesMoney'
    BY <2>1 DEF ProtocolInv, MoneyIsAccountedFor, StatusMatchesMoney, Reached
  <2>. QED BY <2>2, <2>4, <2>5 DEF ProtocolInv, MoneyIsAccountedFor
<1>3. CASE EndReplay
  BY <1>3 DEF EndReplay, ProtocolInv, TypeOK, MoneyIsAccountedFor,
              ProceedsReachTheLoan, StatusMatchesMoney, Statuses
<1>4. CASE UNCHANGED vars
  BY <1>4 DEF vars, episodeVars, ProtocolInv, TypeOK, MoneyIsAccountedFor,
              ProceedsReachTheLoan, StatusMatchesMoney, Reached
<1>5. CASE PayEarlier
  BY <1>5 DEF PayEarlier, episodeVars, ProtocolInv, TypeOK, MoneyIsAccountedFor,
              ProceedsReachTheLoan, StatusMatchesMoney, Reached
<1>. QED BY <1>1, <1>2, <1>3, <1>4, <1>5

LEMMA ProtocolInductive == ProtocolInv /\ [Next]_vars => ProtocolInv'
BY OpenOrCloseKeeps, AttemptKeeps, OthersKeep DEF Next

(* Of the recovery of any loan: no money is lost between a sale and the      *)
(* loan, and the status of the episode tells the truth about it.             *)
THEOREM RecoveryAccountsForMoney == Spec => []MoneyIsAccountedFor
<1>1. ProtocolInv => MoneyIsAccountedFor
  BY DEF ProtocolInv
<1>. QED BY <1>1, ProtocolInitInv, ProtocolInductive, PTL DEF Spec

(* An episode is closed as settled only with its target taken off the loan.  *)
THEOREM NoEpisodeIsClosedUnsettled == Spec => NothingIsClosedUnsettled
<1>1. ProtocolInv /\ [Next]_vars =>
        [status = "settling" /\ status' = "none" => settled + Tolerance >= target]_vars
  <2> SUFFICES ASSUME ProtocolInv, Next, status = "settling", status' = "none"
               PROVE  settled + Tolerance >= target
    OBVIOUS
  <2>1. CASE Complete
    BY <2>1 DEF Complete, Reached
  <2>2. CASE Accrue \/ PayEarlier \/ Settle
    BY <2>2 DEF Accrue, PayEarlier, Settle, episodeVars
  <2>3. CASE Open \/ Cancel \/ Attempt \/ EndReplay
    BY <2>3 DEF Open, Cancel, Attempt, EndReplay
  <2>. QED BY <2>1, <2>2, <2>3 DEF Next
<1>2. Spec => []ProtocolInv
  BY ProtocolInitInv, ProtocolInductive, PTL DEF Spec
<1>. QED BY <1>1, <1>2, PTL DEF Spec, NothingIsClosedUnsettled
=============================================================================
