------------------------- MODULE MCHistoricalReplay -------------------------
(***************************************************************************)
(* Small instances of HistoricalReplay: two assets, one of them foreign,   *)
(* prices that halve, volumes that do not suffice, weekends.               *)
(***************************************************************************)
EXTENDS HistoricalReplay, TLC

CONSTANTS a1, a2

MCListing == <<a1, a2>>
MCPledged == (a1 :> 20) @@ (a2 :> 10)
MCForeign == {a2}

MCFreshBars ==
  (a1 :> {[price |-> 20, volume |-> 50], [price |-> 10, volume |-> 50],
          [price |-> 10, volume |-> 6]}) @@
  (a2 :> {[price |-> 20, volume |-> 4]})

MCConditions == {[ltv |-> 70, recovery |-> 90, score |-> 0]}

Patient ==
  [grace |-> 1, delay |-> 0, settlement |-> 1, attempts |-> 3,
   cost |-> 10, slippage |-> 40, maxAge |-> 3, full |-> TRUE]
Hasty ==
  [Patient EXCEPT !.grace = 0, !.settlement = 0, !.attempts = 0, !.full = FALSE]
Slow ==
  [Patient EXCEPT !.delay = 1, !.settlement = 2, !.attempts = 2, !.slippage = 60]

MCScenarios ==
  {[policy |-> p, stress |-> "none", regime |-> "policy_origination"] :
     p \in {Patient, Hasty, Slow}}
  \cup {[policy |-> Slow, stress |-> s, regime |-> "common_exposure"] :
          s \in {"halt", "stale", "missing_fx"}}
=============================================================================
