-------------------------- MODULE HistoricalReplay --------------------------
(***************************************************************************)
(* HistoricalReplayEngine.replay (src/app/simulations/replay.py): one loan *)
(* is originated on a portfolio and followed through the observations of a *)
(* price history.  Each observation brings bars, charges interest, settles *)
(* what was sold, assesses the loan, and opens, cancels, executes or       *)
(* completes a recovery episode, in that order; phase is the loop's        *)
(* program counter.                                                        *)
(***************************************************************************)
EXTENDS RecoveryExecution

CONSTANTS
  Pledged,     (* lots of each asset the scenario starts with              *)
  Foreign,     (* assets quoted in another currency than the loan's        *)
  FreshBars,   (* [asset -> set of [price, volume]] a new bar may report   *)
  Conditions,  (* [ltv, recovery, score]: how the evaluator sees the market *)
  Gaps,        (* days from one observation to the next                    *)
  Scenarios,   (* [policy, stress, regime] a replay is run with            *)
  FlatLtv,     (* the conventional loan to value, in percent               *)
  MaxObservations (* bound: length of the history                          *)

ASSUME PledgedAssumption == Pledged \in [Assets -> Nat] /\ Foreign \subseteq Assets
ASSUME BarsAssumption == FreshBars \in [Assets -> SUBSET [price: Nat, volume: Nat]]
ASSUME ScenariosAssumption ==
  \A s \in Scenarios :
    /\ s.policy \in ExecutionPolicy
    /\ s.stress \in {"none", "halt", "stale", "missing_fx"}
    /\ s.regime \in {"common_exposure", "policy_origination"}
ASSUME ConditionsAssumption ==
  Conditions \subseteq [ltv: 0..100, recovery: 0..100, score: 0..100]
ASSUME GapsAssumption == Gaps \subseteq Nat \ {0}
ASSUME HistoryAssumption == MaxObservations \in Nat /\ FlatLtv \in 0..100

VARIABLES
  scenario,    (* what the replay was called with                          *)
  phase,       (* where in the loop the replay is                          *)
  index,       (* observation_index                                        *)
  bars,        (* latest bar of each asset, with its age in days           *)
  condition,   (* how the evaluator sees the market today                  *)
  holdings,    (* current_holdings                                         *)
  loan,        (* loans["dynamic"]                                         *)
  state,       (* the margin state of the last assessment                  *)
  episode,     (* active_episode                                           *)
  pending,     (* pending_settlements                                      *)
  outcome      (* the last episode that was closed                         *)

market == <<bars, condition>>
vars == <<scenario, phase, index, bars, condition, holdings, loan, state,
          episode, pending, outcome>>

policy == scenario.policy

Phases == {"feed", "settle", "assess", "trigger", "act", "done"}

NoEpisode ==
  [status |-> "none", action |-> "none", target |-> 0, wait |-> 0, orders |-> <<>>,
   attempts |-> 0, net |-> 0, settled |-> 0, loss |-> 0]

NoOutcome == [status |-> "none", action |-> "none", attempts |-> 0, residual |-> 0]

Order == [asset: Assets, quantity: Nat, limit: Nat]

(* Proceeds on their way: active while their episode is the active one.      *)
Settlement == [amount: Nat, wait: Nat, active: BOOLEAN]

TypeOK ==
  /\ scenario \in Scenarios
  /\ phase \in Phases
  /\ index \in 0..MaxObservations
  /\ \A a \in Assets : bars[a].price \in Nat /\ bars[a].volume \in Nat /\ bars[a].age \in Nat
  /\ condition \in Conditions
  /\ holdings \in [Assets -> Nat]
  /\ loan \in Loan
  /\ state \in MarginStates
  /\ episode.orders \in Seq(Order)
  /\ pending \in Seq(Settlement)
  /\ outcome.residual \in Nat

(* The scenario's stress spares the first observation.                       *)
Stress == IF index = 0 THEN "none" ELSE scenario.stress

(* lookup_fx_rate: the curves cover the history, so that only the stress     *)
(* leaves a currency without a rate.                                         *)
RateIsMissing(a) == Stress = "missing_fx" /\ a \in Foreign

(* apply_fx, convert_market_data_currency: the rate of the day is part of    *)
(* the price a fresh bar has; what no rate converts has no price and no bid. *)
ConvertedPrice(a) == IF RateIsMissing(a) THEN 0 ELSE bars[a].price

(* The quotes of an observation: its bars, converted, under stress.          *)
Quotes ==
  [a \in Assets |->
    [price  |-> ConvertedPrice(a),
     volume |-> bars[a].volume,
     age    |-> bars[a].age + (IF Stress = "stale" THEN 10 ELSE 0),
     halted |-> Stress = "halt"]]

Total(amounts) ==
  LET sum[n \in 0..Len(amounts)] == IF n = 0 THEN 0 ELSE sum[n - 1] + amounts[n]
  IN  sum[Len(amounts)]

MarketValue(lots) ==
  Total([i \in DOMAIN Listing |-> lots[Listing[i]] * Quotes[Listing[i]].price])

(* The evaluator's view of some holdings: halted assets count for nothing.   *)
ValuationOf(lots) ==
  LET value  == MarketValue(lots)
      usable == IF \E a \in Assets : Quotes[a].halted THEN 0 ELSE value
  IN  [value    |-> value,
       approved |-> (usable * condition.ltv) \div 100,
       stressed |-> (usable * condition.recovery) \div 100,
       score    |-> condition.score]

SoldOut(lots) == \A a \in Assets : lots[a] = 0

(* The margin state of an obligation.  Nothing pledged leaves it safe or in  *)
(* liquidation; so does an evaluation that fails for want of a rate.         *)
StateOf(lots, owed) ==
  IF SoldOut(lots) THEN (IF owed <= Cent THEN "safe" ELSE "liquidation")
  ELSE Once(ValuationOf(lots), LAMBDA v :
         IF Unassessable(v, owed) THEN "liquidation" ELSE MarginState(v, owed))

LimitOf(lots) ==
  IF SoldOut(lots) THEN 0 ELSE Once(ValuationOf(lots), SafeCreditLimit)

CureOf(lots, owed) ==
  IF SoldOut(lots) THEN 0
  ELSE Once(ValuationOf(lots), LAMBDA v : RepaymentOnlyCure(v, owed))

(* accrue_scheduled_periods: one accrual a day.                              *)
AccrueDays(start, days) ==
  LET after[n \in 0..days] ==
        IF n = 0 THEN start ELSE Once(after[n - 1], LAMBDA l : AccrueInterest(l, 1))
  IN  after[days]

(* The exposure of the first observation: a flat share of the value, or the  *)
(* engine's limit less a reserve for the interest of the recovery's delays.  *)
Originated ==
  LET p       == policy
      horizon == 1 + p.grace + p.delay + p.settlement
  IN  IF scenario.regime = "common_exposure"
      THEN (MarketValue(holdings) * FlatLtv) \div 100
      ELSE (LimitOf(holdings) * Cent) \div (Cent + Rate * horizon)

Init ==
  /\ scenario \in Scenarios
  /\ phase = "assess"
  /\ index = 0
  /\ bars \in {[a \in Assets |-> [price |-> fresh[a].price, volume |-> fresh[a].volume,
                                  age |-> 0]] :
               fresh \in {f \in [Assets -> UNION {FreshBars[a] : a \in Assets}] :
                            \A a \in Assets : f[a] \in FreshBars[a]}}
  /\ condition \in Conditions
  /\ holdings = Pledged
  /\ loan = [principal |-> Originated, interest |-> 0, fees |-> 0]
  /\ state = "safe"
  /\ episode = NoEpisode
  /\ pending = <<>>
  /\ outcome = NoOutcome

Countdown(wait) == Excess(wait, 1)

(* The next observation: new bars for some assets, the others carried       *)
(* forward; interest for the days since the last.                           *)
Observe ==
  /\ phase = "feed"
  /\ index < MaxObservations
  /\ \E days \in Gaps, updated \in (SUBSET Assets) \ {{}} :
       /\ \E fresh \in {f \in [updated -> UNION {FreshBars[a] : a \in Assets}] :
                          \A a \in updated : f[a] \in FreshBars[a]} :
            bars' = [a \in Assets |->
                      IF a \in updated
                      THEN [price |-> fresh[a].price, volume |-> fresh[a].volume, age |-> 0]
                      ELSE [bars[a] EXCEPT !.age = @ + days]]
       /\ loan' = AccrueDays(loan, days)
  /\ condition' \in Conditions
  /\ index' = index + 1
  /\ episode' = [episode EXCEPT !.wait = Countdown(@)]
  /\ pending' = [i \in DOMAIN pending |-> [pending[i] EXCEPT !.wait = Countdown(@)]]
  /\ phase' = "settle"
  /\ UNCHANGED <<scenario, holdings, state, outcome>>

(* What arrives today, for the active episode or for those closed before.    *)
Arriving(active) ==
  Total([i \in DOMAIN pending |->
          IF pending[i].wait = 0 /\ pending[i].active = active THEN pending[i].amount ELSE 0])

(* Faulty variant of StillPending: what settles today stays pending.         *)
StillPendingToday == pending

StillPending ==
  LET kept[n \in 0..Len(pending)] ==
        IF n = 0 THEN <<>>
        ELSE IF pending[n].wait > 0 THEN Append(kept[n - 1], pending[n])
        ELSE kept[n - 1]
  IN  kept[Len(pending)]

InTransit(settlements) ==
  Total([i \in DOMAIN settlements |->
          IF settlements[i].active THEN settlements[i].amount ELSE 0])

(* The settlements due pay fees, interest and principal, in the order they   *)
(* were raised; each counts for the episode that raised it.                  *)
SettlePending ==
  /\ phase = "settle"
  /\ LET earlier == ApplyRepayment(loan, Arriving(FALSE))
     IN  /\ loan' = ApplyRepayment(earlier, Arriving(TRUE))
         /\ episode' = [episode EXCEPT
              !.settled = @ + RoundMoney(Balance(earlier) - Balance(loan'))]
  /\ pending' = StillPending
  /\ phase' = "assess"
  /\ UNCHANGED <<scenario, index, market, holdings, state, outcome>>

Reached(raised) == raised + Cent >= episode.target

(* Faulty variant of Completed: what was raised counts, settled or not.      *)
CompletedWhenRaised == episode.status = "settling" /\ Reached(episode.net)

(* Faulty variant of Completed: without the cent the target was raised to.   *)
CompletedExactly == episode.status = "settling" /\ episode.settled >= episode.target

Completed == episode.status = "settling" /\ Reached(episode.settled)

Closed(status) ==
  [status |-> status, action |-> episode.action, attempts |-> episode.attempts,
   residual |-> RoundMoney(Balance(loan))]

(* Assess the loan; an episode whose proceeds have settled is complete.      *)
Assess ==
  /\ phase = "assess"
  /\ state' = StateOf(holdings, Balance(loan))
  /\ IF Completed
     THEN /\ episode' = NoEpisode
          /\ outcome' = Closed(IF Balance(loan) <= Cent THEN "fully_recovered"
                               ELSE "cure_settled")
          /\ pending' = [i \in DOMAIN pending |-> [pending[i] EXCEPT !.active = FALSE]]
     ELSE UNCHANGED <<episode, outcome, pending>>
  /\ phase' = "trigger"
  /\ UNCHANGED <<scenario, index, market, holdings, loan>>

(* The episode an alarm opens: all that is owed on a forced liquidation, or  *)
(* what restores the coverage and the limit; and the interest until settled. *)
Forced == state = "liquidation" /\ policy.full

Delay == IF state = "liquidation" THEN policy.delay ELSE policy.grace

RecoveryTarget ==
  LET owed   == Balance(loan)
      needed == IF Forced THEN owed
                ELSE Larger(CureOf(holdings, owed), Excess(owed, LimitOf(holdings)))
  IN  Least(needed, owed) + ProjectedInterestBuffer(loan, Delay + policy.settlement)

NewEpisode(target) ==
  [NoEpisode EXCEPT
    !.status = "scheduled",
    !.action = IF Forced THEN "full_recovery" ELSE "restore_coverage",
    !.target = RoundMoney(target),
    !.wait   = Delay,
    !.orders = BuildRecoveryAdvisory(holdings, Quotes, target, policy)]

(* Faulty variant of Alarmed: only a margin call opens an episode.           *)
AlarmedByCall == Balance(loan) > Cent /\ state = "margin_call"

Alarmed == Balance(loan) > Cent /\ state \in AlarmStates

TriggerEpisode ==
  /\ phase = "trigger"
  /\ IF episode.status = "none" /\ Alarmed
     THEN \E target \in {RecoveryTarget} : \E opened \in {NewEpisode(target)} :
            episode' = opened
     ELSE UNCHANGED episode
  /\ phase' = "act"
  /\ UNCHANGED <<scenario, index, market, holdings, loan, state, pending, outcome>>

Cancelled ==
  /\ episode.action = "restore_coverage"
  /\ state \notin AlarmStates
  /\ episode.attempts = 0

(* A call that cures itself in its grace period is cancelled.                *)
CancelEpisode ==
  /\ phase = "act"
  /\ Cancelled
  /\ episode' = NoEpisode
  /\ outcome' = Closed("cancelled_after_recovery")
  /\ phase' = "feed"
  /\ UNCHANGED <<scenario, index, market, holdings, loan, state, pending>>

Due == episode.status \in {"scheduled", "executing"} /\ episode.wait = 0

(* Faulty variant of NextStatus: one attempt more than the policy grants.    *)
NextStatusOneMore(net) ==
  IF Reached(net) THEN "settling"
  ELSE IF episode.attempts + 1 > policy.attempts THEN "failed"
  ELSE "executing"

NextStatus(net) ==
  IF Reached(net) THEN "settling"
  ELSE IF episode.attempts + 1 >= policy.attempts THEN "failed"
  ELSE "executing"

(* One attempt at the orders; its proceeds settle later.  A failed episode   *)
(* realizes a loss when nothing is left to sell and nothing is in transit.   *)
ExecuteEpisode ==
  /\ phase = "act"
  /\ Due
  /\ ~Cancelled
  /\ \E sale \in {ExecuteRecoveryAdvisory(holdings, Quotes, episode.orders,
                    Excess(episode.target, episode.net), policy)} :
       LET net     == episode.net + sale.proceeds
           failed  == NextStatus(net) = "failed"
           transit == IF sale.proceeds = 0 THEN pending
                      ELSE Append(pending, [amount |-> sale.proceeds,
                                            wait |-> policy.settlement, active |-> TRUE])
       IN  /\ holdings' = sale.holdings
           /\ pending' = transit
           /\ state' = StateOf(sale.holdings, Balance(loan))
           /\ episode' = [episode EXCEPT
                !.attempts = @ + 1,
                !.net      = net,
                !.status   = NextStatus(net),
                !.loss     = IF failed /\ SoldOut(sale.holdings) /\ transit = <<>>
                             THEN RoundMoney(Balance(loan)) ELSE @]
           /\ outcome' = IF failed THEN [Closed("failed") EXCEPT !.attempts = @ + 1]
                         ELSE outcome
  /\ phase' = "feed"
  /\ UNCHANGED <<scenario, index, market, loan>>

Wait ==
  /\ phase = "act"
  /\ ~Cancelled
  /\ ~Due
  /\ phase' = "feed"
  /\ UNCHANGED <<scenario, index, market, holdings, loan, state, episode, pending, outcome>>

(* Faulty variant of Unresolved: a settling episode is taken for resolved.   *)
UnresolvedUnsold == {"scheduled", "executing"}

Unresolved == {"scheduled", "executing", "settling"}

(* The history is exhausted: an open episode stays unresolved.               *)
EndReplay ==
  /\ phase = "feed"
  /\ IF episode.status \in Unresolved
     THEN /\ episode' = [episode EXCEPT
               !.status = "unresolved_at_replay_end",
               !.loss   = IF SoldOut(holdings) /\ pending = <<>>
                          THEN RoundMoney(Balance(loan)) ELSE @]
          /\ outcome' = Closed("unresolved_at_replay_end")
     ELSE UNCHANGED <<episode, outcome>>
  /\ phase' = "done"
  /\ UNCHANGED <<scenario, index, market, holdings, loan, state, pending>>

Next ==
  \/ Observe
  \/ SettlePending
  \/ Assess
  \/ TriggerEpisode
  \/ CancelEpisode
  \/ ExecuteEpisode
  \/ Wait
  \/ EndReplay

(* The replay is one loop over a finite history: it runs to its end.         *)
Spec == Init /\ [][Next]_vars /\ WF_vars(Next)

-----------------------------------------------------------------------------
(* The episode and the money it raises, as RecoveryProtocol sees them.       *)
Protocol == INSTANCE RecoveryProtocol WITH
  Tolerance   <- Cent,
  allowed     <- Larger(1, policy.attempts),
  status      <- episode.status,
  attempts    <- episode.attempts,
  target      <- episode.target,
  net         <- episode.net,
  transit     <- InTransit(pending),
  settled     <- episode.settled,
  debt        <- Balance(loan)

(* Whatever is sold, an episode follows the recovery protocol.               *)
RecoverySpec == Protocol!Spec

(* The money an episode raises is on its way or taken off the loan, and its  *)
(* status says which: settling means the target was raised, failed that      *)
(* every attempt was used in vain.                                           *)
MoneyIsAccountedFor == Protocol!MoneyIsAccountedFor

(* No alarm goes unanswered: when an observation is over, an obligation in   *)
(* alarm has a recovery episode.                                             *)
AlarmIsAnswered ==
  phase = "feed" /\ Balance(loan) > Cent /\ state \in AlarmStates
    => episode.status # "none"

(* An episode that has raised its target never waits for money that is not   *)
(* on its way: it is completed as soon as the last of it has settled.        *)
SettlingAwaitsMoney ==
  phase \in {"trigger", "act", "feed"} /\ episode.status = "settling"
    => InTransit(pending) > 0 \/ episode.target <= Cent

(* No more is taken from the collateral than the target, but for the         *)
(* rounding of each fill to the cent.                                        *)
RecoveryIsBounded ==
  episode.net <= episode.target + Cent * Len(Listing) * episode.attempts

(* Money on its way to the loan belongs to the active episode: one that is   *)
(* closed leaves no more than the cent its target may be short of.           *)
ProceedsHaveAnEpisode ==
  /\ episode.status = "none" => InTransit(pending) = 0
  /\ \A i \in DOMAIN pending : ~pending[i].active => pending[i].amount <= Cent

(* Every episode is closed in the end, with its residual obligation.         *)
EveryEpisodeIsClosed ==
  episode.status \in {"scheduled", "executing", "settling"}
    ~> episode.status \in {"none", "failed", "unresolved_at_replay_end"}
=============================================================================
