# Formal model of the Collateral Risk Engine

TLA+ specifications of the Collateral Risk Engine (CRI, `src/app`), TLC
configurations that check them on small instances, and TLAPS proofs of the
properties that matter most. Paths below are relative to `src/app`;
`README.md` and `MODEL_SPEC.md` are those of the repository.

- [1. The system](#1-the-system)
- [2. The modules](#2-the-modules)
- [3. What is checked](#3-what-is-checked)
- [4. Where the code and its documentation part](#4-where-the-code-and-its-documentation-part)
- [5. What is proved](#5-what-is-proved)
- [6. What is not modelled](#6-what-is-not-modelled)
- [7. Observations and limits](#7-observations-and-limits)

## 1. The system

CRI values a pledged portfolio, derives a credit limit and a margin state from
it, answers a lender's questions about draws, repayments and portfolio actions,
monitors registered accounts as prices move and interest accrues, and replays
price histories in which an alarm leads to the sale of collateral. It is a
FastAPI application with in-memory repositories. Its handlers are plain
functions, so FastAPI runs them concurrently in a thread pool; there is no
background worker and no persistence besides an append-only audit file.

| Component | State | Operations | Correct when | Hard because |
|---|---|---|---|---|
| Loan accounting (`credit/interest.py`, `core/models.py`) | none | accrue, repay, round | a repayment lowers the balance by exactly what is paid; interest accrues whatever the calling rhythm | rounding to cents at every call |
| Risk evaluator (`core/evaluator.py`, `liquidation/plan.py`, `risk/adjustments.py`) | none | evaluate, pre-trade check, liquidation plan | severity grows with the balance; a cure cures; a plan raises its target | six thresholds of two kinds; assets coupled by concentration |
| Lifecycle engine (`lifecycle/service.py`) | none; the lender carries the account between calls | originate, check_draw, monitor, check_portfolio_action | what it offers it also approves; what it approves is safe | two definitions of "safe", one rounded; projections of fills, costs and cash |
| Monitoring service (`monitoring/service.py`) | none of its own | register, loan update, tick, tick all, market-data update, status, delete | each is one indivisible operation on the account; an alarm is announced; a reference applies once | get, compute, save without a lock; several stores written in sequence; rollback by deletion |
| Account repository (`monitoring/repositories.py`) | record per reference, lock | save, update, get, delete, list | copies in and out; last write wins | the lock covers one call, not a read and the write that depends on it |
| Event repository (`monitoring/repositories.py`) | event list, ids, dedupe keys, lock | append, update audit id, get, list | a repeated key inside its window is stored once, news is never dropped | time window; events are appended in another order than they are built |
| Market-data cache (`monitoring/market_updates.py`) | quotes under several keys, FX rates, symbols | merge, snapshot | a name shows the quote that arrived last under it; an ambiguous symbol shows none | arrival order, ambiguous symbols, shared asset ids, keys nobody checks |
| Aggregation, FX, quality (`market_data/*`) | none | normalize, select_rate | what has no price or rate supports nothing; a halt is not forgotten | fallbacks between sources, ages, inverse rates |
| Liquidation advisory and execution (`liquidation/*`) | none | advisory, execution | recovers the target within limits | participation, price limits, halts, repeated attempts |
| Replay (`simulations/replay.py`) | loan, holdings, episode, pending settlements | one step per observation | every episode ends; proceeds reach the loan | long protocol over many observations |
| Scheduler (`monitoring/scheduler.py`) | none | next_check_after | nothing reads its result | no worker exists |
| Audit log (`audit/logger.py`) | a file | write | | every write can raise, between two effects of a handler |

**Interaction.** A request enters through `api/routes.py` and calls the
monitoring service. The service reads a copy of the account from the account
repository, asks the aggregator for market data (account quotes overlaid by the
cache), calls the lifecycle engine, which calls the evaluator, writes the copy
back, writes the audit file and appends events to the event repository.
Requests share four things: the account repository, the event repository, the
cache and the audit file. The replay shares no state with the service; it calls
the same evaluator, interest functions and liquidation functions in a loop.

## 2. The modules

```
LoanAccounting            arithmetic of one loan (operators)
  CollateralRisk          margin state, limit, draw decision, cure (operators)
    CreditLifecycle         a lender and the stateless engine (specification)
    MonitoredAccount        what each operation makes of one record (operators)
      AccountBook             what the store promises (abstract specification)
      MonitoringService       concurrent requests on the store (specification;
                              implements AccountBook for one request at a time)
    CollateralValuation     assets, portfolio, risk score, plan (operators)
      PortfolioActions        checked and booked actions, two gates (specification)
    RecoveryExecution       advisory and one execution attempt (operators)
      HistoricalReplay        the replay's loop (specification; implements
                              RecoveryProtocol)
RecoveryProtocol          what a recovery promises (abstract specification)
LatestQuotes              a board of latest quotes (abstract specification)
MarketDataCache           keys, symbols, lookup (specification; implements
                          LatestQuotes)
  MarketData                sources, ages, rates, quality, affected accounts
EventRepository           append, window, audit ids (specification)
  MonitoringEvents          overlapping ticks that publish through it
```

Each specification has an `MC...` module that gives its constants small values.
Proofs are in `CollateralRiskProofs`, `CreditLifecycleProofs`,
`MonitoringServiceProofs`, `MarketDataProofs`, `MonitoringEventsProofs`,
`RecoveryProtocolProofs`, `HistoricalReplayProofs` and `PortfolioActionsProofs`.
Sums and loops over sequences and sets are recursive functions, so that they can
be proved about: the provers do not see into `FoldLeft`, `SelectSeq` or `SortSeq`.
Operators whose comment begins "Faulty variant of" are not used by any
specification: each is the definition it names with one plausible mistake, kept
to show that a property notices it.

**LoanAccounting.** Money is a natural number of units, `Cent` of them to a
cent, so that what `round(x, 2)` throws away can be seen. Amounts a client
reports are whole cents in the instances. `RoundQuotient` rounds to the nearest
cent, ties to the even one. `Rate` is the interest of one cent of principal per
unit of time; day-count conventions are abstracted to elapsed time.
The repayment waterfall is `ApplyRepayment`. The code has two (one in
`credit/interest.py`, one in `lifecycle/service.py`, which also rounds); both
are used where the code uses them.

**CollateralRisk.** A `Valuation` is market value, credit limit after haircuts,
stressed liquidation value and risk score. The evaluator computes all four from
holdings and quotes only, never from the loan; `CreditLifecycle` and
`MonitoringService` take it as an input, `PortfolioActions` computes it and
`HistoricalReplay` derives it from prices. From it and a balance follow the four
trigger levels, the margin state, the safe credit limit, the
draw decision and the cure, with the code's constants in ten-thousandths and
per cent of risk score.

**CreditLifecycle.** The engine is stateless, so the state is the lender's: the
loan as it will report it next, what the collateral is worth, and the last
answer. `Originate`, `CheckDraw` and `Monitor` are the engine's operations, with
the calls that raise disabled; `Repay`, `Accrue` and `Revalue` happen between
the calls. An amount the engine quoted can be asked for or paid exactly.

**MonitoredAccount.** The stored record and, as pure operators, what each
operation makes of a record: `Registered`, `Posted` (a loan update),
`Assessed` (a tick). `Account` has five fields of the code's record (status,
loan, last margin state, accrual clock, processed references). Four history
fields, carried with every copy, say where a copy came from and what has been
done to it.

**AccountBook** is the abstract specification: each operation takes one account
from its current record to the next in one step.

**MonitoringService** is the code's interleaving. `req[t]` is what thread `t` is
doing: its point in the handler, the copy it read (`snap`), the copy it will
write (`draft`). A step ends where the next one would read or write something
shared, so a step is as large as it can be without hiding an interleaving:

| Request | Steps |
|---|---|
| register | `Register` (save) → evaluate; on failure `RollBack` (delete) |
| loan update | `BeginUpdate` (get, known reference) → `DecideUpdate` (settle, check draw) → `PostUpdate` (update, audit) → `RecordUpdate` (event) → evaluate if asked |
| tick | `BeginTick` → evaluate |
| evaluate | `BeginEvaluate` (get) → `Assess` (accrue, value, monitor) → `SaveAssessment` (update, audit) → `Notify` (events) → `Finish` |
| tick all | `BeginTickAll` → `FanOut` (list active) → evaluate each |
| market data | `Publish` (merge into cache) → `FanOut` (accounts holding it) → evaluate each |
| status | `BeginStatus` (get) → `SaveStatus` (update) |
| delete | `Delete` |

Every audit write may raise when `AuditCanFail`; the step then continues as the
code's handlers of the exception do. `Assess` stores nothing when the evaluation
raises (nothing priced and nothing owed, or an audit write of the engines);
`SaveAssessment` and `Notify` have already stored the record when they fail.
`entered` is history: the alarm states the stored record entered, in order.

Simplifications: accounts hold one common portfolio, so one `market` variable is
what the cached quotes make it worth and every account is affected by a market
update; the accounts of a batch are evaluated in any order, a superset of the
code's; and of the events the service builds, those about data quality and missing rates
are in `MonitoringEvents` and the one about available credit is left out. A repeated dedupe key of a balance or error
event may or may not be stored again, since whether its TTL has passed is not
modelled; keys of assessment events carry the time of the tick and never repeat.

**CollateralValuation.** `evaluate` asset by asset: resolution of quotes,
eligibility, concentration and data-quality adjustments, caps, portfolio score,
and the orders of the liquidation plan. What volatility, liquidity, spread and
stress leave of one quote's value is a real-valued function of that quote and is
given with it (`kept`, `recovered`, `slippage`). Rates are whole percentages. The
plan goes through the holdings in the order of their scores, a `Ranking` of them.

**PortfolioActions.** A borrower proposes sales, purchases (paid from pledged
cash, by a draw or from outside), withdrawals, transfers, repayments, draws and
rebalances. `Projected` is `_project_portfolio_action`: a set, empty when the
code raises. `CheckPortfolioAction` evaluates the projection, decides, and the
lender books what passes; `Revalue` moves the market between calls.
`EngineAnswer` is the older gate, `CollateralRiskEngine.pre_trade_check`, with
its own projection (`EngineStep`), keys and decision. An amount is what the
borrower states (`StatedCash`); the lifecycle check rounds it to the cent
(`CashAmount`), the older gate does not. Both gates evaluate before they decide,
and `evaluate` raises on an empty portfolio, or on a worthless one without a
debt (`Assessable`); the answer is then `"refused"`. Pledged cash is a holding
of its own in an evaluation; `MarketWithCash` gives it a quote at par unless the
client sent one, which the code keeps.

**RecoveryExecution, HistoricalReplay.** `phase` is the program counter of the
replay's loop and each phase one action: `Observe` (bars, daily interest, days
pass), `SettlePending`, `Assess` (and complete a settled episode),
`TriggerEpisode` (target and advisory of a new episode), then one of
`CancelEpisode`, `ExecuteEpisode` and `Wait`; `EndReplay` closes what is open.
The order is that of the code, and fixed. A settlement is `active` while its
episode is the active one; what an earlier episode still has on its way pays the
loan first and counts for no episode. Holdings are whole lots. A stress
(halt, stale bars, missing rate) applies after the first observation. The rate
of the day is part of the price a fresh bar has.

**RecoveryProtocol** keeps of this only the episode's status, its attempts and
where its money is. `HistoricalReplay` maps to it with `transit` the sum of the
pending settlements and `allowed` the policy's attempts, at least one.

**MarketDataCache, MarketData.** An instrument has an asset id, a symbol and a
stable key, all of them free text: instruments may share any, and the key a
request comes under is checked against none of them. `Merge` files a quote under
asset id, stable key and request key, and under the symbol unless several
listings were published under that; the symbol then loses its entry. `Lookup`
tries asset id, stable key and symbol, and takes whatever quote is filed there
for the holder's own. `latest` (per name) and `published` are history.
`MarketData` adds the rates, a provider whose answers change, and time; `View`
is what one evaluation reads, and `ChooseQuote`, `SelectRate`, `Normalized` and
`Supports` follow the aggregator, the FX selector, the normalizer and the
evaluator's eligibility test for accounts of each data mode.
`AffectedByQuote` and `AffectedByRate` say which accounts an update ticks.

**LatestQuotes** is what the cache promises of names, not of instruments: a
board with one entry per name, the quote that arrived last under it, on which a
publication touches the names it is sent under and no others, and an alias that
proves to stand for several listings is withdrawn for good.

**EventRepository, MonitoringEvents.** Events are stamped when they are built
and appended one by one, so those of overlapping ticks interleave. A tick reads
the record (`Begin`), evaluates, saves, and emits its events one at a time
(`Emit`, then the audit record of the emission, `AuditEmission`); an error report
is stored before its audit record exists and gets the id afterwards. The market
moves between any two evaluations, so each may find anything in `Findings`. The
audit log may refuse each of the three kinds of write:

| Refused write | What the code loses | Step |
|---|---|---|
| of the engine, before anything is stored | the evaluation | `Evaluate` |
| of the tick (`monitoring/service.py:352`), after the record is stored | all events of the tick: they are built behind it | `Save` |
| of an emission (`monitoring/service.py:720`), after the append | the audit id of this event, if it has none yet, and the events behind it | `EmissionUnaudited` |

What is raised is caught by `evaluate_account`, which stores an error report
instead (`Raise`). If the write for that report is refused too, the request ends
there. `report` is history: the report each lost event was given up for, and a
report itself where its own emission was refused. Margin alerts, whose keys carry
the time of the tick, are in `MonitoringService`, where `AuditCanFail` is the
same refusal.

Details left out, on which no property depends: a minimum limit price is rounded
to the cent (`liquidation/execution.py:63-65`), `LimitPrice` cuts it to a unit; the
evaluator looks a quote up by stable key first (`core/evaluator.py:761`), `Priced`
by asset alone; without a deduplication time the repository never stores a key
twice (`monitoring/repositories.py:161`), and the service always gives it one.

## 3. What is checked

### Instances and bounds

Lender and service (`credit_lifecycle`, the three `service_*` runs, `lost_update`,
`failed_reregistration`):

| Bound | Value | Why it is enough |
|---|---|---|
| `Cent` | 2 | half a cent exists, so ties and sub-cent interest happen |
| `Rate` | 1 | 20 units (ten cents) earn five cents in one unit of time, one cent of principal earns half a cent, which rounds to zero |
| `MaxBalance` | 50 | past every valuation's limit; an obligation above it only stops accruing |
| `Amounts` | 0, 2, 8, 20, and the amount last quoted | below and above every limit; the exact offers and cures are reached through the quote |
| `Threads` | 1 or 2 | one is the service as its tests drive it; two suffice for every read–write race on one record |
| `Accounts` | 2 in `service_sequential`, else 1 | accounts share only the market; a batch needs an account after the one that fails |
| `References` | 2, 1 in `service_concurrent` | a repeated reference and another in between; a race needs one reference sent twice |
| `Window` | 2 | 1000 in the code; it holds the references in use, the condition `ReferencesFit` of the theorem. Beyond it a repeated reference is applied again, which the code accepts |
| `MaxRequests` | 2 to 4 | register, two racing requests, and one that follows; no counterexample of section 4 needs more than three |
| `MaxTime` | 1 or 2 | interest accrues before, between and after the requests |

Openings are a loan of ten cents, or nothing; under `Sound` such a loan is safe
and leaves room for one draw, under `Strained` it is called and, once interest
accrued, liquidated, under `Unpriced` the evaluation raises if nothing is owed.

`MonitoringService` stutters in `Done` when all requests have been sent and
answered. Deadlock is checked in every run but `recovery`, where the loop ends, and
`event_log`, where the ticks do.
Threads are symmetric in `service_concurrent`, which checks invariants only, and
accounts in `service_sequential`, whose one action property treats them alike.

The other runs:

| Run | Bound | Why it is enough |
|---|---|---|
| `recovery` | `MaxObservations` 4 after the first, gaps of 1 or 4 days | alarm, grace, two attempts and a late settlement fit; four days make a bar older than the policy's three |
| | `Cent` 20, a lot at most one cent, a bid one unit below the price | fills do not divide the target, and each is rounded |
| | two assets, one foreign; a price that halves, volumes of 4 and 6 lots | calls, liquidations, partial fills, a second asset that must make up for the first |
| | policies `Patient` (grace, three attempts), `Hasty` (no waiting, no attempts granted), `Slow` (settlement over two observations, one stress each) | every status and both recovery actions occur |
| `portfolio_actions` | three markets (calm, fallen, a halt with poor quality), two accounts, one with pledged cash and an emptied holding, 29 kinds of proposals, `MaxChecks` 3 | a trade, its consequence and a third action that relies on it, with the market moving between |
| | `Cent` 10; draws and repayments of 4 and 56 units | amounts below the cent and between two cents: what one gate rounds and the other does not |
| | loans in whole cents, no bid above an ask (`ReportsAssumption`) | the hypotheses `WholeCents` and `NeverCrossed` of the theorems; section 7 says what happens without them |
| `market_data` | five instruments: one symbol on two venues, one of them foreign; another on three, two of them under one asset id, which is the bare symbol | every way of sharing a name that the keys allow |
| | five requests: under the asset id, under the symbol, under another instrument's asset id, under another's symbol | a key that is not the quote's own |
| | four accounts: each data mode, and a conservative rate policy; a silent provider and one that halts an asset | every branch of the choices |
| | two quotes, one published rate next to those registered and provided, ages of at most 0, `MaxTime` 1 | fresh, stale, poor and halted, in either order |
| `event_log` | `Window` 1, `MaxTime` 2, 2 threads, 3 ticks, 10 event ids | an outage that ends and returns inside the window and outside; two ticks overlap while a third comes before or after; a tick builds at most three events, and a report |
| | `MaxRefusals` 1, each of the writes | one refused write, and ticks before, during and after it |

`event_log` does not check deadlock: when the ticks are used up and the clock is
at its bound, nothing is left to do. Its threads are symmetric; it checks
invariants only.

### Runs that pass

| Run | Question | Properties |
|---|---|---|
| `credit_lifecycle` | does what the engine tells a lender fit together? | `LimitAgreesWithState`: below the safe limit by a cent the state is safe, and a safe balance is at most a cent above the limit. `OfferLessACentIsApproved`: an amount offered, less one cent, is approved. `CureLiftsCoverageBreach`: the quoted cure plus a cent ends the coverage part of a call. `RepaymentNeverWorsens`. `TypeOK` (amounts never negative) |
| `service_sequential` | one request at a time on two accounts, audit writes succeed: is what was published what was stored, and do batches finish their work past failing accounts? | `RecordedUpdateIsApplied`: a balance event's update is in the loan. `AlarmsAreAnnounced`: alerts equal the alarm states entered, in order. `BatchLeavesNoStaleState`: after `tick_all` or a market update no active account is at an outdated state. `TypeOK` |
| `service_faulty_audit` | one request at a time, any audit write raises: does any failure leave half an operation behind? | `BookSpec`: the service implements `AccountBook` |
| `service_concurrent` | what survives concurrency? | `AppliedAtMostOnce`, `EachInstantChargedOnce`, `StandingAlarmWasAnnounced` |
| `recovery` | does the replay carry a loan through an alarm without losing money or alarms? | `RecoverySpec`: it implements `RecoveryProtocol`. `MoneyIsAccountedFor`: what an episode raised is settled or in transit until the loan is paid off, and its status is true of its money. `AlarmIsAnswered`: an observation in alarm ends with an episode. `SettlingAwaitsMoney`: an episode that raised its target waits only for money that is on its way. `RecoveryIsBounded`: no more is sold than the target asks for, up to the rounding of fills. `ProceedsHaveAnEpisode`. `EveryEpisodeIsClosed` (liveness). `TypeOK` (no asset is oversold) |
| `portfolio_actions` | do sequences of checked actions keep the account safe and its value where it belongs? | `BookedAccountIsSafe`, `AvailableCreditCanBeDrawn` (less a cent), `ActionsCreateNoValue` (valued at the bid, to a cent), `GatesAgree`: what the lifecycle check passes the older gate approves, for the actions both know, on an account of lots alone, a repayment being stated in whole cents. `PlanRaisesItsTarget`: a liquidation plan raises its target or all that is recoverable. `TypeOK` (no holding or cash below zero) |
| `market_data` | is an account priced with a quote that belongs to a name it holds, and with a usable one? | `BoardSpec`: the cache implements `LatestQuotes`. `AmbiguousSymbolPricesNobody`: a symbol of several listings prices none on their behalf. `LatestQuotePrices`: what arrived last under a holding's asset id prices it, before anything registered or filed elsewhere. `SupportIsPriced`: nothing is lent against an asset without quote or rate. `HaltSurvivesFallback`. `UsableRateIsPreferred`. `PublicationReachesHolders`: who is not ticked sees no difference. `TypeOK` |
| `event_log` | does deduplication drop repetitions only, and does a refused audit write hide anything unreported? | `SpacedByWindow`. `SuppressedOnlyIfRecent`: an event that is not stored is a repetition, or was given up for a report of the refusal. `OutageIsOnRecord`: an account without a rate was reported no longer than the window before that was found, or the refusal that lost the report was. `StoredEventsAreAudited`, but for a report whose own emission was refused. `TypeOK` |

`BookSpec` does not hold with two threads; `lost_update` shows one of its
failures. What holds there regardless is `service_concurrent`: a lost update
takes its reference with it, so no reference counts twice; the clock and the
interest it stands for travel in the same copy, so no period is charged twice;
and an account cannot stay in an alarm that nobody announced, because a tick
that stores an alarm state either announces it or had read a record in that
state, stored and announced by an earlier one.

### Fairness

`HistoricalReplay` has `WF_vars(Next)`: the replay is a single loop over a finite
history that waits for nobody, so while it can take a step it takes one. Under
it `EveryEpisodeIsClosed` says that every open episode is settled, cancelled,
failed or left unresolved at the end of the history. No other specification
states fairness. The service has no background worker, so nothing in the program
makes a tick happen, and what it promises is safety.

## 4. Where the code and its documentation part

Each of these runs checks one property, taken from a statement of the
repository, and TLC finds it violated by what the code does.

| Run | Statement | What happens |
|---|---|---|
| `lost_update` | README.md:44 "Idempotent draw, repayment, interest, and fee updates for monitored accounts." | two updates (or an update and a tick) read the same copy; the later write discards the earlier one, after its event was published |
| `failed_reregistration` | "monitoring_account_registration_rolled_back" (`monitoring/service.py:126`) | registering over an existing account and failing deletes the existing account |
| `unpaid_rebalance` | "rebalance buy leg exceeds sale proceeds plus pledged cash" (`lifecycle/service.py:707`) | the cost compared is `to_amount` or the proceeds; the quantity bought is `to_quantity` when it is given, whatever it costs |
| `sell_by_type` | MODEL_SPEC.md:136 "projects holding changes using the stable aggregation key `asset_id + asset_type + currency`" | the projection compares the action's asset type with the exchange in the key: a holding named with its type is never found |

## 5. What is proved

The theorems hold for every value of the constants that satisfies the named
assumptions, each next to its constant, which TLC evaluates in the runs. There is
none on sizes beyond "at least one"; the bounds of the runs (`MaxRequests`,
`MaxTime`, `MaxObservations`, `MaxChecks` and the like) are arbitrary numbers.
What a theorem assumes beyond that stands in the table.

| Theorem | States | If |
|---|---|---|
| `CollateralRiskProofs!WaterfallConserves` | after a repayment the balance is the old one less the repayment, or zero | |
| `CollateralRiskProofs!MarginStateMonotone` | a smaller balance never has a more severe state, whatever the valuation | |
| `CreditLifecycleProofs!TypeCorrect`, `RepaymentsNeverWorsen` | `TypeOK`, `RepaymentNeverWorsens` | |
| `CreditLifecycleProofs!LimitAgrees` | `LimitAgreesWithState` | |
| `CreditLifecycleProofs!CuresLiftTheBreach`, `OffersAreApproved` | `CureLiftsCoverageBreach`, `OfferLessACentIsApproved` | |
| `MonitoringServiceProofs!TypeCorrect`, `EveryInstantIsChargedOnce` | `TypeOK`, `EachInstantChargedOnce` | |
| `MonitoringServiceProofs!UpdatesAreAppliedAtMostOnce` | `AppliedAtMostOnce` | `ReferencesFit` |
| `MonitoringServiceProofs!StandingAlarmsAreAnnounced` | `StandingAlarmWasAnnounced` | `~AuditCanFail` |
| `MonitoringServiceProofs!OneClientImplementsBook`, `RecordedUpdatesAreApplied` | `BookSpec`, `RecordedUpdateIsApplied` | `OneClient` |
| `MonitoringServiceProofs!AlarmsAnnouncedInOrder` | `AlarmsAreAnnounced` | `OneClient`, `~AuditCanFail` |
| `MonitoringServiceProofs!BatchesLeaveNoStaleState` | `BatchLeavesNoStaleState` | `OneClient`, `~AuditCanFail`, `ReportedInCents` |
| `PortfolioActionsProofs!ActionsTypeOK` | `TypeOK`: no check projects a holding, cash or debt below nothing | |
| `PortfolioActionsProofs!BookedAccountsAreSafe`, `AvailableCreditIsThere` | `BookedAccountIsSafe`, `AvailableCreditCanBeDrawn` | `WholeCents` |
| `PortfolioActionsProofs!NoValueIsCreated` | `ActionsCreateNoValue` | `WholeCents`, `NeverCrossed` |
| `PortfolioActionsProofs!PlansRaiseTheirTarget` | `PlanRaisesItsTarget` | |
| `PortfolioActionsProofs!TheGatesAgree` | `GatesAgree` | `WholeCents` |
| `MarketDataProofs!CacheInvariant`, `CacheImplementsBoard` | the cache keeps `AmbiguousSymbolPricesNobody` and implements `LatestQuotes` | |
| `MarketDataProofs!ServiceImplementsBoard`, `PublishedQuotePrices` | the same inside the service; `LatestQuotePrices` | |
| `MarketDataProofs!PublicationsReachHolders` | `PublicationReachesHolders` | |
| `MarketDataProofs!HaltIsNeverForgotten`, `UsableRateIsUsed`, `MarketDataTypeOK` | `HaltSurvivesFallback`, `UsableRateIsPreferred`, `TypeOK` | |
| `MarketDataProofs!SupportHasAPrice` | `SupportIsPriced` | `MinQuality > 5` |
| `MonitoringEventsProofs!EventsAreSpaced` | `RepositorySpec => []SpacedByWindow` | |
| `MonitoringEventsProofs!ServiceUsesRepository` | `Spec => RepositorySpec`: what holds of the repository holds under the service | `IdsNeverRunOut` |
| `MonitoringEventsProofs!SuppressionIsHarmless`, `OutagesAreOnRecord`, `StoredEventsLeadToTheLog`, `EventsTypeOK` | `SuppressedOnlyIfRecent`, `OutageIsOnRecord`, `StoredEventsAreAudited`, `TypeOK` | `IdsNeverRunOut` |
| `HistoricalReplayProofs!ReplayTypes` | `TypeOK`: no sale takes more than is held | |
| `HistoricalReplayProofs!AlarmsAreAnswered` | `AlarmIsAnswered` | |
| `HistoricalReplayProofs!StatusTellsTheTruth` | settling means that the target was raised, executing and failed that it was not, failed that every attempt was made, and none is made beyond | |
| `HistoricalReplayProofs!ReplayAccountsForMoney`, `RecoveryStaysBounded`, `ProceedsAreClaimed` | `MoneyIsAccountedFor`, `RecoveryIsBounded`, `ProceedsHaveAnEpisode` | |
| `HistoricalReplayProofs!ReplayFollowsProtocol` | `Spec => RecoverySpec` | |
| `HistoricalReplayProofs!SettlingAwaitsMoneyOrIsPaidOff` | an episode that has raised its target waits for money on its way, has a target of a cent, or the loan is paid off | |
| `HistoricalReplayProofs!SettlingIsCompleted` | `SettlingAwaitsMoney` | `Prompt`, interest `"engine_calculated"` |
| `HistoricalReplayProofs!NoEpisodeOutlivesTheReplay` | a replay that has ended has no open episode, and each step leaves fewer to take | |
| `RecoveryProtocolProofs!RecoveryAccountsForMoney`, `NoEpisodeIsClosedUnsettled` | the protocol loses no money; it closes as settled only what was settled | |

The hypotheses are not idle. `OneClient` (any two threads are the same) and
`~AuditCanFail` hold in `service_sequential`, the first of them also in
`service_faulty_audit`, the second in `service_concurrent`; `lost_update` shows what two threads break. `ReferencesFit`, `IdsNeverRunOut` and
`MinQuality > 5` are explained below. `ReportedInCents` and `WholeCents` say that
clients report loans and updates in whole cents, as the instances do;
`NeverCrossed` that no market's selling price is above its buying price; `Prompt`
that a sale settles by the next observation, the policy's default
(`liquidation/policy.py:12`), as `"engine_calculated"` is of the interest terms
(`credit/interest.py`). Section 7 says what happens without them.

*Repayments.* `MarginStateMonotone` rests on `BelowMonotone`: a coverage test
that fails for a balance fails for a larger one. With `WaterfallConserves` a
repayment cannot raise the balance, so it cannot raise the severity.

*Limits and cures.* A coverage test that fails for a balance is what makes a
state severe, the four coverages of a valuation are in order
(`LiquidationCoverage` lowest), and rounding to the cent moves an amount by less
than one cent. `LimitAgrees` follows for every balance, valuation and cent. What
the engine quoted speaks of the loan and the valuation it was asked about;
`QuoteIsCurrent` says that they are still those, since every step that moves
either withdraws the answer, and with it paying a cure and asking for an offer
(less a cent) are calculations with the same bounds.

*The service.* An invariant of stored records is not inductive: a step stores a
copy a thread made long ago. It becomes inductive when stated of all `Records`,
stored or carried. `ServiceInv` is type correctness with `Ready`, which says what
a thread holds at each of its points (before a post, a copy that does not know
the reference). `StepShape` shows, action by action, that every record a step
stores or hands to a request `Arises`: it is an old copy, a new registration, or
`Posted`, `Assessed` or a status change of an old copy. A property of single
records then needs a proof for those four operations only, and holds under every
interleaving, lost updates included. `ClockRuns` (charged time is the time since
the initial evaluation, and the clock is not ahead of now) and `CountedOnce` (a
reference is applied at most once, and is remembered if it was; the list has no
duplicates) are two such properties. `CountedOnce` is where `ReferencesFit` is
needed: a list without duplicates that is no longer than the window loses nothing
when the next reference is appended.

*Alarms.* `StandingAlarmWasAnnounced` speaks of idle moments, so what overlapping
requests owe has to be said in between. `AlarmsCovered`: every copy of a record in
an alarm state, stored or carried, has its alert in the log, or a request holds an
assessment that found the account in another state and has yet to publish. A
request that is ahead of it may have stored a newer state; the copy written back
is covered all the same. `CoverStays` needs that audit writes go through: one that
fails between the save and the alert loses the alert, which the code accepts.
`AlarmsAreAnnounced` counts, so it needs one client. `AlarmsAccountedFor`: the
alerts of an account are the alarm states it entered, except that a request that
has saved a new alarm state and stands before its events owes the last of them
(`Owes`). The alerts of a log are collected by a recursive function, and appending
an event of another kind leaves them alone.

*Batches.* That a batch leaves nothing stale says nothing of its middle.
`BatchInv` does: every account that a batch has no longer to evaluate (`Left`) is
`Served`, that is inactive, not assessable, or at the margin state of its loan;
the account between its save and its events included. An evaluation that fails
must have failed because the account cannot be assessed, which is where the
audit writes are needed, and what was tested is the loan with interest, rounded,
while what stays stored is the loan before. In whole cents nothing rounds away,
and a loan of nothing earns nothing (`NothingAccruedOnNothing`), so the two agree;
`AllInCents` carries this through every operation.

*One client.* With one request at a time, a copy a request carries is the stored
record, and what it is about to store is that record after one operation of
`AccountBook` (`InStep`), whatever fails in between: every failure either
precedes the store or follows it. `LogHonest` is the same for what the client was
told. `OneClient` is needed in both: `lost_update` breaks them with two.
`AccountBook` takes its operations from `MonitoredAccount` by `INSTANCE`, and
`BookRecords` shows them to be the same.

*Actions.* `BookedInv` is types, loans in whole cents, and `CreditIsCurrent`: the
credit announced is that of the account as it stands. An action passes on the
state of its projection, which is the account booked; a draw passes on the rounded
comparison of an amount with what is available, and it is for this comparison
that the loan has to be in whole cents. `NoGain` follows each kind of action: what
comes in is at most what it cost, because a quantity is bought at the ask, valued
at the bid, and its cost is rounded by less than a cent. A rebalance sells and
buys, hence `NeverCrossed`.

*Plans.* `PlanStands` is the invariant of the plan's loop: after `n` holdings of
the ranking, what remains of the target is what those holdings do not recover,
the orders raise the rest, follow the ranking, and take from no holding more than
it recovers. That the ranking has every sellable holding once, and that the
others recover nothing (`ListedStressed`), is proved of its definition.

*The gates.* Both value a projection, but not the same one: the lifecycle engine
drops a holding that an action empties, the older gate keeps it with no lots.
Dropping it changes no value if nothing else of its asset is held (`OnlyOne`),
since an empty holding is worth nothing but may take away the quote filed under
its asset. An action that names no type finds its holding only if it is the
only one of its asset, and on an account of lots alone (`HoldsLotsOnly`) no other
holding is empty; nor does the quote that the lifecycle check adds for pledged
cash change a value (`CashQuoteUnused`), so that the older gate can assess what
the lifecycle check could. The older gate compares rounded coverages,
and `RoundingMonotone` says that rounding keeps the order, so that what is safe
unrounded is approved (`SafePassesOlderGate`). It is not safe by the same loan
unless both take the same amount off it: hence loans in whole cents (`WholeCents`)
and, in the property itself, a repayment that rounding does not change (`InCents`).
Without `InCents` the run finds a repayment that only one gate rounds up to enough.

*The cache.* That a contested symbol prices nothing is not inductive alone: it
needs what the code counts venues for. `CacheInv` says so name by name: the venues
of a symbol are the stable keys published under it (`ListingIsExact`), and a name
shows what was published last under it, or is a withdrawn symbol
(`NamesAreLatest`). A publication is then one `Put` on the board (`MergeIsPut`),
and a lookup that starts at the asset id finds what came last under it
(`LatestIsRead`). Nothing is assumed of names or of request keys. That an entry
is the holder's own instrument's does not follow and is not claimed: section 7.

*Who is ticked.* An account that a publication passes over (`PassedOver`) holds
nothing whose asset id or stable key is a name the quote is sent under, and
nothing with such a symbol, symbols held on several venues excepted; so the
entries its own lookups read are those of before (`PassedOverReadsTheSame`). Of a
new rate it needs nothing, because all it holds is in the currency of its loan
(`DomesticNeedsNoRate`).

*The choices.* `HaltIsNeverForgotten`, `SupportHasAPrice` and `UsableRateIsUsed`
are case distinctions over the sources with the finite set of candidates. The
hypothesis `MinQuality > 5` is needed: a quote without a rate keeps a quality of
5%, and only the evaluator's threshold (35% by default) keeps it from counting.

*Events.* `SpacedByWindow` needs that the key table holds, of each key, the
stored event that was built last, although events arrive in any order: one that
is built earlier and appended later falls inside the window that the test leaves
open to the past. `EventsInv` is the invariant of the service above it. Queued
events are new, of one thread each and of the type their key says; a report is
alone in its queue (`ReportsGoAlone`), so that a refused write gives up nothing
behind a report. An event that is no longer queued is represented by a stored one
of its key and type, or was given up for a report that was built after it and is
queued or represented itself (`GivenUpForReport`, `AnsweredIsRepresented`): the
steps that refuse a write (`RaiseStep`, `RefusedStep`) hand every event of the
queue to the report they put in its place. Of a missing rate that a record tells
of, stored or carried, an event was built, or a report of the refusal that lost
it (`OutageIsTold`); with `BuiltInTime` this gives `OutageIsOnRecord` once nothing
is queued. `IdsNeverRunOut` stands for the code's `uuid4` ids; the run has as many
as its ticks can use.

*The replay: alarms.* `ReplayInv` needs nothing of what sales raise: from the
trigger to the end of the observation an alarm has an episode, and the status
agrees with `Reached` whatever `net` is.

*The replay: money.* `MoneyInv` says where the money of an episode is.
`Proceeds`: what was settled and what is in transit for it is at most what it
raised, and exactly that while something is owed; a repayment in whole cents
(`WholeCents`) is split without loss, since the waterfall conserves.
`FirstRaisedFirstSettled` and `LastProceedsCount` show that a completed episode
leaves nothing in transit: what settles last was raised last, and without it the
target was not reached, a target of a cent excepted (`SmallTargets`). Fills are
bounded by induction along the orders, each rounding up by at most a cent, which
is `RecoveryIsBounded`. With this every step of the replay, read through the
refinement mapping, is a step of `RecoveryProtocol` or changes nothing it sees
(`ReplayFollowsProtocol`).

*The replay: waiting.* That an episode does not wait for money that is not coming
depends on the loan: if it is paid off before its target is settled, the rest of the
proceeds settles nothing. `Covered` excludes this for prompt settlement: a target
is at most what is owed, settled, and still to be earned until the proceeds
arrive, up to a cent, because the buffer is simple interest on the principal for
as many days as there are observations, and every observation accrues at least
one day. `NothingLeftBehind` says that no earlier episode's money comes between.

*Sums, loops, induction.* The library's induction theorems take an operator as a
parameter, which the provers here cannot instantiate. Induction is therefore over sets:
`PrefixInduction` (a set that holds 0 and with `n` also `n + 1` holds every number
up to `N`) and `SubsetInduction` (a set of subsets of a finite set that holds the
empty set, and a set whenever it holds the set with one element less, holds all).
`RecursionExists` and `RecursionTyped` give a recursive function its equations and
its range. The sums over holdings, the waterfall of a day-by-day accrual, the
fills of an advisory, the plan and its ranking rest on these.

*Only model-checked:* `EveryEpisodeIsClosed`, which is liveness under fairness.
Its safety part is `NoEpisodeOutlivesTheReplay`: the steps left are a natural
number that falls with every step, and when none is left no episode is open. What
remains to TLC is that the loop can take a step until it has ended (`ENABLED`).
The four violations of section 4 are facts about instances and have no theorem.

## 6. What is not modelled

- Volatility, liquidity, spread and stress adjustments (`risk/adjustments.py`),
  stressed recovery and order books (`liquidation/recovery.py`,
  `liquidation/order_book.py`): real-valued estimates of one quote, given with it.
- The four comparison loans of the replay and its records: they only follow the
  dynamic loan. Volatility and spread estimated from the bars.
- `CreditLifecycleEngine.pre_trade_check`: no endpoint reaches it.
- The scheduler: nothing reads what it computes.
- The event about available credit; parsing and validation of requests, except
  as the ranges of the inputs; a portfolio with duplicate asset ids, which the
  aggregator refuses (`market_data/aggregator.py:322-330`).
- Reports, metrics, evidence, calibration, dataset building, provider adapters,
  examples: pure functions over finished replays, or input and output.
- The clock running backwards: `utc_now` is taken to be monotone. Floating-point
  representation: money is exact except for the rounding the code asks for.
- In `MarketData` both `allow_fallback_provider` switches are on and lending on
  halted assets is off, as they are by default; the cache's own `get_quote`, which nothing calls while a snapshot is
  given; market timestamps as an order of arrival: the last quote to arrive wins,
  and its timestamp only ages it.

## 7. Observations and limits

What the models show of the code beyond the properties, for its reviewers:

*Loan and service.*
- A record is stored before the audit write and the events; if the write raises,
  the account is in its new state and no later tick sees a transition.
- A request in progress when its account is deleted stores the account again:
  `save` creates what is not there (`monitoring/repositories.py:87`).
- A draw is checked without the interest since the last tick.
- A tick rounds to the cent and restarts the clock: frequent ticks accrue less.
- A loan below half a cent rounds to nothing. A tick without a market can then
  find the stored loan assessable and what it has just rounded not, and an approval
  may stand beside an alarm on the loan as reported. Hence the hypotheses
  `ReportedInCents` and `WholeCents`.
- The limit is rounded, up included, the margin state is not: a maximum offered
  may be refused by a cent. A call for the limit alone quotes a cure of zero.

*Events.* The severity is not part of a deduplication key: a critical report of
a missing rate within 300 seconds of a warning with the same text is suppressed.
The answer to a tick whose event was suppressed carries the stored one.
A refused audit write at `monitoring/service.py:352` loses the events of the tick,
a missing rate or a margin alert among them, and no later tick builds them again,
since the record is already stored: all that tells of them is an error report,
which says that the audit failed and not what was lost. A refused write at
line 720 loses the events behind the one just stored. An error report whose own
emission is refused keeps no audit id.

*Market data.* Instruments of several venues that share an asset id share an
entry. The lookup takes it for the holder's own, with the holder's instrument and
currency (`market_data/providers.py:136-145`), so the venue published last prices
whoever holds any of them, its number read in the holder's currency. Of holdings
`core/models.py:36-45` says "never collapse cross-venue instruments"; the cache
does. The same happens through the key of a request, which may be another
instrument's asset id. "Latest" is what arrived last: the
cache compares no timestamps, and an older quote that arrives late wins
(`monitoring/market_updates.py:125`). An instrument that nobody published can be priced through a symbol
it shares with another venue, and is not ticked by that publication. An asset id
that is a bare symbol loses its entry when another venue publishes the symbol,
which brings a registered quote back. A registered direct rate comes before a
newly published inverse one. An ageing rate can move a conservative policy to a
higher one.

*Portfolio actions.* The lifecycle check rounds a stated amount to the cent
(`lifecycle/service.py:922-926`), the older gate takes it as it is
(`core/evaluator.py:489-493`): a repayment of 99.996 that brings the loan to its
limit is approved as 100.00 by the one and answered with a reduction of the credit
by the other. A purchase that states quantity and amount is charged the
amount. A partially approved draw is reported as reduced credit, with a projected
state that holds the part not approved. The evaluator's gate approves an account
in warning, the lifecycle check does not. The two also differ on a holding
reported with no lots: the older gate counts it as a second instrument of its
asset, which leaves a quote filed under the asset alone without effect
(`core/evaluator.py:386-433`, `748-771`), the lifecycle projection drops it.
That a bid is not above the ask is validated when both are given
(`core/models.py:178`, `api/schemas.py:190`); when one is missing, the price less or plus 2%
takes its place and may cross the other, so that a round trip gains. A withdrawal
ignores the direction of the action (`lifecycle/service.py:660-671`): a deposit
asked for as an inward withdrawal takes lots out.

*Recovery.* A failed episode is never cleared, so no further episode opens on the
same loan. A loss is realized when an episode fails and not revised when money
settles later. A cure by repayment taken from the collateral need not restore
coverage. Every attempt fills the order of the first day again; only the holdings
and the rest of the target stop it. The interest buffer counts observations, the
accrual counts days. An episode whose target is a cent or less is completed while
its proceeds are in transit, if they settle over more than one observation
(`simulations/replay.py:741-767`, `809-829`). With interest reported by the
client an episode may wait for money that is not coming, since the buffer in its
target is interest nobody charges (`AccrualMode = "client_supplied"`); the replay
itself calculates it.

Worth adding next: the comparison loans, if their records are ever read by a
decision; `SettlingAwaitsMoney` for longer settlements, which the `recovery` run
checks and the theorem's bound excludes.
