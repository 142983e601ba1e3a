------------------------- MODULE MonitoringService --------------------------
(***************************************************************************)
(* The monitoring service and its in-memory repositories, driven by        *)
(* concurrent requests (src/app/monitoring/service.py, repositories.py,    *)
(* src/app/api/routes.py).                                                 *)
(*                                                                         *)
(* FastAPI runs the handlers, plain functions, in a thread pool.  Each     *)
(* repository call takes the repository's lock and copies the record in or *)
(* out; nothing holds a lock from a read to the write that depends on it.  *)
(* A step of a request therefore ends where the next one reads or writes   *)
(* what requests share: the account store, the event log, the market-data  *)
(* cache, the clock.                                                       *)
(***************************************************************************)
EXTENDS MonitoredAccount

CONSTANTS
  Threads,      (* requests served at a time                               *)
  Accounts,     (* account references                                      *)
  Openings,     (* loans an account can be registered with                 *)
  Valuations,   (* what the collateral can be worth                        *)
  Offered,      (* the kinds of request the clients send                   *)
  AuditCanFail, (* whether a write to the audit file can raise             *)
  MaxRequests,  (* bound: requests sent                                    *)
  MaxTime       (* bound: the clock                                        *)

Kinds ==
  {"register", "update", "tick", "tick_all", "market", "status", "delete"}

ASSUME SizesAssumption == Accounts # {} /\ References # {}
ASSUME OpeningsAssumption == Openings \subseteq Loan
ASSUME ValuationsAssumption == Valuations \subseteq Valuation /\ Valuations # {}
ASSUME OfferedAssumption == Offered \subseteq Kinds
ASSUME AuditAssumption == AuditCanFail \in BOOLEAN
ASSUME BoundsAssumption == MaxRequests \in Nat /\ MaxTime \in Nat

VARIABLES
  accounts,     (* InMemoryMonitoredAccountRepository._accounts            *)
  market,       (* what the cached quotes make the collateral worth        *)
  now,          (* utc_now()                                               *)
  log,          (* the events of each account, oldest first                *)
  req,          (* what each thread is doing                               *)
  issued,       (* requests sent so far                                    *)
  entered       (* history: alarm states each stored record entered        *)

vars == <<accounts, market, now, log, req, issued, entered>>

(* A request is at one of these points; "idle" threads serve none.  found is *)
(* history: whether a registration began with the account already stored.    *)
Points ==
  {"idle", "decide", "post", "record", "evaluate", "assess", "save", "notify",
   "rollback", "set_status", "fan_out"}

SomeAccount == CHOOSE a \in Accounts : TRUE

SomeReference == CHOOSE r \in References : TRUE

NoRequest ==
  [at |-> "idle", kind |-> "tick", acct |-> SomeAccount, ref |-> SomeReference,
   snap |-> NoAccount, draft |-> NoAccount, todo |-> {}, force |-> FALSE, found |-> FALSE]

EventTypes ==
  {"monitoring_tick_completed", "risk_state_changed", "margin_call_triggered",
   "liquidation_triggered", "loan_balance_updated", "monitoring_error"}

Event ==
  [type: EventTypes, state: MarginStates \cup {"none"},
   ref: References \cup {"none"}, serial: Nat]

Request ==
  [at: Points, kind: Kinds, acct: Accounts, ref: References,
   snap: Account \cup {NoAccount}, draft: Account \cup {NoAccount},
   todo: SUBSET Accounts, force: BOOLEAN, found: BOOLEAN]

TypeOK ==
  /\ accounts \in [Accounts -> Account \cup {NoAccount}]
  /\ market \in Valuations
  /\ now \in 0..MaxTime
  /\ log \in [Accounts -> Seq(Event)]
  /\ req \in [Threads -> Request]
  /\ issued \in 0..MaxRequests
  /\ entered \in [Accounts -> Seq(AlarmStates)]

Init ==
  /\ accounts = [a \in Accounts |-> NoAccount]
  /\ market \in Valuations
  /\ now = 0
  /\ log = [a \in Accounts |-> <<>>]
  /\ req = [t \in Threads |-> NoRequest]
  /\ issued = 0
  /\ entered = [a \in Accounts |-> <<>>]

Stored(a) == accounts[a] # NoAccount

(* Whether this audit write goes through.                                    *)
AuditOutcomes == IF AuditCanFail THEN BOOLEAN ELSE {TRUE}

-----------------------------------------------------------------------------
(* Handlers: the first step of each request, up to its first suspension.     *)

At(t, point) == req[t].at = point

(* Thread t takes a request; a handler that returns at once leaves it idle.  *)
Accept(t, kind) ==
  /\ At(t, "idle")
  /\ kind \in Offered
  /\ issued < MaxRequests
  /\ issued' = issued + 1

Proceed(t, request) == req' = [req EXCEPT ![t] = request]

(* save, update and delete of the account repository: each overwrites the    *)
(* whole record, whatever was stored meanwhile.                              *)
LastOf(record) == IF record = NoAccount THEN "none" ELSE record.last

Store(a, record) ==
  /\ accounts' = [accounts EXCEPT ![a] = record]
  /\ entered' = IF LastOf(record) \in AlarmStates /\ LastOf(record) # LastOf(accounts[a])
                THEN [entered EXCEPT ![a] = Append(@, LastOf(record))]
                ELSE entered

(* register_account: save before anything is looked at.  The audit write     *)
(* comes before the try block: if it raises, the record stays.               *)
Register(t, a) ==
  /\ Accept(t, "register")
  /\ \E loan \in Openings, status \in Statuses, evaluate \in BOOLEAN, audited \in AuditOutcomes :
       /\ Store(a, Registered(loan, status, now, issued'))
       /\ Proceed(t, IF audited /\ (status = "active" \/ evaluate)
                     THEN [NoRequest EXCEPT !.at = "evaluate", !.kind = "register",
                                            !.acct = a, !.force = TRUE,
                                            !.found = Stored(a)]
                     ELSE NoRequest)
  /\ UNCHANGED <<market, now, log>>

(* Faulty variant of BeginUpdate: a known reference is not looked for.       *)
BeginUpdateUnchecked(t, a, r) ==
  /\ Accept(t, "update")
  /\ Proceed(t, IF Stored(a)
                THEN [NoRequest EXCEPT !.at = "decide", !.kind = "update",
                                       !.acct = a, !.ref = r, !.snap = accounts[a]]
                ELSE NoRequest)
  /\ UNCHANGED <<accounts, market, now, log, entered>>

(* apply_loan_update: an unknown account is a 404, a known reference a no-op. *)
BeginUpdate(t, a, r) ==
  /\ Accept(t, "update")
  /\ Proceed(t, IF Stored(a) /\ ~IsProcessed(accounts[a], r)
                THEN [NoRequest EXCEPT !.at = "decide", !.kind = "update",
                                       !.acct = a, !.ref = r, !.snap = accounts[a]]
                ELSE NoRequest)
  /\ UNCHANGED <<accounts, market, now, log, entered>>

(* POST .../tick *)
BeginTick(t, a, force) ==
  /\ Accept(t, "tick")
  /\ Proceed(t, [NoRequest EXCEPT !.at = "evaluate", !.kind = "tick",
                                  !.acct = a, !.force = force])
  /\ UNCHANGED <<accounts, market, now, log, entered>>

(* POST /monitoring/tick *)
BeginTickAll(t) ==
  /\ Accept(t, "tick_all")
  /\ Proceed(t, [NoRequest EXCEPT !.at = "fan_out", !.kind = "tick_all"])
  /\ UNCHANGED <<accounts, market, now, log, entered>>

(* ingest_market_data_update: merge into the cache, then perhaps tick.       *)
Publish(t, v, trigger) ==
  /\ Accept(t, "market")
  /\ v # market
  /\ market' = v
  /\ Proceed(t, IF trigger
                THEN [NoRequest EXCEPT !.at = "fan_out", !.kind = "market"]
                ELSE NoRequest)
  /\ UNCHANGED <<accounts, now, log, entered>>

BeginStatus(t, a, status) ==
  /\ Accept(t, "status")
  /\ Proceed(t, IF Stored(a)
                THEN [NoRequest EXCEPT !.at = "set_status", !.kind = "status",
                                       !.acct = a, !.snap = accounts[a],
                                       !.draft = [accounts[a] EXCEPT !.status = status]]
                ELSE NoRequest)
  /\ UNCHANGED <<accounts, market, now, log, entered>>

Delete(t, a) ==
  /\ Accept(t, "delete")
  /\ Store(a, NoAccount)
  /\ Proceed(t, NoRequest)
  /\ UNCHANGED <<market, now, log>>

-----------------------------------------------------------------------------
(* Events.  The keys of assessment events carry the time of the tick and do  *)
(* not repeat; those of balance and error events may, and a repeat inside    *)
(* the deduplication window is not stored again.                             *)

When(condition, event) == IF condition THEN <<event>> ELSE <<>>

Notice(type, record, ref) ==
  [type |-> type, state |-> record.last, ref |-> ref, serial |-> record.serial]

Emit(a, events) == log' = [log EXCEPT ![a] = @ \o events]

EmitOnce(a, event) ==
  \/ Emit(a, <<event>>)
  \/ /\ \E i \in 1..Len(log[a]) : log[a][i].type = event.type /\ log[a][i].ref = event.ref
     /\ UNCHANGED log

(* Faulty variant of AssessmentEvents: a first evaluation raises no alarm.   *)
AssessmentEventsAfterFirst(snap, draft, forceTickEvent) ==
     When(forceTickEvent, Notice("monitoring_tick_completed", draft, "none"))
  \o When(snap.last # "none" /\ snap.last # draft.last,
          Notice("risk_state_changed", draft, "none"))
  \o When(snap.last \notin {"none", "margin_call"} /\ draft.last = "margin_call",
          Notice("margin_call_triggered", draft, "none"))
  \o When(snap.last \notin {"none", "liquidation"} /\ draft.last = "liquidation",
          Notice("liquidation_triggered", draft, "none"))

(* _build_events: what the assessment draft, made of snap, gives rise to.    *)
AssessmentEvents(snap, draft, forceTickEvent) ==
     When(forceTickEvent, Notice("monitoring_tick_completed", draft, "none"))
  \o When(snap.last # "none" /\ snap.last # draft.last,
          Notice("risk_state_changed", draft, "none"))
  \o When(snap.last # "margin_call" /\ draft.last = "margin_call",
          Notice("margin_call_triggered", draft, "none"))
  \o When(snap.last # "liquidation" /\ draft.last = "liquidation",
          Notice("liquidation_triggered", draft, "none"))

-----------------------------------------------------------------------------
(* apply_loan_update, past its early returns                                 *)

(* Settle the event, check the draw against the market as it is now; the     *)
(* check writes audit records, which may raise.                              *)
DecideUpdate(t) ==
  LET r == req[t]
  IN  /\ At(t, "decide")
      /\ \/ Proceed(t, IF IsRefused(r.snap, r.ref, market) THEN NoRequest
                       ELSE [r EXCEPT !.at = "post", !.draft = Posted(r.snap, r.ref)])
         \/ /\ AuditCanFail /\ Payload[r.ref].draw > 0
            /\ Proceed(t, NoRequest)
      /\ UNCHANGED <<accounts, market, now, log, issued, entered>>

(* Write the record back; the audit write that follows may raise.            *)
PostUpdate(t) ==
  /\ At(t, "post")
  /\ Store(req[t].acct, req[t].draft)
  /\ \E audited \in AuditOutcomes :
       Proceed(t, IF audited THEN [req[t] EXCEPT !.at = "record"] ELSE NoRequest)
  /\ UNCHANGED <<market, now, log, issued>>

(* Faulty variant of RecordUpdate: the tick evaluates the record as it was   *)
(* read before the update.                                                   *)
RecordUpdateStale(t) ==
  LET r == req[t]
  IN  /\ At(t, "record")
      /\ EmitOnce(r.acct, Notice("loan_balance_updated", r.draft, r.ref))
      /\ Proceed(t, IF Payload[r.ref].tick THEN [r EXCEPT !.at = "assess"] ELSE NoRequest)
      /\ UNCHANGED <<accounts, market, now, issued, entered>>

(* Publish LOAN_BALANCE_UPDATED and go on to a tick if one was asked for.    *)
RecordUpdate(t) ==
  LET r == req[t]
  IN  /\ At(t, "record")
      /\ EmitOnce(r.acct, Notice("loan_balance_updated", r.draft, r.ref))
      /\ \E audited \in AuditOutcomes :
           Proceed(t, IF audited /\ Payload[r.ref].tick /\ r.draft.status = "active"
                      THEN [r EXCEPT !.at = "evaluate", !.snap = NoAccount,
                                     !.draft = NoAccount]
                      ELSE NoRequest)
      /\ UNCHANGED <<accounts, market, now, issued, entered>>

-----------------------------------------------------------------------------
(* evaluate_account                                                          *)

(* Faulty variant of Finish: a batch ends with the first account that fails. *)
FinishUnisolated(t, succeeded) ==
  LET left == [req[t] EXCEPT !.snap = NoAccount, !.draft = NoAccount]
  IN  IF req[t].kind = "register" /\ ~succeeded
      THEN Proceed(t, [left EXCEPT !.at = "rollback"])
      ELSE IF req[t].todo = {} \/ ~succeeded THEN Proceed(t, NoRequest)
      ELSE \E a \in req[t].todo :
             Proceed(t, [left EXCEPT !.at = "evaluate", !.acct = a, !.todo = @ \ {a}])

(* A failed registration is rolled back; a batch goes on to its next account *)
(* whatever happened to this one; any other request is answered.             *)
Finish(t, succeeded) ==
  LET left == [req[t] EXCEPT !.snap = NoAccount, !.draft = NoAccount]
  IN  IF req[t].kind = "register" /\ ~succeeded
      THEN Proceed(t, [left EXCEPT !.at = "rollback"])
      ELSE IF req[t].todo = {} THEN Proceed(t, NoRequest)
      ELSE \E a \in req[t].todo :
             Proceed(t, [left EXCEPT !.at = "evaluate", !.acct = a, !.todo = @ \ {a}])

Initial(t) == req[t].kind = "register"

BeginEvaluate(t) ==
  LET a == req[t].acct
  IN  /\ At(t, "evaluate")
      /\ IF Stored(a) /\ (accounts[a].status = "active" \/ req[t].force)
         THEN Proceed(t, [req[t] EXCEPT !.at = "assess", !.snap = accounts[a]])
         ELSE Finish(t, FALSE)
      /\ UNCHANGED <<accounts, market, now, log, issued, entered>>

(* Charge interest up to now and evaluate the loan at the market as it is.   *)
(* The evaluation raises when nothing is priced and nothing owed, and when   *)
(* the engines cannot write their audit records; nothing is stored then.     *)
Assess(t) ==
  LET r == req[t]
      draft == Assessed(r.snap, market, now, Initial(t))
  IN  /\ At(t, "assess")
      /\ \/ /\ ~Unassessable(market, Balance(draft.loan))
            /\ Proceed(t, [r EXCEPT !.at = "save", !.draft = draft])
            /\ UNCHANGED log
         \/ /\ Unassessable(market, Balance(draft.loan)) \/ AuditCanFail
            /\ EmitOnce(r.acct, Notice("monitoring_error", r.snap, "none"))
            /\ Finish(t, FALSE)
      /\ UNCHANGED <<accounts, market, now, issued, entered>>

(* Write the assessed record back; a failing audit write ends the evaluation *)
(* here, with the record stored and no transition published.                 *)
SaveAssessment(t) ==
  LET r == req[t]
  IN  /\ At(t, "save")
      /\ Store(r.acct, r.draft)
      /\ \/ /\ Proceed(t, [r EXCEPT !.at = "notify"])
            /\ UNCHANGED log
         \/ /\ AuditCanFail
            /\ EmitOnce(r.acct, Notice("monitoring_error", r.snap, "none"))
            /\ Finish(t, FALSE)
      /\ UNCHANGED <<market, now, issued>>

(* Publish the events one by one; the audit write after one of them may      *)
(* raise, and an error event takes the place of the rest.                    *)
Notify(t) ==
  LET r == req[t]
      events == AssessmentEvents(r.snap, r.draft, r.kind # "tick_all")
  IN  /\ At(t, "notify")
      /\ \/ Emit(r.acct, events) /\ Finish(t, TRUE)
         \/ /\ AuditCanFail
            /\ \E n \in 1..Len(events) :
                 Emit(r.acct, Append(SubSeq(events, 1, n),
                                     Notice("monitoring_error", r.snap, "none")))
            /\ Finish(t, FALSE)
      /\ UNCHANGED <<accounts, market, now, issued, entered>>

(* The except clause of register_account: delete by reference.               *)
RollBack(t) ==
  /\ At(t, "rollback")
  /\ Store(req[t].acct, NoAccount)
  /\ Proceed(t, NoRequest)
  /\ UNCHANGED <<market, now, log, issued>>

-----------------------------------------------------------------------------
(* update_account_status, and the batches of tick_all and market updates     *)

SaveStatus(t) ==
  /\ At(t, "set_status")
  /\ Store(req[t].acct, req[t].draft)
  /\ Proceed(t, NoRequest)
  /\ UNCHANGED <<market, now, log, issued>>

(* tick_all lists the active accounts, a market update every account that    *)
(* holds the instrument.                                                     *)
FanOut(t) ==
  LET listed == {a \in Accounts : /\ Stored(a)
                                  /\ req[t].kind = "market" \/ accounts[a].status = "active"}
  IN  /\ At(t, "fan_out")
      /\ IF listed = {} THEN Proceed(t, NoRequest)
         ELSE \E a \in listed :
                Proceed(t, [req[t] EXCEPT !.at = "evaluate", !.acct = a,
                                          !.todo = listed \ {a}])
      /\ UNCHANGED <<accounts, market, now, log, issued, entered>>

Advance ==
  /\ now < MaxTime
  /\ now' = now + 1
  /\ UNCHANGED <<accounts, market, log, req, issued, entered>>

Handler(t) ==
  \/ \E a \in Accounts : Register(t, a)
  \/ \E a \in Accounts, r \in References : BeginUpdate(t, a, r)
  \/ \E a \in Accounts, force \in BOOLEAN : BeginTick(t, a, force)
  \/ BeginTickAll(t)
  \/ \E v \in Valuations, trigger \in BOOLEAN : Publish(t, v, trigger)
  \/ \E a \in Accounts, status \in Statuses : BeginStatus(t, a, status)
  \/ \E a \in Accounts : Delete(t, a)

Continue(t) ==
  \/ DecideUpdate(t) \/ PostUpdate(t) \/ RecordUpdate(t)
  \/ BeginEvaluate(t) \/ Assess(t) \/ SaveAssessment(t) \/ Notify(t)
  \/ RollBack(t) \/ SaveStatus(t) \/ FanOut(t)

Quiet == \A t \in Threads : At(t, "idle")

(* Every request has been sent and answered.                                 *)
Done ==
  /\ Quiet /\ issued = MaxRequests
  /\ UNCHANGED vars

Next ==
  \/ \E t \in Threads : Handler(t) \/ Continue(t)
  \/ Advance
  \/ Done

Spec == Init /\ [][Next]_vars

-----------------------------------------------------------------------------
(* Properties                                                                *)

(* A loan update is applied at most once to a loan, however often, and with  *)
(* whatever else in progress, its reference is sent.                         *)
AppliedAtMostOnce ==
  \A a \in Accounts : Stored(a) => \A r \in References : accounts[a].applied[r] <= 1

(* Interest has been charged for every instant from the initial evaluation   *)
(* to the last accrual, and for none twice, although evaluations fail,       *)
(* overlap and overwrite each other.                                         *)
EachInstantChargedOnce ==
  \A a \in Accounts : Stored(a) =>
    /\ accounts[a].accruedTo = accounts[a].runsFrom + accounts[a].charged
    /\ accounts[a].accruedTo <= now

(* The store changes as the book does: one whole operation on the current    *)
(* record at a time.                                                         *)
Book == INSTANCE AccountBook
  WITH book <- accounts, Times <- 0..MaxTime, Serials <- 0..MaxRequests

BookSpec == Book!Spec

(* A client that was told of a balance change finds it in the obligation.    *)
RecordedUpdateIsApplied ==
  \A a \in Accounts : Stored(a) =>
    \A i \in 1..Len(log[a]) :
      LET e == log[a][i]
      IN  e.type = "loan_balance_updated" /\ e.serial = accounts[a].serial
            => accounts[a].applied[e.ref] > 0

(* The states that the alerts among some events tell of, in their order.     *)
Alerts(events) ==
  LET told[n \in 0..Len(events)] ==
        IF n = 0 THEN <<>>
        ELSE IF events[n].type \in {"margin_call_triggered", "liquidation_triggered"}
        THEN Append(told[n - 1], events[n].state)
        ELSE told[n - 1]
  IN  told[Len(events)]

(* Once every request is answered, the alerts published for an account are   *)
(* the alarm states its stored record entered, in that order.                *)
AlarmsAreAnnounced == Quiet => \A a \in Accounts : Alerts(log[a]) = entered[a]

(* No account is left in an alarm state that no alert was ever published     *)
(* for, although ticks that overlap may each take the transition to be the   *)
(* other's, and stale copies of the record be written back.                  *)
StandingAlarmWasAnnounced ==
  Quiet => \A a \in Accounts : Stored(a) /\ accounts[a].last \in AlarmStates =>
    \E i \in 1..Len(log[a]) :
      /\ log[a][i].type = IF accounts[a].last = "margin_call"
                          THEN "margin_call_triggered" ELSE "liquidation_triggered"
      /\ log[a][i].serial = accounts[a].serial

(* A batch leaves no active account at a margin state that is out of date:   *)
(* an account that raises does not keep the batch from the ones after it     *)
(* (one client at a time, an audit file that can be written).                *)
BatchLeavesNoStaleState ==
  [][ \A t \in Threads :
        req[t].kind \in {"market", "tick_all"} /\ ~At(t, "idle") /\ req'[t].at = "idle"
          => \A a \in Accounts :
               /\ accounts'[a] # NoAccount
               /\ accounts'[a].status = "active"
               /\ ~Unassessable(market, Balance(accounts'[a].loan))
               => accounts'[a].last = MarginState(market, Balance(accounts'[a].loan)) ]_vars

(* "rolled back" (src/app/monitoring/service.py:126): a registration that     *)
(* fails leaves an account that was stored before it stored.                 *)
FailedRegistrationRestores ==
  [][ \A t \in Threads : At(t, "rollback") /\ req[t].found
        => accounts'[req[t].acct] # NoAccount \/ ~Stored(req[t].acct) ]_vars
=============================================================================
