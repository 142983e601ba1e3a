-------------------------- MODULE MonitoringEvents --------------------------
(***************************************************************************)
(* Market-data alerts and error reports: ticks of one account, run by      *)
(* concurrent requests, that publish what changed through the event        *)
(* repository (evaluate_account, _build_events and _append_event of        *)
(* src/app/monitoring/service.py).  The audit log may refuse any write: the *)
(* except clause then reports that, in place of the events not yet stored. *)
(* The margin alerts, whose keys carry the time of the tick and never      *)
(* repeat, are in MonitoringService.                                       *)
(***************************************************************************)
EXTENDS EventRepository, FiniteSets

CONSTANTS
  Threads,
  Findings,     (* what an evaluation can find in the market data          *)
  MaxTicks,     (* bound: ticks                                            *)
  MaxTime,      (* bound: the clock                                        *)
  MaxRefusals   (* bound: reports that a refused audit write is about    *)

(* An evaluation finds which warnings apply (the signature), whether one is  *)
(* of a missing rate, the quality, whether the account is in an alarm state; *)
(* or it raises.                                                             *)
Finding ==
  [warnings: Nat, missing: BOOLEAN, quality: 0..100, alarm: BOOLEAN, raises: BOOLEAN]

ASSUME FindingsAssumption == Findings \subseteq Finding
ASSUME BoundsAssumption == MaxTicks \in Nat /\ MaxTime \in Nat /\ MaxRefusals \in Nat

(* Whatever an evaluation finds, the events about it are events of the       *)
(* repository.                                                               *)
ASSUME EventsAssumption ==
  /\ \A f \in Findings :
       {<<"degraded", f.warnings>>, <<"fx_missing", f.warnings>>} \subseteq Keys
  /\ {<<"error", 0>>, <<"error", 1>>} \subseteq Keys
  /\ [type: {"monitoring_tick_completed", "market_data_degraded", "fx_missing",
             "monitoring_error"},
      severity: {"info", "warning", "critical"}] \subseteq Contents

(* data_quality_change_threshold *)
QualityThreshold == 15

VARIABLES
  account,      (* what the stored record keeps of its last evaluation     *)
  req,          (* what each thread is doing                               *)
  now,
  ticks,        (* ticks begun                                             *)
  built,        (* history: the events built, by id                        *)
  report        (* history: the report that an event was given up for; a   *)
                (* report whose own emission was refused has itself        *)

vars == <<stored, record, keyed, account, req, now, ticks, built, report>>

(* since is history: when the missing rate this record tells of was found    *)
(* missing.                                                                  *)
Unchecked ==
  [warnings |-> 0, missing |-> FALSE, quality |-> 100, alarm |-> FALSE, checked |-> FALSE,
   since |-> 0]

Idle == [at |-> "idle", snap |-> Unchecked, draft |-> Unchecked, queue |-> <<>>]

Points == {"idle", "evaluate", "save", "emit", "audit"}

TypeOK ==
  /\ RepositoryTypeOK
  /\ \A t \in Threads :
       /\ req[t].at \in Points
       /\ req[t].queue \in Seq(Ids)
       /\ req[t].at \in {"emit", "audit"} <=> req[t].queue # <<>>
  /\ now \in 0..MaxTime /\ ticks \in 0..MaxTicks
  /\ built \in Seq(Event) /\ 1..Len(built) \subseteq Ids
  /\ report \in [Ids -> Ids \cup {NoId}]

Init ==
  /\ RepositoryInit
  /\ account = Unchecked
  /\ req = [t \in Threads |-> Idle]
  /\ now = 0 /\ ticks = 0
  /\ built = <<>>
  /\ report = [id \in Ids |-> NoId]

At(t, point) == req[t].at = point

Proceed(t, request) == req' = [req EXCEPT ![t] = request]

-----------------------------------------------------------------------------
When(condition, event) == IF condition THEN <<event>> ELSE <<>>

Built(type, severity, key, audited) ==
  [key |-> key, created |-> now, audited |-> audited,
   content |-> [type |-> type, severity |-> severity]]

(* _data_quality_degraded: warnings where there was nothing, a score that    *)
(* fell by the threshold, or more warnings than before.                      *)
Degraded(snap, draft) ==
  IF ~snap.checked THEN draft.warnings > 0
  ELSE \/ snap.quality - draft.quality >= QualityThreshold
       \/ draft.warnings > snap.warnings

(* Faulty variant of MissingAppeared: a first evaluation has nothing to      *)
(* compare with.                                                             *)
MissingAppearedAgain(snap, draft) == draft.missing /\ ~snap.missing /\ snap.checked

(* _missing_fx_appeared *)
MissingAppeared(snap, draft) == draft.missing /\ ~snap.missing

(* _build_events, its market-data part; each event is stamped as it is built. *)
TickEvents(snap, draft) ==
     <<Built("monitoring_tick_completed", "info", NoKey, TRUE)>>
  \o When(Degraded(snap, draft),
          Built("market_data_degraded", "warning", <<"degraded", draft.warnings>>, TRUE))
  \o When(MissingAppeared(snap, draft),
          Built("fx_missing", IF draft.alarm THEN "critical" ELSE "warning",
                <<"fx_missing", draft.warnings>>, TRUE))

(* The event of the except clause of evaluate_account, which has no audit id *)
(* yet and is keyed by what was raised: by the evaluation or by the audit log. *)
EvaluationKey == <<"error", 0>>
AuditKey      == <<"error", 1>>

EvaluationError == Built("monitoring_error", "critical", EvaluationKey, FALSE)
AuditError      == Built("monitoring_error", "warning", AuditKey, FALSE)

(* Once its events are built, a request reads no evaluation any more.        *)
Enqueue(t, events) ==
  /\ built' = built \o events
  /\ Proceed(t, [Idle EXCEPT !.at = "emit",
                   !.queue = [n \in 1..Len(events) |-> Len(built) + n]])

Queued(t) == {req[t].queue[n] : n \in 1..Len(req[t].queue)}

(* The except clause: the report is all that is stored from here on.         *)
Raise(t, error) ==
  /\ Enqueue(t, <<error>>)
  /\ report' = [id \in Ids |-> IF id \in Queued(t) THEN Len(built) + 1 ELSE report[id]]

(* Any audit write may be refused, until MaxRefusals reports are about it.   *)
AuditCanFail(id) ==
  Cardinality({i \in 1..Len(built) : built[i].key = AuditKey \/ report[i] = i}
              \cup {id}) <= MaxRefusals

AuditRaises(t) == AuditCanFail(Len(built) + 1) /\ Raise(t, AuditError)

-----------------------------------------------------------------------------
Begin(t) ==
  /\ At(t, "idle") /\ ticks < MaxTicks
  /\ ticks' = ticks + 1
  /\ Proceed(t, [Idle EXCEPT !.at = "evaluate", !.snap = account])
  /\ UNCHANGED <<repositoryVars, account, now, built, report>>

(* Aggregation and lifecycle_engine.monitor, whose audit record comes before *)
(* anything is kept.  The market moves between any two evaluations: each may *)
(* find anything.                                                            *)
Evaluate(t) ==
  /\ At(t, "evaluate")
  /\ \E found \in Findings :
       \/ found.raises /\ Raise(t, EvaluationError)
       \/ ~found.raises /\ AuditRaises(t)
       \/ /\ ~found.raises
          /\ Proceed(t, [req[t] EXCEPT
               !.at = "save",
               !.draft = [warnings |-> found.warnings, missing |-> found.missing,
                          quality |-> found.quality, alarm |-> found.alarm,
                          checked |-> TRUE,
                          since |-> IF req[t].snap.missing THEN req[t].snap.since ELSE now]])
          /\ UNCHANGED <<built, report>>
  /\ UNCHANGED <<repositoryVars, account, now, ticks>>

(* The record is stored; the audit record of the tick comes after it, and    *)
(* only then are the events built.                                           *)
Save(t) ==
  /\ At(t, "save")
  /\ account' = req[t].draft
  /\ \/ /\ Enqueue(t, TickEvents(req[t].snap, req[t].draft))
        /\ UNCHANGED report
     \/ AuditRaises(t)
  /\ UNCHANGED <<repositoryVars, now, ticks>>

(* Faulty variant of Dequeued: one event too many is looked for.             *)
DequeuedLate(t) ==
  IF req[t].queue = <<>> THEN Idle
  ELSE [req[t] EXCEPT !.at = "emit", !.queue = Tail(@)]

Dequeued(t) ==
  IF Len(req[t].queue) = 1 THEN Idle
  ELSE [req[t] EXCEPT !.at = "emit", !.queue = Tail(@)]

(* _append_event, its append. *)
Emit(t) ==
  LET id    == Head(req[t].queue)
      event == built[id]
  IN  /\ At(t, "emit")
      /\ AppendEvent(id, event)
      /\ Proceed(t, IF Duplicate(event) THEN Dequeued(t) ELSE [req[t] EXCEPT !.at = "audit"])
      /\ UNCHANGED <<account, now, ticks, built, report>>

(* _append_event, the record of the emission: an event that has no audit id  *)
(* gets that of the record.                                                  *)
AuditEmission(t) ==
  LET id == Head(req[t].queue)
  IN  /\ At(t, "audit")
      /\ IF built[id].audited THEN UNCHANGED repositoryVars ELSE SetAudit(id)
      /\ Proceed(t, Dequeued(t))
      /\ UNCHANGED <<account, now, ticks, built, report>>

IsReport(event) == event.content.type = "monitoring_error"

(* The record of the emission is refused.  Within the except clause that ends *)
(* the request; before it the events behind this one are never stored.       *)
EmissionUnaudited(t) ==
  LET id == Head(req[t].queue)
  IN  /\ At(t, "audit")
      /\ \/ ~IsReport(built[id]) /\ AuditRaises(t)
         \/ /\ IsReport(built[id]) /\ AuditCanFail(id)
            /\ report' = [report EXCEPT ![id] = id]
            /\ Proceed(t, Idle)
            /\ UNCHANGED built
      /\ UNCHANGED <<repositoryVars, account, now, ticks>>

Advance ==
  /\ now < MaxTime
  /\ now' = now + 1
  /\ UNCHANGED <<repositoryVars, account, req, ticks, built, report>>

Next ==
  \/ \E t \in Threads :
       \/ Begin(t) \/ Evaluate(t) \/ Save(t)
       \/ Emit(t) \/ AuditEmission(t) \/ EmissionUnaudited(t)
  \/ Advance

Spec == Init /\ [][Next]_vars

-----------------------------------------------------------------------------
(* Properties                                                                *)

Quiet == \A t \in Threads : At(t, "idle")

InProgress == UNION {Queued(t) : t \in Threads}

(* The event is stored, or was one too many: another of its key is stored,   *)
(* built no longer than the window before it.                                *)
OnRecord(id) ==
  \E n \in 1..Len(stored) :
    \/ stored[n] = id
    \/ /\ EventAt(n).key = built[id].key /\ built[id].key # NoKey
       /\ EventAt(n).created + Window >= built[id].created

(* Every event that was built is stored, or one too many, or was given up    *)
(* because the audit log refused a record, which the error report of that    *)
(* request says: no other event is lost, whichever requests overlap.         *)
SuppressedOnlyIfRecent ==
  \A id \in 1..Len(built) : id \notin InProgress =>
    \/ OnRecord(id)
    \/ /\ report[id] # NoId
       /\ built[report[id]].key = AuditKey
       /\ report[id] \in InProgress \/ OnRecord(report[id])

(* An account that cannot be converted into the currency of its loan has     *)
(* been reported, no longer than the window before that was found, however   *)
(* often the rate came and went and whichever ticks overlapped; or there is  *)
(* a report, as recent, that the audit log refused a record.                 *)
OutageIsOnRecord ==
  Quiet /\ account.missing =>
    \E n \in 1..Len(stored) :
      /\ EventAt(n).content.type = "fx_missing" \/ EventAt(n).key = AuditKey
      /\ EventAt(n).created + Window >= account.since

(* Every event a reader can find leads to the audit log once the request     *)
(* that stored it is answered, but for an error report whose own emission    *)
(* the audit log refused.                                                    *)
StoredEventsAreAudited ==
  \A n \in 1..Len(stored) :
    \/ stored[n] \in InProgress
    \/ EventAt(n).audited
    \/ IsReport(EventAt(n)) /\ report[stored[n]] = stored[n]
=============================================================================
