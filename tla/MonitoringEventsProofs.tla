----------------------- MODULE MonitoringEventsProofs -----------------------
(***************************************************************************)
(* The repository spaces the events of one key by the window, for any      *)
(* window and whatever the threads append in whatever order; the service   *)
(* uses it as it must be used, so that a missing rate is on record, a      *)
(* suppressed event was one too many and a stored one is audited, for any  *)
(* number of threads and ticks.                                            *)
(***************************************************************************)
EXTENDS MonitoringEvents, TLAPS

(* A stored id is that of a recorded event, and no other place holds it.     *)
StoredOnce ==
  /\ \A n \in 1..Len(stored) : EventAt(n) \in Event
  /\ \A m, n \in 1..Len(stored) : stored[m] = stored[n] => m = n

(* A key leads to a stored event of that key, and none of the key is newer.  *)
KeyedIsNewest ==
  \A k \in Keys :
    /\ keyed[k] # NoId =>
         record[keyed[k]] \in Event /\ record[keyed[k]].key = k
    /\ \A n \in 1..Len(stored) : EventAt(n).key = k =>
         keyed[k] # NoId /\ EventAt(n).created <= record[keyed[k]].created

RepositoryInv ==
  RepositoryTypeOK /\ StoredOnce /\ KeyedIsNewest /\ SpacedByWindow

(* An empty repository satisfies all of it.                                  *)
LEMMA RepositoryInitInv == RepositoryInit => RepositoryInv
BY DEF RepositoryInit, RepositoryInv, RepositoryTypeOK, StoredOnce, KeyedIsNewest,
       SpacedByWindow

(* The id of an audit record changes nothing but the mark.                   *)
LEMMA AuditKeepsEvents ==
  ASSUME RepositoryInv, NEW id \in Ids, SetAudit(id)
  PROVE  RepositoryInv'
<1>1. /\ record \in [Ids -> Event \cup {NoEvent}]
      /\ record[id] \in Event
      /\ record' = [record EXCEPT ![id] = [record[id] EXCEPT !.audited = TRUE]]
      /\ stored' = stored /\ keyed' = keyed
  BY DEF SetAudit, RepositoryInv, RepositoryTypeOK
<1>2. /\ record'[id] \in Event
      /\ record'[id].key = record[id].key
      /\ record'[id].created = record[id].created
  BY <1>1 DEF Event
<1>3. \A i \in Ids : i # id => record'[i] = record[i]
  BY <1>1
<1>4. \A i \in Ids : record[i] \in Event =>
        /\ record'[i] \in Event
        /\ record'[i].key = record[i].key
        /\ record'[i].created = record[i].created
  BY <1>2, <1>3
<1>5. RepositoryTypeOK'
  <2>1. record' \in [Ids -> Event \cup {NoEvent}]
    BY <1>1, <1>2
  <2>. QED BY <2>1, <1>1 DEF RepositoryInv, RepositoryTypeOK
<1>6. /\ stored \in Seq(Ids)
      /\ keyed \in [Keys -> Ids \cup {NoId}]
      /\ \A n \in 1..Len(stored) : stored[n] \in Ids
  BY DEF RepositoryInv, RepositoryTypeOK
<1>7. \A n \in 1..Len(stored) :
        /\ EventAt(n)' \in Event
        /\ EventAt(n)'.key = EventAt(n).key
        /\ EventAt(n)'.created = EventAt(n).created
  BY <1>1, <1>4, <1>6 DEF RepositoryInv, StoredOnce, EventAt
<1>8. StoredOnce'
  BY <1>1, <1>7 DEF RepositoryInv, StoredOnce
<1>9. KeyedIsNewest'
  <2> SUFFICES ASSUME NEW k \in Keys
               PROVE  /\ keyed[k] # NoId =>
                           record'[keyed[k]] \in Event /\ record'[keyed[k]].key = k
                      /\ \A n \in 1..Len(stored) : EventAt(n)'.key = k =>
                           keyed[k] # NoId /\ EventAt(n)'.created <= record'[keyed[k]].created
    BY <1>1 DEF KeyedIsNewest
  <2>1. keyed[k] # NoId =>
          /\ keyed[k] \in Ids
          /\ record[keyed[k]] \in Event /\ record[keyed[k]].key = k
    BY <1>6 DEF RepositoryInv, KeyedIsNewest
  <2>. QED BY <1>4, <1>7, <2>1 DEF RepositoryInv, KeyedIsNewest
<1>10. SpacedByWindow'
  BY <1>1, <1>7 DEF RepositoryInv, SpacedByWindow
<1>. QED BY <1>5, <1>8, <1>9, <1>10 DEF RepositoryInv

(* An event that is no duplicate is stored behind all those of its key, and  *)
(* later than all of them by more than the window.                           *)
LEMMA AppendKeepsSpacing ==
  ASSUME RepositoryInv, NEW id \in Ids, NEW event \in Event, record[id] = NoEvent,
         AppendEvent(id, event)
  PROVE  RepositoryInv'
<1>1. CASE Duplicate(event)
  <2>1. UNCHANGED repositoryVars
    BY <1>1 DEF AppendEvent
  <2>. QED BY <2>1 DEF RepositoryInv, RepositoryTypeOK, StoredOnce, KeyedIsNewest,
                       SpacedByWindow, EventAt, repositoryVars
<1>2. CASE ~Duplicate(event)
  <2> DEFINE L == Len(stored)
  <2>1. /\ stored' = Append(stored, id)
        /\ record' = [record EXCEPT ![id] = event]
        /\ keyed' = IF event.key = NoKey THEN keyed ELSE [keyed EXCEPT ![event.key] = id]
    BY <1>2 DEF AppendEvent
  <2>2. /\ stored \in Seq(Ids) /\ L \in Nat
        /\ record \in [Ids -> Event \cup {NoEvent}]
        /\ keyed \in [Keys -> Ids \cup {NoId}]
    BY DEF RepositoryInv, RepositoryTypeOK
  <2>3. /\ Len(stored') = L + 1
        /\ stored'[L + 1] = id
        /\ \A n \in 1..L : stored'[n] = stored[n] /\ stored[n] \in Ids
    BY <2>1, <2>2
  <2>4. \A n \in 1..L : stored[n] # id
    BY <2>3, NothingAssumption DEF RepositoryInv, StoredOnce, EventAt
  <2>5. /\ record'[stored'[L + 1]] = event
        /\ \A n \in 1..L : record'[stored'[n]] = EventAt(n) /\ EventAt(n) \in Event
    <3>1. record'[id] = event
      BY <2>1, <2>2
    <3>2. \A i \in Ids : i # id => record'[i] = record[i]
      BY <2>1, <2>2
    <3>. QED BY <2>3, <2>4, <3>1, <3>2 DEF EventAt, RepositoryInv, StoredOnce
  <2>6. event.key \in Keys \cup {NoKey} /\ event.created \in Nat
    BY DEF Event
  <2>7. RepositoryTypeOK'
    BY <2>1, <2>2, <2>6 DEF RepositoryTypeOK
  <2>8. StoredOnce'
    <3>1. \A n \in 1..(L + 1) : record'[stored'[n]] \in Event
      BY <2>2, <2>5
    <3>2. \A m, n \in 1..(L + 1) : stored'[m] = stored'[n] => m = n
      BY <2>2, <2>3, <2>4 DEF RepositoryInv, StoredOnce
    <3>. QED BY <2>3, <3>1, <3>2 DEF StoredOnce, EventAt
  <2>9. \A k \in Keys : keyed[k] # NoId => keyed[k] \in Ids /\ keyed[k] # id
    BY <2>2, NothingAssumption DEF RepositoryInv, KeyedIsNewest
  <2>10. ASSUME event.key # NoKey, NEW n \in 1..L, EventAt(n).key = event.key
         PROVE  event.created > EventAt(n).created + Window
    <3>1. /\ keyed[event.key] # NoId
          /\ EventAt(n).created <= record[keyed[event.key]].created
          /\ record[keyed[event.key]] \in Event
      BY <2>6, <2>10 DEF RepositoryInv, KeyedIsNewest
    <3>2. ~(event.created <= record[keyed[event.key]].created + Window)
      BY <1>2, <2>10, <3>1 DEF Duplicate
    <3>3. EventAt(n).created \in Nat /\ record[keyed[event.key]].created \in Nat
      BY <2>5, <3>1 DEF Event
    <3>. QED BY <2>6, <3>1, <3>2, <3>3, WindowAssumption
  <2>11. KeyedIsNewest'
    <3> SUFFICES ASSUME NEW k \in Keys
                 PROVE  /\ keyed'[k] # NoId =>
                             record'[keyed'[k]] \in Event /\ record'[keyed'[k]].key = k
                        /\ \A n \in 1..(L + 1) : record'[stored'[n]].key = k =>
                             /\ keyed'[k] # NoId
                             /\ record'[stored'[n]].created <= record'[keyed'[k]].created
      BY <2>3 DEF KeyedIsNewest, EventAt
    <3>1. CASE event.key = k
      <4>1. keyed'[k] = id /\ id # NoId /\ record'[id] = event
        BY <2>1, <2>2, <3>1, NothingAssumption
      <4>2. \A n \in 1..L : EventAt(n).key = k => EventAt(n).created <= event.created
        BY <2>5, <2>6, <2>10, <3>1, NothingAssumption, WindowAssumption DEF Event
      <4>. QED BY <2>2, <2>5, <2>6, <3>1, <4>1, <4>2
    <3>2. CASE event.key # k
      <4>1. keyed'[k] = keyed[k]
        BY <2>1, <2>2, <2>6, <3>2
      <4>2. keyed[k] # NoId => record'[keyed[k]] = record[keyed[k]]
        BY <2>1, <2>2, <2>9
      <4>. QED BY <2>2, <2>5, <3>2, <4>1, <4>2 DEF RepositoryInv, KeyedIsNewest
    <3>. QED BY <3>1, <3>2
  <2>12. SpacedByWindow'
    <3> SUFFICES ASSUME NEW m \in 1..(L + 1), NEW n \in 1..(L + 1), m < n,
                        record'[stored'[m]].key = record'[stored'[n]].key,
                        record'[stored'[m]].key # NoKey
                 PROVE  record'[stored'[n]].created > record'[stored'[m]].created + Window
      BY <2>3 DEF SpacedByWindow, EventAt
    <3>1. m \in 1..L
      BY <2>2
    <3>2. CASE n = L + 1
      BY <2>5, <2>10, <3>1, <3>2
    <3>3. CASE n \in 1..L
      BY <2>5, <3>1, <3>3 DEF RepositoryInv, SpacedByWindow
    <3>. QED BY <2>2, <3>2, <3>3
  <2>. QED BY <2>7, <2>8, <2>11, <2>12 DEF RepositoryInv
<1>. QED BY <1>1, <1>2

(* Every step of the repository keeps the invariant.                         *)
LEMMA RepositoryInductive ==
  RepositoryInv /\ [RepositoryNext]_repositoryVars => RepositoryInv'
<1> SUFFICES ASSUME RepositoryInv, [RepositoryNext]_repositoryVars PROVE RepositoryInv'
  OBVIOUS
<1>1. CASE RepositoryNext
  BY <1>1, AppendKeepsSpacing, AuditKeepsEvents DEF RepositoryNext
<1>2. CASE UNCHANGED repositoryVars
  BY <1>2 DEF RepositoryInv, RepositoryTypeOK, StoredOnce, KeyedIsNewest, SpacedByWindow,
              EventAt, repositoryVars
<1>. QED BY <1>1, <1>2

(* Stored events of one key are further apart than the deduplication window  *)
(* (InMemoryMonitoringEventRepository.append), although the order in which   *)
(* events are built is not the order in which they are appended.             *)
THEOREM EventsAreSpaced == RepositorySpec => []SpacedByWindow
<1>1. RepositoryInv => SpacedByWindow
  BY DEF RepositoryInv
<1>. QED BY <1>1, RepositoryInitInv, RepositoryInductive, PTL DEF RepositorySpec

(***************************************************************************)
(* The service on top of the repository                                    *)
(***************************************************************************)
(* Event ids are drawn afresh (uuid4): there is always another one.          *)
IdsNeverRunOut == Nat \ {0} \subseteq Ids

Memo ==
  [warnings: Nat, missing: BOOLEAN, quality: 0..100, alarm: BOOLEAN, checked: BOOLEAN,
   since: Nat]

Request == [at: Points, snap: Memo, draft: Memo, queue: Seq(Nat \ {0})]

ServiceTypeOK ==
  /\ account \in Memo /\ now \in Nat
  /\ built \in Seq(Event)
  /\ req \in [Threads -> Request]
  /\ \A t \in Threads :
       /\ req[t].at \in {"emit", "audit"} <=> req[t].queue # <<>>
       /\ \A n \in 1..Len(req[t].queue) : req[t].queue[n] \in 1..Len(built)
       /\ At(t, "save") => \E f \in Findings : req[t].draft.warnings = f.warnings

(* An event that was built waits in one place of one queue.                  *)
QueuedOnce ==
  \A t, u \in Threads :
    \A m \in 1..Len(req[t].queue), n \in 1..Len(req[u].queue) :
      req[t].queue[m] = req[u].queue[n] => t = u /\ m = n

(* What is queued is not recorded, but for the head of a queue that waits    *)
(* for its audit id.                                                         *)
QueuedIsNew ==
  \A t \in Threads : \A n \in 1..Len(req[t].queue) :
    record[req[t].queue[n]] = NoEvent <=> ~(n = 1 /\ At(t, "audit"))

SameEvent(e, f) ==
  /\ e.key = f.key /\ e.created = f.created /\ e.content = f.content
  /\ f.audited => e.audited

(* What is recorded was built, and is stored.                                *)
RecordedIsStored ==
  \A i \in Ids : record[i] # NoEvent =>
    /\ i \in 1..Len(built)
    /\ SameEvent(record[i], built[i])
    /\ \E n \in 1..Len(stored) : stored[n] = i

(* The type of an event with a key is the one its key begins with.           *)
TypeOfKey ==
  [degraded |-> "market_data_degraded", fx_missing |-> "fx_missing",
   error |-> "monitoring_error"]

KeyTellsType ==
  \A i \in 1..Len(built) : built[i].key # NoKey =>
    built[i].content.type = TypeOfKey[built[i].key[1]]

(* Events are built in time; what has no audit id is an error report.        *)
BuiltInTime ==
  \A i \in 1..Len(built) :
    built[i].created <= now /\ (built[i].audited \/ IsReport(built[i]))

(* A report is all that its request has still to store.                      *)
ReportsGoAlone ==
  \A t \in Threads : \A n \in 1..Len(req[t].queue) :
    IsReport(built[req[t].queue[n]]) => Len(req[t].queue) = 1

(* An event is given up for a report of a refused audit write, built after   *)
(* it; a report may have its own emission refused.                           *)
GivenUpForReport ==
  /\ report \in [Ids -> Ids \cup {NoId}]
  /\ \A id \in Ids : report[id] # NoId =>
       /\ id \in 1..Len(built) /\ report[id] \in 1..Len(built)
       /\ IsReport(built[report[id]])
       /\ report[id] # id =>
            /\ built[report[id]].key = AuditKey
            /\ built[report[id]].created >= built[id].created

(* A stored event stands for one that was built.                             *)
Represents(n, id) ==
  /\ stored[n] = id \/ built[id].key # NoKey
  /\ EventAt(n).key = built[id].key
  /\ EventAt(n).content.type = built[id].content.type
  /\ EventAt(n).created + Window >= built[id].created

Represented(id) == \E n \in 1..Len(stored) : Represents(n, id)

Answered(id) ==
  \/ Represented(id)
  \/ /\ report[id] # NoId /\ report[id] # id
     /\ report[id] \in InProgress \/ Represented(report[id])

(* An event that is no longer queued is represented by a stored one, or      *)
(* given up for a report that is or will be.                                 *)
AnsweredIsRepresented ==
  \A id \in 1..Len(built) : id \notin InProgress => Answered(id)

TellsOfOutage(event) == event.content.type = "fx_missing" \/ event.key = AuditKey

(* About a missing rate that a record tells of an event was built, not       *)
(* before it was found, or a report that the audit log refused a write.      *)
Told(memo) ==
  memo.missing =>
    \E id \in 1..Len(built) :
      TellsOfOutage(built[id]) /\ built[id].created >= memo.since

OutageIsTold ==
  /\ Told(account)
  /\ \A t \in Threads :
       /\ Told(req[t].snap)
       /\ At(t, "save") => IF req[t].snap.missing
                           THEN req[t].draft.since = req[t].snap.since
                           ELSE req[t].draft.since <= now

QueueInv ==
  /\ RepositoryInv /\ ServiceTypeOK
  /\ QueuedOnce /\ QueuedIsNew /\ RecordedIsStored /\ KeyTellsType
  /\ BuiltInTime /\ ReportsGoAlone /\ GivenUpForReport

EventsInv == QueueInv /\ AnsweredIsRepresented /\ StoredEventsAreAudited /\ OutageIsTold

(***************************************************************************)
(* The events of a tick                                                    *)
(***************************************************************************)
KeyFits(e) == e.key # NoKey => e.content.type = TypeOfKey[e.key[1]]

(* What a tick or a failed tick builds now.                                  *)
Buildable ==
  {e \in Event : KeyFits(e) /\ e.created = now /\ (e.audited \/ IsReport(e))}

(* What a tick builds: everything but the reports.                           *)
Ordinary == {e \in Buildable : ~IsReport(e)}

LEMMA BuiltIsBuildable ==
  ASSUME now \in Nat, NEW severity \in {"info", "warning", "critical"},
         NEW f \in Findings
  PROVE  /\ Built("monitoring_tick_completed", severity, NoKey, TRUE) \in Ordinary
         /\ Built("market_data_degraded", severity, <<"degraded", f.warnings>>, TRUE)
              \in Ordinary
         /\ Built("fx_missing", severity, <<"fx_missing", f.warnings>>, TRUE) \in Ordinary
<1>1. \A type \in {"monitoring_tick_completed", "market_data_degraded", "fx_missing"} :
        [type |-> type, severity |-> severity] \in Contents
  BY EventsAssumption
<1>2. <<"degraded", f.warnings>> \in Keys /\ <<"fx_missing", f.warnings>> \in Keys
  BY EventsAssumption
<1>3. \A type \in {"monitoring_tick_completed", "market_data_degraded", "fx_missing"},
         key \in Keys \cup {NoKey} :
        /\ Built(type, severity, key, TRUE) \in Event
        /\ Built(type, severity, key, TRUE).created = now
        /\ Built(type, severity, key, TRUE).key = key
        /\ Built(type, severity, key, TRUE).audited
        /\ Built(type, severity, key, TRUE).content.type = type
  BY <1>1 DEF Built, Event
<1>4. /\ TypeOfKey["degraded"] = "market_data_degraded"
      /\ TypeOfKey["fx_missing"] = "fx_missing"
  BY DEF TypeOfKey
<1>5. /\ <<"degraded", f.warnings>>[1] = "degraded"
      /\ <<"fx_missing", f.warnings>>[1] = "fx_missing"
  OBVIOUS
<1>6. \A type \in {"monitoring_tick_completed", "market_data_degraded", "fx_missing"},
         key \in Keys \cup {NoKey} :
        (key # NoKey => type = TypeOfKey[key[1]]) => Built(type, severity, key, TRUE) \in Ordinary
  <2> SUFFICES ASSUME NEW type \in {"monitoring_tick_completed", "market_data_degraded",
                                    "fx_missing"},
                      NEW key \in Keys \cup {NoKey},
                      key # NoKey => type = TypeOfKey[key[1]]
               PROVE  Built(type, severity, key, TRUE) \in Ordinary
    OBVIOUS
  <2>1. PICK e \in Event : e = Built(type, severity, key, TRUE)
    BY <1>3
  <2>2. e.created = now /\ e.key = key /\ e.audited /\ e.content.type = type
    BY <2>1 DEF Built
  <2>3. type # "monitoring_error"
    OBVIOUS
  <2>4. KeyFits(e) /\ ~IsReport(e)
    BY <2>2, <2>3 DEF KeyFits, IsReport
  <2>. QED BY <2>1, <2>2, <2>4 DEF Ordinary, Buildable
<1>. QED BY <1>2, <1>4, <1>5, <1>6

(* The two reports of the except clause.                                     *)
LEMMA ReportsAreBuildable ==
  ASSUME now \in Nat
  PROVE  /\ EvaluationError \in Buildable /\ IsReport(EvaluationError)
         /\ AuditError \in Buildable /\ IsReport(AuditError) /\ AuditError.key = AuditKey
<1>1. \A severity \in {"warning", "critical"}, key \in {EvaluationKey, AuditKey} :
        /\ Built("monitoring_error", severity, key, FALSE) \in Event
        /\ Built("monitoring_error", severity, key, FALSE).created = now
        /\ Built("monitoring_error", severity, key, FALSE).key = key
        /\ Built("monitoring_error", severity, key, FALSE).content.type = "monitoring_error"
  <2>1. \A severity \in {"warning", "critical"} :
          [type |-> "monitoring_error", severity |-> severity] \in Contents
    BY EventsAssumption
  <2>2. EvaluationKey \in Keys /\ AuditKey \in Keys
    BY EventsAssumption DEF EvaluationKey, AuditKey
  <2>. QED BY <2>1, <2>2 DEF Built, Event
<1>2. /\ TypeOfKey[EvaluationKey[1]] = "monitoring_error"
      /\ TypeOfKey[AuditKey[1]] = "monitoring_error"
  BY DEF TypeOfKey, EvaluationKey, AuditKey
<1>. QED BY <1>1, <1>2 DEF Buildable, KeyFits, IsReport, EvaluationError, AuditError

LEMMA TickEventsShape ==
  ASSUME now \in Nat, NEW snap, NEW draft, NEW f \in Findings, draft.warnings = f.warnings
  PROVE  /\ TickEvents(snap, draft) \in Seq(Ordinary)
         /\ Len(TickEvents(snap, draft)) >= 1
         /\ MissingAppeared(snap, draft) =>
              \E n \in 1..Len(TickEvents(snap, draft)) :
                TickEvents(snap, draft)[n].content.type = "fx_missing"
<1> DEFINE completed == <<Built("monitoring_tick_completed", "info", NoKey, TRUE)>>
           degraded == Built("market_data_degraded", "warning",
                             <<"degraded", draft.warnings>>, TRUE)
           missing == Built("fx_missing", IF draft.alarm THEN "critical" ELSE "warning",
                            <<"fx_missing", draft.warnings>>, TRUE)
           first == completed \o When(Degraded(snap, draft), degraded)
           second == When(MissingAppeared(snap, draft), missing)
<1>1. completed \in Seq(Ordinary) /\ Len(completed) = 1
  <2> DEFINE done == Built("monitoring_tick_completed", "info", NoKey, TRUE)
  <2>1. done \in Ordinary
    BY BuiltIsBuildable
  <2> HIDE DEF done
  <2>2. <<done>> \in Seq(Ordinary) /\ Len(<<done>>) = 1
    BY <2>1
  <2>. QED BY <2>2 DEF done
<1>2. degraded \in Ordinary /\ missing \in Ordinary
  <2>1. degraded \in Ordinary
    BY BuiltIsBuildable
  <2>2. \A severity \in {"info", "warning", "critical"} :
          Built("fx_missing", severity, <<"fx_missing", f.warnings>>, TRUE) \in Ordinary
    BY BuiltIsBuildable
  <2>3. (IF draft.alarm THEN "critical" ELSE "warning") \in {"info", "warning", "critical"}
    OBVIOUS
  <2>4. missing \in Ordinary
    BY <2>2, <2>3
  <2>. QED BY <2>1, <2>4
<1>3. missing.content.type = "fx_missing"
  BY DEF Built
<1>4. TickEvents(snap, draft) = first \o second
  BY DEF TickEvents
<1> HIDE DEF completed, degraded, missing
<1>5. When(Degraded(snap, draft), degraded) \in Seq(Ordinary)
  BY <1>2 DEF When
<1>6. first \in Seq(Ordinary) /\ Len(first) >= 1
  <2> DEFINE rest == When(Degraded(snap, draft), degraded)
  <2>1. rest \in Seq(Ordinary)
    BY <1>5
  <2> HIDE DEF rest
  <2>2. completed \o rest \in Seq(Ordinary)
    BY <1>1, <2>1
  <2>3. Len(rest) \in Nat /\ Len(completed) \in Nat
    BY <1>1, <2>1
  <2>4. ASSUME NEW s \in Seq(Ordinary), NEW u \in Seq(Ordinary)
        PROVE  Len(s \o u) = Len(s) + Len(u)
    OBVIOUS
  <2>5. Len(completed \o rest) = Len(completed) + Len(rest)
    BY <1>1, <2>1, <2>4
  <2>. QED BY <1>1, <2>2, <2>3, <2>5 DEF rest
<1>7. second \in Seq(Ordinary)
  BY <1>2 DEF When
<1>8. MissingAppeared(snap, draft) => second = <<missing>>
  BY DEF When
<1> HIDE DEF first, second
<1>9. first \o second \in Seq(Ordinary) /\ Len(first \o second) >= 1
  BY <1>6, <1>7
<1>10. ASSUME MissingAppeared(snap, draft)
       PROVE  \E n \in 1..Len(first \o second) : (first \o second)[n].content.type = "fx_missing"
  <2>1. second = <<missing>> /\ Len(second) = 1 /\ second[1] = missing
    BY <1>8, <1>10
  <2>2. /\ Len(first) + 1 \in 1..Len(first \o second)
        /\ (first \o second)[Len(first) + 1] = missing
    BY <1>6, <1>7, <2>1
  <2>. QED BY <1>3, <2>2
<1>. QED BY <1>4, <1>9, <1>10

(***************************************************************************)
(* The queues                                                              *)
(***************************************************************************)
LEMMA DequeuedShape ==
  ASSUME ServiceTypeOK, NEW t \in Threads, req[t].queue # <<>>
  PROVE  /\ Dequeued(t) \in Request
         /\ Len(Dequeued(t).queue) = Len(req[t].queue) - 1
         /\ \A n \in 1..(Len(req[t].queue) - 1) : Dequeued(t).queue[n] = req[t].queue[n + 1]
         /\ Dequeued(t).at \in {"emit", "audit"} <=> Dequeued(t).queue # <<>>
         /\ Dequeued(t).at \in {"idle", "emit"}
         /\ Told(req[t].snap) => Told(Dequeued(t).snap)
<1>1. req[t] \in Request /\ req[t].queue \in Seq(Nat \ {0})
  BY DEF ServiceTypeOK, Request
<1>2. CASE Len(req[t].queue) = 1
  <2>1. Dequeued(t) = Idle
    BY <1>2 DEF Dequeued
  <2>2. Unchecked \in Memo /\ Unchecked.missing = FALSE
    BY DEF Unchecked, Memo
  <2>3. <<>> \in Seq(Nat \ {0})
    OBVIOUS
  <2>4. Idle \in Request /\ Idle.queue = <<>> /\ Idle.at = "idle" /\ Idle.snap = Unchecked
    BY <2>2, <2>3 DEF Idle, Request, Points
  <2>. QED BY <1>2, <2>1, <2>2, <2>4 DEF Told
<1>3. CASE Len(req[t].queue) # 1
  <2>1. Dequeued(t) = [req[t] EXCEPT !.at = "emit", !.queue = Tail(req[t].queue)]
    BY <1>3 DEF Dequeued
  <2>2. /\ Tail(req[t].queue) \in Seq(Nat \ {0})
        /\ Len(Tail(req[t].queue)) = Len(req[t].queue) - 1
        /\ \A n \in 1..(Len(req[t].queue) - 1) : Tail(req[t].queue)[n] = req[t].queue[n + 1]
        /\ Tail(req[t].queue) # <<>>
    <3> DEFINE q == req[t].queue
    <3>1. q \in Seq(Nat \ {0}) /\ q # <<>> /\ Len(q) # 1
      BY <1>1, <1>3
    <3> HIDE DEF q
    <3>2. /\ Tail(q) \in Seq(Nat \ {0}) /\ Len(Tail(q)) = Len(q) - 1
          /\ \A n \in 1..(Len(q) - 1) : Tail(q)[n] = q[n + 1]
      BY <3>1
    <3>3. Len(q) - 1 # 0
      BY <3>1
    <3>4. Tail(q) # <<>>
      BY <3>2, <3>3
    <3>. QED BY <3>2, <3>4 DEF q
  <2>3. /\ Dequeued(t).at = "emit" /\ Dequeued(t).queue = Tail(req[t].queue)
        /\ Dequeued(t).snap = req[t].snap /\ Dequeued(t) \in Request
    BY <1>1, <2>1, <2>2 DEF Request, Points
  <2>. QED BY <2>2, <2>3
<1>. QED BY <1>2, <1>3

(* The head of a queue leaves it, and nothing else does.                     *)
LEMMA DequeueStep ==
  ASSUME QueueInv, NEW t \in Threads, req[t].queue # <<>>,
         req' = [req EXCEPT ![t] = Dequeued(t)],
         UNCHANGED <<account, now, built>>
  PROVE  /\ ServiceTypeOK' /\ QueuedOnce' /\ BuiltInTime' /\ ReportsGoAlone'
         /\ InProgress = InProgress' \cup {Head(req[t].queue)}
         /\ \A u \in Threads : \A n \in 1..Len(req'[u].queue) :
              \E m \in 1..Len(req[u].queue) :
                /\ req'[u].queue[n] = req[u].queue[m]
                /\ u = t => m > 1
                /\ u # t => m = n /\ req'[u] = req[u]
<1> DEFINE q == req[t].queue
<1>1. /\ req[t] \in Request /\ q \in Seq(Nat \ {0}) /\ Len(q) \in Nat \ {0}
      /\ Head(q) = q[1]
  BY DEF QueueInv, ServiceTypeOK, Request
<1>2. /\ req'[t] = Dequeued(t)
      /\ \A u \in Threads : u # t => req'[u] = req[u]
      /\ req' \in [Threads -> Request]
  BY DequeuedShape DEF QueueInv, ServiceTypeOK
<1>3. /\ Len(req'[t].queue) = Len(q) - 1
      /\ \A n \in 1..(Len(q) - 1) : req'[t].queue[n] = q[n + 1]
      /\ req'[t].at \in {"emit", "audit"} <=> req'[t].queue # <<>>
      /\ req'[t].at \in {"idle", "emit"}
  BY <1>2, DequeuedShape DEF QueueInv
<1>4. \A u \in Threads : \A n \in 1..Len(req'[u].queue) :
        /\ u = t => /\ n + 1 \in 2..Len(req[t].queue)
                    /\ req'[u].queue[n] = req[t].queue[n + 1]
        /\ u # t => req'[u].queue[n] = req[u].queue[n] /\ req'[u] = req[u]
  BY <1>1, <1>2, <1>3
<1>5. \A u \in Threads : \A n \in 1..Len(req'[u].queue) :
        \E m \in 1..Len(req[u].queue) :
          /\ req'[u].queue[n] = req[u].queue[m]
          /\ m = IF u = t THEN n + 1 ELSE n
          /\ u # t => req'[u] = req[u]
  BY <1>1, <1>2, <1>4
<1>6. ServiceTypeOK'
  <2>1. \A u \in Threads :
          /\ req'[u].at \in {"emit", "audit"} <=> req'[u].queue # <<>>
          /\ \A n \in 1..Len(req'[u].queue) : req'[u].queue[n] \in 1..Len(built)
          /\ req'[u].at = "save" => \E f \in Findings : req'[u].draft.warnings = f.warnings
    <3> SUFFICES ASSUME NEW u \in Threads
                 PROVE  /\ req'[u].at \in {"emit", "audit"} <=> req'[u].queue # <<>>
                        /\ \A n \in 1..Len(req'[u].queue) :
                             req'[u].queue[n] \in 1..Len(built)
                        /\ req'[u].at = "save" =>
                             \E f \in Findings : req'[u].draft.warnings = f.warnings
      OBVIOUS
    <3>1. \A m \in 1..Len(req[u].queue) : req[u].queue[m] \in 1..Len(built)
      BY DEF QueueInv, ServiceTypeOK
    <3>2. \A n \in 1..Len(req'[u].queue) : req'[u].queue[n] \in 1..Len(built)
      BY <1>5, <3>1
    <3>3. CASE u = t
      BY <1>3, <3>2, <3>3
    <3>4. CASE u # t
      BY <1>2, <3>2, <3>4 DEF QueueInv, ServiceTypeOK, At
    <3>. QED BY <3>3, <3>4
  <2>. QED BY <1>2, <2>1 DEF QueueInv, ServiceTypeOK, At
<1>7. QueuedOnce'
  <2> SUFFICES ASSUME NEW u \in Threads, NEW w \in Threads,
                      NEW m \in 1..Len(req'[u].queue), NEW n \in 1..Len(req'[w].queue),
                      req'[u].queue[m] = req'[w].queue[n]
               PROVE  u = w /\ m = n
    BY DEF QueuedOnce
  <2>1. PICK i \in 1..Len(req[u].queue) :
          req'[u].queue[m] = req[u].queue[i] /\ i = IF u = t THEN m + 1 ELSE m
    BY <1>5
  <2>2. PICK j \in 1..Len(req[w].queue) :
          req'[w].queue[n] = req[w].queue[j] /\ j = IF w = t THEN n + 1 ELSE n
    BY <1>5
  <2>3. u = w /\ i = j
    BY <2>1, <2>2 DEF QueueInv, QueuedOnce
  <2>4. m \in Int /\ n \in Int
    OBVIOUS
  <2>. QED BY <2>1, <2>2, <2>3, <2>4
<1>8. InProgress' \subseteq InProgress
  BY <1>5 DEF InProgress, Queued
<1>9. Head(q) \in InProgress
  BY <1>1 DEF InProgress, Queued
<1>10. ASSUME NEW id \in InProgress, id # Head(q)
       PROVE  id \in InProgress'
  <2>0. PICK u \in Threads : \E m \in 1..Len(req[u].queue) : id = req[u].queue[m]
    BY DEF InProgress, Queued
  <2>1. PICK m \in 1..Len(req[u].queue) : id = req[u].queue[m]
    BY <2>0
  <2>2. CASE u = t
    <3>1. m # 1
      BY <1>1, <1>10, <2>1, <2>2
    <3>2. m - 1 \in 1..(Len(q) - 1) /\ (m - 1) + 1 = m
      BY <1>1, <2>1, <2>2, <3>1
    <3>3. m - 1 \in 1..Len(req'[t].queue) /\ req'[t].queue[m - 1] = id
      BY <1>3, <2>1, <2>2, <3>2
    <3>. QED BY <3>3 DEF InProgress, Queued
  <2>3. CASE u # t
    BY <1>2, <2>1, <2>3 DEF InProgress, Queued
  <2>. QED BY <2>2, <2>3
<1>11. InProgress = InProgress' \cup {Head(q)}
  BY <1>8, <1>9, <1>10
<1>12. \A u \in Threads : \A n \in 1..Len(req'[u].queue) :
         \E m \in 1..Len(req[u].queue) :
           /\ req'[u].queue[n] = req[u].queue[m]
           /\ u = t => m > 1
           /\ u # t => m = n /\ req'[u] = req[u]
  BY <1>5
<1>13. BuiltInTime'
  BY DEF QueueInv, BuiltInTime
<1>14. ReportsGoAlone'
  <2> SUFFICES ASSUME NEW u \in Threads, NEW n \in 1..Len(req'[u].queue),
                      IsReport(built[req'[u].queue[n]])
               PROVE  Len(req'[u].queue) = 1
    BY DEF ReportsGoAlone
  <2>1. PICK m \in 1..Len(req[u].queue) :
          /\ req'[u].queue[n] = req[u].queue[m]
          /\ u = t => m > 1
          /\ u # t => m = n /\ req'[u] = req[u]
    BY <1>12
  <2>2. Len(req[u].queue) = 1
    BY <2>1 DEF QueueInv, ReportsGoAlone
  <2>. QED BY <2>1, <2>2
<1>. QED BY <1>6, <1>7, <1>11, <1>12, <1>13, <1>14

(***************************************************************************)
(* One step of the service: the queues and the records                     *)
(***************************************************************************)
(* What is answered stays so, while stored events stand for as much as ever  *)
(* and a report leaves the queues only when it is represented.               *)
LEMMA StaysAnswered ==
  ASSUME QueueInv, NEW id \in 1..Len(built), id \in Ids, Answered(id),
         report'[id] = report[id],
         \A i \in 1..Len(built) : Represented(i) => Represented(i)',
         \A i \in 1..Len(built) : IsReport(built[i]) /\ i \in InProgress =>
           i \in InProgress' \/ Represented(i)'
  PROVE  Answered(id)'
<1>1. CASE Represented(id)
  BY <1>1 DEF Answered
<1>2. CASE /\ report[id] # NoId /\ report[id] # id
           /\ report[id] \in InProgress \/ Represented(report[id])
  <2>1. report[id] \in 1..Len(built) /\ IsReport(built[report[id]])
    BY <1>2 DEF QueueInv, GivenUpForReport
  <2>2. PICK r : r = report[id]
    OBVIOUS
  <2>3. r \in InProgress' \/ Represented(r)'
    BY <1>2, <2>1, <2>2
  <2>4. Represented(r)' => Represented(report[id])'
    BY <2>2 DEF Represented, Represents
  <2>. QED BY <1>2, <2>2, <2>3, <2>4 DEF Answered
<1>. QED BY <1>1, <1>2 DEF Answered

(* A step that moves no event keeps every fact about events.                 *)
LEMMA NothingMoves ==
  ASSUME IdsNeverRunOut, QueueInv, AnsweredIsRepresented, StoredEventsAreAudited,
         ServiceTypeOK', now <= now',
         UNCHANGED <<repositoryVars, built, report>>,
         \A t \in Threads : /\ req'[t].queue = req[t].queue
                            /\ req[t].queue # <<>> => req'[t].at = req[t].at
  PROVE  QueueInv' /\ AnsweredIsRepresented' /\ StoredEventsAreAudited'
<1>1. /\ stored' = stored /\ record' = record /\ keyed' = keyed /\ built' = built
      /\ report' = report
  BY DEF repositoryVars
<1>2. RepositoryInv'
  BY <1>1 DEF QueueInv, RepositoryInv, RepositoryTypeOK, StoredOnce, KeyedIsNewest,
             SpacedByWindow, EventAt
<1>3. QueuedOnce'
  <2> SUFFICES ASSUME NEW t \in Threads, NEW u \in Threads,
                      NEW m \in 1..Len(req'[t].queue), NEW n \in 1..Len(req'[u].queue),
                      req'[t].queue[m] = req'[u].queue[n]
               PROVE  t = u /\ m = n
    BY DEF QueuedOnce
  <2>1. req'[t].queue = req[t].queue /\ req'[u].queue = req[u].queue
    OBVIOUS
  <2>. QED BY <2>1 DEF QueueInv, QueuedOnce
<1>4. QueuedIsNew'
  <2> SUFFICES ASSUME NEW t \in Threads, NEW n \in 1..Len(req[t].queue)
               PROVE  record[req[t].queue[n]] = NoEvent <=> ~(n = 1 /\ req'[t].at = "audit")
    BY <1>1 DEF QueuedIsNew, At
  <2>1. req[t].queue # <<>>
    OBVIOUS
  <2>. QED BY <2>1 DEF QueueInv, QueuedIsNew, At
<1>5. RecordedIsStored' /\ KeyTellsType' /\ GivenUpForReport'
  BY <1>1 DEF QueueInv, RecordedIsStored, KeyTellsType, GivenUpForReport
<1>6. BuiltInTime'
  <2>1. built \in Seq(Event) /\ now \in Nat /\ now' \in Nat
    BY <1>1 DEF QueueInv, ServiceTypeOK
  <2>2. \A i \in 1..Len(built) : built[i].created \in Nat
    <3>1. \A i \in 1..Len(built) : built[i] \in Event
      BY <2>1
    <3>. QED BY <3>1 DEF Event
  <2> SUFFICES ASSUME NEW i \in 1..Len(built)
               PROVE  built[i].created <= now' /\ (built[i].audited \/ IsReport(built[i]))
    BY <1>1 DEF BuiltInTime
  <2>3. built[i].created <= now /\ (built[i].audited \/ IsReport(built[i]))
    BY DEF QueueInv, BuiltInTime
  <2>. QED BY <2>1, <2>2, <2>3
<1>7. ReportsGoAlone'
  BY <1>1 DEF QueueInv, ReportsGoAlone
<1>8. InProgress' = InProgress
  BY DEF InProgress, Queued
<1>9. AnsweredIsRepresented'
  BY <1>1, <1>8 DEF AnsweredIsRepresented, Answered, Represented, Represents, EventAt
<1>10. StoredEventsAreAudited'
  BY <1>1, <1>8 DEF StoredEventsAreAudited, EventAt
<1>. QED BY <1>2, <1>3, <1>4, <1>5, <1>6, <1>7, <1>9, <1>10 DEF QueueInv

(* New events are queued under new ids, in place of what was queued: a       *)
(* report in place of ordinary events, which it is the report of.            *)
LEMMA EnqueueStep ==
  ASSUME IdsNeverRunOut, QueueInv, AnsweredIsRepresented, StoredEventsAreAudited,
         NEW t \in Threads, NEW events \in Seq(Buildable), Len(events) >= 1,
         \A n \in 1..Len(events) : IsReport(events[n]) => Len(events) = 1,
         \A x \in Queued(t) : ~IsReport(built[x]) /\ IsReport(events[1])
                                /\ events[1].key = AuditKey,
         Enqueue(t, events),
         report' = [x \in Ids |-> IF x \in Queued(t) THEN Len(built) + 1 ELSE report[x]],
         UNCHANGED <<repositoryVars, now>>, account' \in Memo
  PROVE  QueueInv' /\ AnsweredIsRepresented' /\ StoredEventsAreAudited'
<1> DEFINE L == Len(built)
           K == Len(events)
           fresh == [n \in 1..K |-> L + n]
<1>1. stored' = stored /\ record' = record /\ keyed' = keyed
  BY DEF repositoryVars
<1>2. RepositoryInv'
  BY <1>1 DEF QueueInv, RepositoryInv, RepositoryTypeOK, StoredOnce, KeyedIsNewest,
             SpacedByWindow, EventAt
<1>3. /\ built \in Seq(Event) /\ L \in Nat /\ K \in Nat \ {0} /\ events \in Seq(Event)
      /\ req \in [Threads -> Request] /\ req[t] \in Request
      /\ built' = built \o events
  BY DEF QueueInv, ServiceTypeOK, Enqueue, Buildable
<1>4. /\ built' \in Seq(Event) /\ Len(built') = L + K
      /\ \A n \in 1..L : built'[n] = built[n]
      /\ \A n \in 1..K : built'[L + n] = events[n] /\ L + n \in 1..Len(built')
  BY <1>3
<1>5. \A n \in 1..Len(built') : n \in 1..L \/ n - L \in 1..K
  BY <1>3, <1>4
<1>6. fresh \in Seq(Nat \ {0}) /\ Len(fresh) = K /\ fresh # <<>>
  BY <1>3
<1>7. /\ req' = [req EXCEPT ![t] = [Idle EXCEPT !.at = "emit", !.queue = fresh]]
  BY DEF Enqueue, Proceed
<1> HIDE DEF fresh
<1>8. /\ req'[t].queue = fresh /\ req'[t].at = "emit" /\ req'[t] \in Request
      /\ \A u \in Threads : u # t => req'[u] = req[u]
      /\ req' \in [Threads -> Request]
  <2>1. Unchecked \in Memo
    BY DEF Unchecked, Memo
  <2>2. [Idle EXCEPT !.at = "emit", !.queue = fresh] \in Request
    BY <1>6, <2>1 DEF Idle, Request, Points
  <2>3. /\ [Idle EXCEPT !.at = "emit", !.queue = fresh].queue = fresh
        /\ [Idle EXCEPT !.at = "emit", !.queue = fresh].at = "emit"
    BY DEF Idle
  <2>. QED BY <1>3, <1>7, <2>2, <2>3
<1>9. \A n \in 1..K : fresh[n] = L + n
  BY DEF fresh
<1>10. \A u \in Threads : \A n \in 1..Len(req[u].queue) : req[u].queue[n] \in 1..L
  BY DEF QueueInv, ServiceTypeOK
<1>11. ServiceTypeOK'
  <2> SUFFICES ASSUME NEW u \in Threads
               PROVE  /\ req'[u].at \in {"emit", "audit"} <=> req'[u].queue # <<>>
                      /\ \A n \in 1..Len(req'[u].queue) :
                           req'[u].queue[n] \in 1..Len(built')
                      /\ req'[u].at = "save" =>
                           \E f \in Findings : req'[u].draft.warnings = f.warnings
    BY <1>4, <1>8 DEF QueueInv, ServiceTypeOK, At
  <2>1. CASE u = t
    BY <1>4, <1>6, <1>8, <1>9, <2>1
  <2>2. CASE u # t
    <3>1. \A n \in 1..Len(req[u].queue) : req[u].queue[n] \in 1..Len(built')
      BY <1>3, <1>4, <1>10
    <3>. QED BY <1>8, <2>2, <3>1 DEF QueueInv, ServiceTypeOK, At
  <2>. QED BY <2>1, <2>2
<1>12. QueuedOnce'
  <2> SUFFICES ASSUME NEW u \in Threads, NEW w \in Threads,
                      NEW m \in 1..Len(req'[u].queue), NEW n \in 1..Len(req'[w].queue),
                      req'[u].queue[m] = req'[w].queue[n]
               PROVE  u = w /\ m = n
    BY DEF QueuedOnce
  <2>1. CASE u = t /\ w = t
    <3>1. m \in 1..K /\ n \in 1..K /\ L + m = L + n
      BY <1>6, <1>8, <1>9, <2>1
    <3>. QED BY <1>3, <2>1, <3>1
  <2>2. CASE u = t /\ w # t
    <3>1. m \in 1..K /\ req'[u].queue[m] = L + m
      BY <1>6, <1>8, <1>9, <2>2
    <3>2. req'[w].queue[n] \in 1..L
      BY <1>8, <1>10, <2>2
    <3> HIDE DEF L, K
    <3>. QED BY <1>3, <3>1, <3>2
  <2>3. CASE u # t /\ w = t
    <3>1. n \in 1..K /\ req'[w].queue[n] = L + n
      BY <1>6, <1>8, <1>9, <2>3
    <3>2. req'[u].queue[m] \in 1..L
      BY <1>8, <1>10, <2>3
    <3> HIDE DEF L, K
    <3>. QED BY <1>3, <3>1, <3>2
  <2>4. CASE u # t /\ w # t
    BY <1>8, <2>4 DEF QueueInv, QueuedOnce
  <2>. QED BY <2>1, <2>2, <2>3, <2>4
<1>13. \A n \in 1..K : record[L + n] = NoEvent
  <2> SUFFICES ASSUME NEW n \in 1..K, record[L + n] # NoEvent PROVE FALSE
    OBVIOUS
  <2>1. L + n \in Ids
    BY <1>3 DEF IdsNeverRunOut
  <2>2. L + n \in 1..L
    BY <2>1 DEF QueueInv, RecordedIsStored
  <2>. QED BY <1>3, <2>2
<1>14. QueuedIsNew'
  <2> SUFFICES ASSUME NEW u \in Threads, NEW n \in 1..Len(req'[u].queue)
               PROVE  record[req'[u].queue[n]] = NoEvent <=> ~(n = 1 /\ req'[u].at = "audit")
    BY <1>1 DEF QueuedIsNew, At
  <2>1. CASE u = t
    BY <1>6, <1>8, <1>9, <1>13, <2>1
  <2>2. CASE u # t
    BY <1>8, <2>2 DEF QueueInv, QueuedIsNew, At
  <2>. QED BY <2>1, <2>2
<1>15. RecordedIsStored'
  <2> SUFFICES ASSUME NEW i \in Ids, record[i] # NoEvent
               PROVE  /\ i \in 1..Len(built')
                      /\ SameEvent(record[i], built'[i])
                      /\ \E n \in 1..Len(stored) : stored[n] = i
    BY <1>1 DEF RecordedIsStored
  <2>1. /\ i \in 1..L /\ SameEvent(record[i], built[i])
        /\ \E n \in 1..Len(stored) : stored[n] = i
    BY DEF QueueInv, RecordedIsStored
  <2>. QED BY <1>3, <1>4, <2>1
<1>16. KeyTellsType'
  <2> SUFFICES ASSUME NEW i \in 1..Len(built'), built'[i].key # NoKey
               PROVE  built'[i].content.type = TypeOfKey[built'[i].key[1]]
    BY DEF KeyTellsType
  <2>1. CASE i \in 1..L
    BY <1>4, <2>1 DEF QueueInv, KeyTellsType
  <2>2. CASE i - L \in 1..K
    <3>1. i = L + (i - L)
      BY <1>3
    <3>2. built'[i] = events[i - L] /\ events[i - L] \in Buildable
      BY <1>4, <2>2, <3>1
    <3>. QED BY <3>2 DEF Buildable, KeyFits
  <2>. QED BY <1>5, <2>1, <2>2
<1>17. /\ InProgress' \subseteq InProgress \cup {L + n : n \in 1..K}
       /\ InProgress \subseteq InProgress' \cup Queued(t)
       /\ \A n \in 1..K : L + n \in InProgress'
  <2>1. ASSUME NEW x \in InProgress'
        PROVE  x \in InProgress \cup {L + n : n \in 1..K}
    <3>1. PICK u \in Threads : \E n \in 1..Len(req'[u].queue) : x = req'[u].queue[n]
      BY DEF InProgress, Queued
    <3>2. PICK n \in 1..Len(req'[u].queue) : x = req'[u].queue[n]
      BY <3>1
    <3>3. CASE u = t
      BY <1>6, <1>8, <1>9, <3>2, <3>3
    <3>4. CASE u # t
      BY <1>8, <3>2, <3>4 DEF InProgress, Queued
    <3>. QED BY <3>3, <3>4
  <2>2. ASSUME NEW x \in InProgress, x \notin Queued(t)
        PROVE  x \in InProgress'
    <3>1. PICK u \in Threads : x \in Queued(u)
      BY DEF InProgress
    <3>2. u # t
      BY <2>2, <3>1
    <3>. QED BY <1>8, <3>1, <3>2 DEF InProgress, Queued
  <2>3. ASSUME NEW n \in 1..K
        PROVE  L + n \in InProgress'
    <3>1. n \in 1..Len(req'[t].queue) /\ L + n = req'[t].queue[n]
      BY <1>6, <1>8, <1>9
    <3>. QED BY <3>1 DEF InProgress, Queued
  <2>. QED BY <2>1, <2>2, <2>3
<1>18. \A x \in Queued(t) : x \in 1..L /\ x \in Ids
  BY <1>3, <1>10 DEF Queued, IdsNeverRunOut
<1>19. /\ \A x \in Ids : report'[x] = IF x \in Queued(t) THEN L + 1 ELSE report[x]
       /\ report \in [Ids -> Ids \cup {NoId}]
       /\ L + 1 \in Ids /\ L + 1 # NoId
       /\ report' \in [Ids -> Ids \cup {NoId}]
  <2>1. L + 1 \in Ids /\ L + 1 # NoId /\ report \in [Ids -> Ids \cup {NoId}]
    BY <1>3, NothingAssumption DEF IdsNeverRunOut, QueueInv, GivenUpForReport
  <2> HIDE DEF L
  <2>2. report' = [x \in Ids |-> IF x \in Queued(t) THEN L + 1 ELSE report[x]]
    BY DEF L
  <2>. QED BY <2>1, <2>2
<1>20. \A n \in 1..Len(stored) : stored[n] \in Ids
  BY DEF QueueInv, RepositoryInv, RepositoryTypeOK
<1>21. \A i \in 1..L : built[i] \in Event /\ built[i].created \in Nat /\ i \in Ids
  <2>1. \A i \in 1..L : built[i] \in Event /\ i \in Nat \ {0}
    BY <1>3
  <2>. QED BY <2>1 DEF Event, IdsNeverRunOut
<1>22. BuiltInTime'
  <2> SUFFICES ASSUME NEW i \in 1..Len(built')
               PROVE  built'[i].created <= now /\ (built'[i].audited \/ IsReport(built'[i]))
    BY DEF BuiltInTime
  <2>1. CASE i \in 1..L
    BY <1>4, <2>1 DEF QueueInv, BuiltInTime
  <2>2. CASE i - L \in 1..K
    <3>1. i = L + (i - L)
      BY <1>3
    <3>2. built'[i] = events[i - L] /\ events[i - L] \in Buildable
      BY <1>4, <2>2, <3>1
    <3>3. now \in Nat
      BY DEF QueueInv, ServiceTypeOK
    <3>. QED BY <3>2, <3>3 DEF Buildable
  <2>. QED BY <1>5, <2>1, <2>2
<1>23. ReportsGoAlone'
  <2> SUFFICES ASSUME NEW u \in Threads, NEW n \in 1..Len(req'[u].queue),
                      IsReport(built'[req'[u].queue[n]])
               PROVE  Len(req'[u].queue) = 1
    BY DEF ReportsGoAlone
  <2>1. CASE u = t
    <3>1. n \in 1..K /\ built'[req'[u].queue[n]] = events[n]
      BY <1>4, <1>6, <1>8, <1>9, <2>1
    <3>. QED BY <1>6, <1>8, <2>1, <3>1
  <2>2. CASE u # t
    <3>1. built'[req[u].queue[n]] = built[req[u].queue[n]]
      BY <1>4, <1>8, <1>10, <2>2
    <3>. QED BY <1>8, <2>2, <3>1 DEF QueueInv, ReportsGoAlone
  <2>. QED BY <2>1, <2>2
<1>24. ASSUME NEW x \in Queued(t)
       PROVE  /\ L + 1 \in 1..Len(built') /\ built'[L + 1] = events[1]
              /\ IsReport(events[1]) /\ events[1].key = AuditKey
              /\ events[1].created = now /\ built[x].created <= now
              /\ L + 1 # x
  <2>1. /\ built'[L + 1] = events[1] /\ L + 1 \in 1..Len(built') /\ events[1] \in Buildable
    BY <1>3, <1>4
  <2>2. built[x].created <= now /\ L + 1 # x
    BY <1>3, <1>18 DEF QueueInv, BuiltInTime
  <2>. QED BY <2>1, <2>2 DEF Buildable
<1>25. GivenUpForReport'
  <2> SUFFICES ASSUME NEW x \in Ids, report'[x] # NoId
               PROVE  /\ x \in 1..Len(built') /\ report'[x] \in 1..Len(built')
                      /\ IsReport(built'[report'[x]])
                      /\ report'[x] # x =>
                           /\ built'[report'[x]].key = AuditKey
                           /\ built'[report'[x]].created >= built'[x].created
    BY <1>19 DEF GivenUpForReport
  <2>1. CASE x \in Queued(t)
    <3>1. x \in 1..L /\ x \in 1..Len(built') /\ built'[x] = built[x] /\ report'[x] = L + 1
      BY <1>3, <1>4, <1>18, <1>19, <2>1
    <3>2. now \in Nat /\ built[x].created \in Nat
      BY <1>21, <3>1 DEF QueueInv, ServiceTypeOK
    <3>. QED BY <1>24, <2>1, <3>1, <3>2
  <2>2. CASE x \notin Queued(t)
    <3>1. report'[x] = report[x]
      BY <1>19, <2>2
    <3>2. /\ x \in 1..L /\ report[x] \in 1..L
          /\ IsReport(built[report[x]])
          /\ report[x] # x => /\ built[report[x]].key = AuditKey
                              /\ built[report[x]].created >= built[x].created
      BY <3>1 DEF QueueInv, GivenUpForReport
    <3>3. /\ x \in 1..Len(built') /\ report[x] \in 1..Len(built')
          /\ built'[x] = built[x] /\ built'[report[x]] = built[report[x]]
      BY <1>3, <1>4, <3>2
    <3>. QED BY <3>1, <3>2, <3>3
  <2>. QED BY <2>1, <2>2
<1>26. \A i \in 1..Len(built) : Represented(i) => Represented(i)'
  BY <1>1, <1>4 DEF Represented, Represents, EventAt
<1>27. AnsweredIsRepresented'
  <2> SUFFICES ASSUME NEW x \in 1..Len(built'), x \notin InProgress'
               PROVE  Answered(x)'
    BY DEF AnsweredIsRepresented
  <2>1. x \in 1..L
    <3>1. ASSUME x - L \in 1..K PROVE FALSE
      <4>1. x = L + (x - L)
        BY <1>3
      <4>. QED BY <1>17, <3>1, <4>1
    <3>. QED BY <1>5, <3>1
  <2>2. x \in Ids
    BY <1>21, <2>1
  <2>3. CASE x \in Queued(t)
    <3>1. report'[x] = L + 1 /\ L + 1 # x /\ L + 1 # NoId
      BY <1>19, <1>24, <2>2, <2>3
    <3>2. 1 \in 1..K
      BY <1>3
    <3>3. L + 1 \in InProgress'
      BY <1>17, <3>2
    <3>. QED BY <3>1, <3>3 DEF Answered
  <2>4. CASE x \notin Queued(t)
    <3>1. x \notin InProgress
      BY <1>17, <2>4
    <3>2. Answered(x)
      BY <2>1, <3>1 DEF AnsweredIsRepresented
    <3>3. report'[x] = report[x]
      BY <1>19, <2>2, <2>4
    <3>4. \A i \in 1..Len(built) : IsReport(built[i]) /\ i \in InProgress => i \in InProgress'
      BY <1>17
    <3>. QED BY <1>26, <2>1, <2>2, <3>2, <3>3, <3>4, StaysAnswered
  <2>. QED BY <2>3, <2>4
<1>28. StoredEventsAreAudited'
  <2> SUFFICES ASSUME NEW n \in 1..Len(stored), stored[n] \notin InProgress'
               PROVE  \/ EventAt(n).audited
                      \/ IsReport(EventAt(n)) /\ report'[stored[n]] = stored[n]
    BY <1>1 DEF StoredEventsAreAudited, EventAt
  <2>1. CASE stored[n] \in Queued(t)
    <3>1. /\ record[stored[n]] # NoEvent /\ stored[n] \in Ids
          /\ stored[n] \in 1..L /\ ~IsReport(built[stored[n]])
      BY <1>18, <1>20, <2>1, NothingAssumption DEF QueueInv, RepositoryInv, StoredOnce, EventAt
    <3>2. built[stored[n]].audited
      BY <3>1 DEF QueueInv, BuiltInTime
    <3>3. SameEvent(record[stored[n]], built[stored[n]])
      BY <3>1 DEF QueueInv, RecordedIsStored
    <3>. QED BY <3>2, <3>3 DEF SameEvent, EventAt
  <2>2. CASE stored[n] \notin Queued(t)
    <3>1. report'[stored[n]] = report[stored[n]]
      BY <1>19, <1>20, <2>2
    <3>2. stored[n] \notin InProgress
      BY <1>17, <2>2
    <3>. QED BY <3>1, <3>2 DEF StoredEventsAreAudited
  <2>. QED BY <2>1, <2>2
<1>. QED BY <1>2, <1>11, <1>12, <1>14, <1>15, <1>16, <1>22, <1>23, <1>25, <1>27, <1>28 DEF QueueInv

(* The record of a queued event is stored, or one of its key already was.    *)
LEMMA EmitStep ==
  ASSUME IdsNeverRunOut, QueueInv, AnsweredIsRepresented, StoredEventsAreAudited,
         NEW t \in Threads, Emit(t)
  PROVE  /\ QueueInv' /\ AnsweredIsRepresented' /\ StoredEventsAreAudited'
         /\ [RepositoryNext]_repositoryVars
<1> DEFINE q == req[t].queue
           id == Head(q)
           event == built[id]
<1>1. /\ req \in [Threads -> Request] /\ req[t] \in Request
      /\ q \in Seq(Nat \ {0}) /\ q # <<>> /\ Len(q) \in Nat \ {0} /\ id = q[1]
      /\ At(t, "emit") /\ ~At(t, "audit")
  BY DEF Emit, At, QueueInv, ServiceTypeOK, Request
<1>2. id \in 1..Len(built) /\ event \in Event /\ id \in Ids
  <2>1. id \in 1..Len(built)
    BY <1>1 DEF QueueInv, ServiceTypeOK
  <2>2. built \in Seq(Event) /\ id \in Nat \ {0}
    BY <2>1 DEF QueueInv, ServiceTypeOK
  <2>. QED BY <2>1, <2>2 DEF IdsNeverRunOut
<1>3. record[id] = NoEvent
  BY <1>1 DEF QueueInv, QueuedIsNew
<1>4. /\ AppendEvent(id, event)
      /\ req' = [req EXCEPT ![t] = IF Duplicate(event) THEN Dequeued(t)
                                   ELSE [req[t] EXCEPT !.at = "audit"]]
      /\ UNCHANGED <<account, now, built, report>>
  BY DEF Emit, Proceed
<1> HIDE DEF id, event
<1>5. RepositoryInv'
  BY <1>2, <1>3, <1>4, AppendKeepsSpacing DEF QueueInv
<1>6. [RepositoryNext]_repositoryVars
  BY <1>2, <1>3, <1>4 DEF RepositoryNext
<1>7. KeyTellsType' /\ GivenUpForReport' /\ BuiltInTime'
  BY <1>4 DEF QueueInv, KeyTellsType, GivenUpForReport, BuiltInTime
<1>8. CASE Duplicate(event)
  <2>1. stored' = stored /\ record' = record /\ keyed' = keyed
    BY <1>4, <1>8 DEF AppendEvent, repositoryVars
  <2>2. /\ ServiceTypeOK' /\ QueuedOnce' /\ ReportsGoAlone'
        /\ InProgress = InProgress' \cup {id}
        /\ \A u \in Threads : \A n \in 1..Len(req'[u].queue) :
             \E m \in 1..Len(req[u].queue) :
               /\ req'[u].queue[n] = req[u].queue[m]
               /\ u = t => m > 1
               /\ u # t => m = n /\ req'[u] = req[u]
    BY <1>1, <1>4, <1>8, DequeueStep DEF id
  <2>3. QueuedIsNew'
    <3> SUFFICES ASSUME NEW u \in Threads, NEW n \in 1..Len(req'[u].queue)
                 PROVE  record[req'[u].queue[n]] = NoEvent <=> ~(n = 1 /\ req'[u].at = "audit")
      BY <2>1 DEF QueuedIsNew, At
    <3>1. PICK m \in 1..Len(req[u].queue) :
            /\ req'[u].queue[n] = req[u].queue[m]
            /\ u = t => m > 1
            /\ u # t => m = n /\ req'[u] = req[u]
      BY <2>2
    <3>2. CASE u = t
      <4>1. req'[t].at # "audit"
        BY <1>1, <1>4, <1>8, DequeuedShape DEF QueueInv
      <4>. QED BY <3>1, <3>2, <4>1 DEF QueueInv, QueuedIsNew
    <3>3. CASE u # t
      BY <3>1, <3>3 DEF QueueInv, QueuedIsNew, At
    <3>. QED BY <3>2, <3>3
  <2>4. RecordedIsStored'
    BY <1>4, <2>1 DEF QueueInv, RecordedIsStored
  <2>5. \E n \in 1..Len(stored) : Represents(n, id)
    <3>1. /\ event.key # NoKey /\ event.key \in Keys /\ keyed[event.key] # NoId
          /\ event.created <= record[keyed[event.key]].created + Window
      BY <1>2, <1>8 DEF Duplicate, Event
    <3> DEFINE k == keyed[event.key]
    <3>2. k \in Ids /\ record[k] # NoEvent /\ record[k].key = event.key
      BY <3>1, NothingAssumption DEF QueueInv, RepositoryInv, RepositoryTypeOK, KeyedIsNewest
    <3>3. /\ k \in 1..Len(built) /\ SameEvent(record[k], built[k])
          /\ \E n \in 1..Len(stored) : stored[n] = k
      BY <3>2 DEF QueueInv, RecordedIsStored
    <3>4. built[k].content.type = event.content.type
      <4>1. /\ built[k].key = event.key /\ event.key # NoKey
            /\ k \in 1..Len(built) /\ id \in 1..Len(built) /\ event = built[id]
        BY <1>2, <3>1, <3>2, <3>3 DEF SameEvent, event
      <4> HIDE DEF k
      <4>. QED BY <4>1 DEF QueueInv, KeyTellsType
    <3>5. PICK n \in 1..Len(stored) : stored[n] = k
      BY <3>3
    <3>6. Represents(n, id)
      BY <3>1, <3>2, <3>3, <3>4, <3>5 DEF Represents, EventAt, SameEvent, event
    <3>. QED BY <3>6
  <2>6. AnsweredIsRepresented'
    <3> SUFFICES ASSUME NEW i \in 1..Len(built), i \notin InProgress'
                 PROVE  Answered(i)'
      BY <1>4 DEF AnsweredIsRepresented
    <3>1. \A k \in 1..Len(built) : Represented(k) => Represented(k)'
      BY <1>4, <2>1 DEF Represented, Represents, EventAt
    <3>2. \A k \in 1..Len(built) : k = id => Represented(k)'
      BY <2>5, <3>1 DEF Represented
    <3>3. CASE i = id
      BY <3>2, <3>3 DEF Answered
    <3>4. CASE i # id
      <4>1. Answered(i)
        BY <2>2, <3>4 DEF AnsweredIsRepresented
      <4>2. i \in Ids
        BY DEF IdsNeverRunOut
      <4>3. \A k \in 1..Len(built) : k \in InProgress => k \in InProgress' \/ k = id
        BY <2>2
      <4>4. \A k \in 1..Len(built) : IsReport(built[k]) /\ k \in InProgress =>
              k \in InProgress' \/ Represented(k)'
        BY <3>2, <4>3
      <4>. QED BY <1>4, <3>1, <4>1, <4>2, <4>4, StaysAnswered
    <3>. QED BY <3>3, <3>4
  <2>7. StoredEventsAreAudited'
    <3> SUFFICES ASSUME NEW n \in 1..Len(stored), stored[n] \notin InProgress'
                 PROVE  \/ EventAt(n).audited
                        \/ IsReport(EventAt(n)) /\ report[stored[n]] = stored[n]
      BY <1>4, <2>1 DEF StoredEventsAreAudited, EventAt
    <3>1. stored[n] # id
      BY <1>3, NothingAssumption DEF QueueInv, RepositoryInv, StoredOnce, EventAt
    <3>. QED BY <2>2, <3>1 DEF StoredEventsAreAudited
  <2>. QED BY <1>5, <1>6, <1>7, <2>2, <2>3, <2>4, <2>6, <2>7 DEF QueueInv
<1>9. CASE ~Duplicate(event)
  <2> DEFINE S == Len(stored)
  <2>1. /\ stored' = Append(stored, id)
        /\ record' = [record EXCEPT ![id] = event]
    BY <1>4, <1>9 DEF AppendEvent
  <2>2. stored \in Seq(Ids) /\ S \in Nat /\ record \in [Ids -> Event \cup {NoEvent}]
    BY DEF QueueInv, RepositoryInv, RepositoryTypeOK
  <2>3. /\ Len(stored') = S + 1 /\ stored'[S + 1] = id
        /\ \A n \in 1..S : stored'[n] = stored[n] /\ stored[n] \in Ids
    BY <2>1, <2>2
  <2>4. /\ record'[id] = event /\ event # NoEvent
        /\ \A i \in Ids : i # id => record'[i] = record[i]
    BY <1>2, <2>1, <2>2, NothingAssumption
  <2>5. \A n \in 1..S : stored[n] # id
    BY <1>3, NothingAssumption DEF QueueInv, RepositoryInv, StoredOnce, EventAt
  <2>6. \A n \in 1..S : record'[stored'[n]] = EventAt(n)
    BY <2>3, <2>4, <2>5 DEF EventAt
  <2>7. RecordedIsStored'
    <3> SUFFICES ASSUME NEW i \in Ids, record'[i] # NoEvent
                 PROVE  /\ i \in 1..Len(built)
                        /\ SameEvent(record'[i], built[i])
                        /\ \E n \in 1..(S + 1) : stored'[n] = i
      BY <1>4, <2>3 DEF RecordedIsStored
    <3>1. CASE i = id
      BY <1>2, <2>2, <2>3, <2>4, <3>1 DEF SameEvent, event
    <3>2. CASE i # id
      <4>1. /\ i \in 1..Len(built) /\ SameEvent(record[i], built[i])
            /\ \E n \in 1..S : stored[n] = i
        BY <2>4, <3>2 DEF QueueInv, RecordedIsStored
      <4>. QED BY <2>2, <2>3, <2>4, <3>2, <4>1
    <3>. QED BY <3>1, <3>2
  <2>8. \A i \in 1..Len(built) : Represented(i) => Represented(i)'
    <3> SUFFICES ASSUME NEW i \in 1..Len(built), NEW n \in 1..S, Represents(n, i)
                 PROVE  Represented(i)'
      BY DEF Represented
    <3>1. n \in 1..Len(stored')
      BY <2>2, <2>3
    <3>2. Represents(n, i)'
      BY <1>4, <2>3, <2>6 DEF Represents, EventAt
    <3>. QED BY <3>1, <3>2 DEF Represented
  <2>9. req' = [req EXCEPT ![t] = [req[t] EXCEPT !.at = "audit"]]
    BY <1>4, <1>9
  <2>10. /\ req'[t].at = "audit" /\ req'[t] \in Request
         /\ \A u \in Threads : u # t => req'[u] = req[u]
         /\ \A u \in Threads : req'[u].queue = req[u].queue
         /\ req' \in [Threads -> Request]
    BY <1>1, <2>9 DEF Request, Points
  <2>11. InProgress' = InProgress
    BY <2>10 DEF InProgress, Queued
  <2>12. id \in InProgress'
    <3>1. 1 \in 1..Len(req[t].queue) /\ id = req[t].queue[1]
      BY <1>1
    <3>2. id \in InProgress
      BY <3>1 DEF InProgress, Queued
    <3>. QED BY <2>11, <3>2
  <2>13. QueuedOnce'
    BY <2>10 DEF QueueInv, QueuedOnce
  <2>14. ServiceTypeOK'
    <3> SUFFICES ASSUME NEW u \in Threads
                 PROVE  /\ req'[u].at \in {"emit", "audit"} <=> req[u].queue # <<>>
                        /\ req'[u].at = "save" =>
                             \E f \in Findings : req'[u].draft.warnings = f.warnings
      BY <1>4, <2>10 DEF QueueInv, ServiceTypeOK, At
    <3>1. CASE u = t
      BY <1>1, <2>10, <3>1
    <3>2. CASE u # t
      BY <2>10, <3>2 DEF QueueInv, ServiceTypeOK, At
    <3>. QED BY <3>1, <3>2
  <2>15. QueuedIsNew'
    <3> SUFFICES ASSUME NEW u \in Threads, NEW n \in 1..Len(req[u].queue)
                 PROVE  record'[req[u].queue[n]] = NoEvent
                          <=> ~(n = 1 /\ req'[u].at = "audit")
      BY <2>10 DEF QueuedIsNew, At
    <3>1. req[u].queue[n] \in Ids
      BY DEF QueueInv, ServiceTypeOK, IdsNeverRunOut
    <3>2. req[u].queue[n] = id <=> u = t /\ n = 1
      BY <1>1 DEF QueueInv, QueuedOnce, id
    <3>3. record[req[u].queue[n]] = NoEvent <=> ~(n = 1 /\ At(u, "audit"))
      BY DEF QueueInv, QueuedIsNew
    <3>4. CASE u = t /\ n = 1
      BY <2>4, <2>10, <3>2, <3>4
    <3>5. CASE u = t /\ n # 1
      BY <2>4, <3>1, <3>2, <3>3, <3>5
    <3>6. CASE u # t
      BY <2>4, <2>10, <3>1, <3>2, <3>3, <3>6 DEF At
    <3>. QED BY <3>4, <3>5, <3>6
  <2>16. ReportsGoAlone'
    BY <1>4, <2>10 DEF QueueInv, ReportsGoAlone
  <2>17. AnsweredIsRepresented'
    <3> SUFFICES ASSUME NEW i \in 1..Len(built), i \notin InProgress
                 PROVE  Answered(i)'
      BY <1>4, <2>11 DEF AnsweredIsRepresented
    <3>1. Answered(i) /\ i \in Ids
      BY DEF AnsweredIsRepresented, IdsNeverRunOut
    <3>. QED BY <1>4, <2>8, <2>11, <3>1, StaysAnswered
  <2>18. StoredEventsAreAudited'
    <3> SUFFICES ASSUME NEW n \in 1..(S + 1), stored'[n] \notin InProgress'
                 PROVE  \/ record'[stored'[n]].audited
                        \/ /\ IsReport(record'[stored'[n]])
                           /\ report'[stored'[n]] = stored'[n]
      BY <2>3 DEF StoredEventsAreAudited, EventAt
    <3>1. n # S + 1
      BY <2>3, <2>12
    <3>2. n \in 1..S
      BY <2>2, <3>1
    <3>3. stored[n] \notin InProgress /\ stored'[n] = stored[n]
      BY <2>3, <2>11, <3>2
    <3>. QED BY <1>4, <2>6, <3>2, <3>3 DEF StoredEventsAreAudited
  <2>. QED BY <1>5, <1>6, <1>7, <2>7, <2>13, <2>14, <2>15, <2>16, <2>17, <2>18 DEF QueueInv
<1>. QED BY <1>8, <1>9

(* What is recorded is represented by itself.                                *)
LEMMA HeadIsRepresented ==
  ASSUME QueueInv, NEW id \in 1..Len(built), id \in Ids, record[id] # NoEvent
  PROVE  Represented(id)
<1>1. record[id] \in Event /\ SameEvent(record[id], built[id])
  BY DEF QueueInv, RepositoryInv, RepositoryTypeOK, RecordedIsStored
<1>2. PICK n \in 1..Len(stored) : stored[n] = id
  BY DEF QueueInv, RecordedIsStored
<1>3. record[id].created \in Nat
  BY <1>1 DEF Event
<1>4. Represents(n, id)
  BY <1>1, <1>2, <1>3, WindowAssumption DEF Represents, EventAt, SameEvent
<1>. QED BY <1>4 DEF Represented

(* The head of the queue gets its audit id, unless it has one, and leaves.    *)
LEMMA AuditStep ==
  ASSUME IdsNeverRunOut, QueueInv, AnsweredIsRepresented, StoredEventsAreAudited,
         NEW t \in Threads, AuditEmission(t)
  PROVE  /\ QueueInv' /\ AnsweredIsRepresented' /\ StoredEventsAreAudited'
         /\ [RepositoryNext]_repositoryVars
<1> DEFINE q == req[t].queue
           id == Head(q)
<1>1. /\ req \in [Threads -> Request] /\ req[t] \in Request
      /\ q \in Seq(Nat \ {0}) /\ q # <<>> /\ Len(q) \in Nat \ {0} /\ id = q[1]
      /\ At(t, "audit")
  BY DEF AuditEmission, At, QueueInv, ServiceTypeOK, Request
<1>2. id \in 1..Len(built) /\ id \in Ids /\ record[id] # NoEvent
  BY <1>1 DEF QueueInv, ServiceTypeOK, IdsNeverRunOut, QueuedIsNew
<1>3. /\ IF built[id].audited THEN UNCHANGED repositoryVars ELSE SetAudit(id)
      /\ req' = [req EXCEPT ![t] = Dequeued(t)]
      /\ UNCHANGED <<account, now, built, report>>
  BY DEF AuditEmission, Proceed
<1> HIDE DEF id
<1>4. SameEvent(record[id], built[id])
  BY <1>2 DEF QueueInv, RecordedIsStored
<1>5. /\ RepositoryInv' /\ [RepositoryNext]_repositoryVars
      /\ stored' = stored
      /\ record'[id].audited /\ SameEvent(record'[id], record[id])
      /\ record'[id] \in Event /\ record'[id] # NoEvent
      /\ \A i \in Ids : i # id => record'[i] = record[i]
  <2>1. record[id] \in Event
    BY <1>2 DEF QueueInv, RepositoryInv, RepositoryTypeOK
  <2>2. CASE built[id].audited
    <3>1. /\ stored' = stored /\ record' = record /\ keyed' = keyed
          /\ UNCHANGED repositoryVars
      BY <1>3, <2>2 DEF repositoryVars
    <3>2. RepositoryInv'
      BY <3>1 DEF QueueInv, RepositoryInv, RepositoryTypeOK, StoredOnce, KeyedIsNewest,
                 SpacedByWindow, EventAt
    <3>. QED BY <1>2, <1>4, <2>1, <2>2, <3>1, <3>2 DEF SameEvent
  <2>3. CASE ~built[id].audited
    <3>1. SetAudit(id)
      BY <1>3, <2>3
    <3>2. RepositoryInv' /\ [RepositoryNext]_repositoryVars
      BY <1>2, <3>1, AuditKeepsEvents DEF QueueInv, RepositoryNext
    <3>3. /\ record \in [Ids -> Event \cup {NoEvent}]
          /\ stored' = stored
          /\ record' = [record EXCEPT ![id] = [record[id] EXCEPT !.audited = TRUE]]
      BY <3>1 DEF SetAudit, QueueInv, RepositoryInv, RepositoryTypeOK
    <3>. QED BY <1>2, <2>1, <3>2, <3>3, NothingAssumption DEF SameEvent, Event
  <2>. QED BY <2>2, <2>3
<1>6. KeyTellsType' /\ GivenUpForReport'
  BY <1>3 DEF QueueInv, KeyTellsType, GivenUpForReport
<1>7. /\ ServiceTypeOK' /\ QueuedOnce' /\ BuiltInTime' /\ ReportsGoAlone'
      /\ InProgress = InProgress' \cup {id}
      /\ \A u \in Threads : \A n \in 1..Len(req'[u].queue) :
           \E m \in 1..Len(req[u].queue) :
             /\ req'[u].queue[n] = req[u].queue[m]
             /\ u = t => m > 1
             /\ u # t => m = n /\ req'[u] = req[u]
  BY <1>1, <1>3, DequeueStep DEF id
<1>8. record[id] \in Event
  BY <1>2 DEF QueueInv, RepositoryInv, RepositoryTypeOK
<1>9. /\ stored' = stored
      /\ record'[id].audited /\ SameEvent(record'[id], record[id])
      /\ record'[id] \in Event /\ record'[id] # NoEvent
      /\ \A i \in Ids : i # id => record'[i] = record[i]
  BY <1>5
<1>10. \A i \in Ids : record[i] # NoEvent =>
         /\ record'[i] # NoEvent
         /\ SameEvent(record'[i], record[i])
  BY <1>9 DEF SameEvent
<1>11. \A i \in Ids : record'[i] # NoEvent => record[i] # NoEvent
  BY <1>2, <1>9
<1>12. \A n \in 1..Len(stored) : stored[n] \in Ids /\ EventAt(n) # NoEvent
  BY NothingAssumption DEF QueueInv, RepositoryInv, RepositoryTypeOK, StoredOnce
<1>13. QueuedIsNew'
  <2> SUFFICES ASSUME NEW u \in Threads, NEW n \in 1..Len(req'[u].queue)
               PROVE  record'[req'[u].queue[n]] = NoEvent <=> ~(n = 1 /\ req'[u].at = "audit")
    BY DEF QueuedIsNew, At
  <2>1. PICK m \in 1..Len(req[u].queue) :
          /\ req'[u].queue[n] = req[u].queue[m]
          /\ u = t => m > 1
          /\ u # t => m = n /\ req'[u] = req[u]
    BY <1>7
  <2>2. req[u].queue[m] \in Ids
    BY DEF QueueInv, ServiceTypeOK, IdsNeverRunOut
  <2>3. req[u].queue[m] # id
    BY <1>1, <2>1 DEF QueueInv, QueuedOnce
  <2>4. record'[req'[u].queue[n]] = record[req[u].queue[m]]
    BY <1>9, <2>1, <2>2, <2>3
  <2>5. CASE u = t
    <3>1. req'[t].at # "audit"
      BY <1>1, <1>3, DequeuedShape DEF QueueInv
    <3>. QED BY <2>1, <2>4, <2>5, <3>1 DEF QueueInv, QueuedIsNew
  <2>6. CASE u # t
    BY <2>1, <2>4, <2>6 DEF QueueInv, QueuedIsNew, At
  <2>. QED BY <2>5, <2>6
<1>14. RecordedIsStored'
  <2> SUFFICES ASSUME NEW i \in Ids, record'[i] # NoEvent
               PROVE  /\ i \in 1..Len(built)
                      /\ SameEvent(record'[i], built[i])
                      /\ \E n \in 1..Len(stored) : stored[n] = i
    BY <1>3, <1>9 DEF RecordedIsStored
  <2>1. /\ i \in 1..Len(built) /\ SameEvent(record[i], built[i])
        /\ \E n \in 1..Len(stored) : stored[n] = i
    BY <1>11 DEF QueueInv, RecordedIsStored
  <2>2. SameEvent(record'[i], record[i])
    BY <1>10, <1>11
  <2>. QED BY <2>1, <2>2 DEF SameEvent
<1>15. \A n \in 1..Len(stored) : SameEvent(record'[stored[n]], EventAt(n))
  BY <1>10, <1>12 DEF EventAt
<1>16. \A i \in 1..Len(built) : Represented(i) => Represented(i)'
  BY <1>3, <1>9, <1>15 DEF Represented, Represents, EventAt, SameEvent
<1>17. \A k \in 1..Len(built) : k = id => Represented(k)'
  BY <1>2, <1>16, HeadIsRepresented
<1>18. AnsweredIsRepresented'
  <2> SUFFICES ASSUME NEW i \in 1..Len(built), i \notin InProgress'
               PROVE  Answered(i)'
    BY <1>3 DEF AnsweredIsRepresented
  <2>1. i = id => Answered(i)'
    BY <1>17 DEF Answered
  <2>2. CASE i # id
    <3>1. Answered(i) /\ i \in Ids
      BY <1>7, <2>2 DEF AnsweredIsRepresented, IdsNeverRunOut
    <3>2. \A k \in 1..Len(built) : k \in InProgress => k \in InProgress' \/ k = id
      BY <1>7
    <3>3. \A k \in 1..Len(built) : IsReport(built[k]) /\ k \in InProgress =>
            k \in InProgress' \/ Represented(k)'
      BY <1>17, <3>2
    <3>. QED BY <1>3, <1>16, <3>1, <3>3, StaysAnswered
  <2>. QED BY <2>1, <2>2
<1>19. StoredEventsAreAudited'
  <2> SUFFICES ASSUME NEW n \in 1..Len(stored), stored[n] \notin InProgress'
               PROVE  \/ record'[stored[n]].audited
                      \/ IsReport(record'[stored[n]]) /\ report[stored[n]] = stored[n]
    BY <1>3, <1>9 DEF StoredEventsAreAudited, EventAt
  <2>1. CASE stored[n] = id
    BY <1>9, <2>1
  <2>2. CASE stored[n] # id
    <3>1. EventAt(n).audited \/ (IsReport(EventAt(n)) /\ report[stored[n]] = stored[n])
      BY <1>7, <2>2 DEF StoredEventsAreAudited
    <3>. QED BY <1>15, <3>1 DEF SameEvent, IsReport
  <2>. QED BY <2>1, <2>2
<1>. QED BY <1>5, <1>6, <1>7, <1>13, <1>14, <1>18, <1>19 DEF QueueInv

(***************************************************************************)
(* Every step                                                              *)
(***************************************************************************)
LEMMA ServiceInitInv == Init => EventsInv
<1> SUFFICES ASSUME Init PROVE EventsInv
  OBVIOUS
<1>1. RepositoryInv
  BY RepositoryInitInv DEF Init
<1>2. Unchecked \in Memo /\ ~Unchecked.missing
  BY DEF Unchecked, Memo
<1>3. /\ Idle \in Request /\ Idle.queue = <<>> /\ Idle.at = "idle" /\ Idle.snap = Unchecked
  BY <1>2 DEF Idle, Request, Points
<1>4. \A t \in Threads : req[t] = Idle
  BY DEF Init
<1>5. built = <<>> /\ Len(built) = 0 /\ stored = <<>> /\ \A i \in Ids : record[i] = NoEvent
  BY DEF Init, RepositoryInit
<1>6. /\ req \in [Threads -> Request] /\ built \in Seq(Event)
      /\ report \in [Ids -> Ids \cup {NoId}] /\ \A i \in Ids : report[i] = NoId
  BY <1>3 DEF Init
<1>7. ServiceTypeOK
  BY <1>2, <1>3, <1>4, <1>6 DEF ServiceTypeOK, Init, At
<1>8. QueuedOnce /\ QueuedIsNew /\ ReportsGoAlone
  BY <1>3, <1>4 DEF QueuedOnce, QueuedIsNew, ReportsGoAlone
<1>9. /\ RecordedIsStored /\ KeyTellsType /\ AnsweredIsRepresented /\ BuiltInTime
      /\ GivenUpForReport
  BY <1>5, <1>6 DEF RecordedIsStored, KeyTellsType, AnsweredIsRepresented, BuiltInTime,
                   GivenUpForReport
<1>10. StoredEventsAreAudited
  BY <1>5 DEF StoredEventsAreAudited
<1>11. OutageIsTold
  BY <1>2, <1>3, <1>4 DEF OutageIsTold, Told, At, Init
<1>. QED BY <1>1, <1>7, <1>8, <1>9, <1>10, <1>11 DEF EventsInv, QueueInv

(* What was told stays told: events are built, and never unbuilt.            *)
LEMMA ToldStaysTold ==
  ASSUME built \in Seq(Event), NEW events \in Seq(Event), built' = built \o events,
         NEW memo, Told(memo)
  PROVE  memo.missing =>
           \E id \in 1..Len(built') :
             TellsOfOutage(built'[id]) /\ built'[id].created >= memo.since
<1>1. \A id \in 1..Len(built) : id \in 1..Len(built') /\ built'[id] = built[id]
  OBVIOUS
<1>. QED BY <1>1 DEF Told

LEMMA OutageStep ==
  ASSUME OutageIsTold, ServiceTypeOK, NEW events \in Seq(Event), built' = built \o events,
         now' \in Nat, now <= now', Told(account)',
         NEW t \in Threads, \A u \in Threads : u # t => req'[u] = req[u],
         req'[t].snap \in {req[t].snap, account, Unchecked},
         req'[t].at = "save" => IF req'[t].snap.missing
                                THEN req'[t].draft.since = req'[t].snap.since
                                ELSE req'[t].draft.since <= now'
  PROVE  OutageIsTold'
<1>1. built \in Seq(Event)
  BY DEF ServiceTypeOK
<1>2. ~Unchecked.missing
  BY DEF Unchecked
<1>3. /\ Told(account) /\ Told(Unchecked)
      /\ \A u \in Threads : Told(req[u].snap)
  BY <1>2 DEF OutageIsTold, Told
<1> SUFFICES ASSUME NEW u \in Threads
             PROVE  /\ Told(req[u].snap)'
                    /\ req'[u].at = "save" =>
                         IF req'[u].snap.missing
                         THEN req'[u].draft.since = req'[u].snap.since
                         ELSE req'[u].draft.since <= now'
  BY DEF OutageIsTold, At
<1>4. PICK memo : memo = req'[u].snap /\ Told(memo)
  BY <1>3
<1>5. Told(req[u].snap)'
  BY <1>1, <1>4, ToldStaysTold DEF Told
<1>6. CASE u = t
  BY <1>5, <1>6
<1>7. CASE u # t
  <2>1. req[u] \in Request /\ now \in Nat
    BY DEF ServiceTypeOK
  <2>2. req[u].draft.since \in Nat
    BY <2>1 DEF Request, Memo
  <2>. QED BY <1>5, <1>7, <2>1, <2>2 DEF OutageIsTold, At
<1>. QED BY <1>6, <1>7

LEMMA BeginStep ==
  ASSUME IdsNeverRunOut, EventsInv, NEW t \in Threads, Begin(t)
  PROVE  EventsInv' /\ UNCHANGED repositoryVars
<1> DEFINE request == [Idle EXCEPT !.at = "evaluate", !.snap = account]
<1>1. /\ req' = [req EXCEPT ![t] = request]
      /\ UNCHANGED <<repositoryVars, account, now, built, report>>
      /\ At(t, "idle")
  BY DEF Begin, Proceed
<1>2. /\ req \in [Threads -> Request] /\ account \in Memo /\ req[t].queue = <<>>
      /\ built \in Seq(Event) /\ now \in Nat
  BY <1>1 DEF EventsInv, QueueInv, ServiceTypeOK, At
<1>3. Unchecked \in Memo
  BY DEF Unchecked, Memo
<1>4. /\ request \in Request /\ request.queue = <<>> /\ request.at = "evaluate"
      /\ request.snap = account
  BY <1>2, <1>3 DEF Idle, Request, Points
<1> HIDE DEF request
<1>5. /\ req' \in [Threads -> Request] /\ req'[t] = request
      /\ \A u \in Threads : u # t => req'[u] = req[u]
  BY <1>1, <1>2, <1>4
<1>6. ServiceTypeOK'
  BY <1>1, <1>4, <1>5 DEF EventsInv, QueueInv, ServiceTypeOK, At
<1>7. \A u \in Threads : /\ req'[u].queue = req[u].queue
                         /\ req[u].queue # <<>> => req'[u].at = req[u].at
  BY <1>2, <1>4, <1>5
<1>8. QueueInv' /\ AnsweredIsRepresented' /\ StoredEventsAreAudited'
  BY <1>1, <1>2, <1>6, <1>7, NothingMoves DEF EventsInv
<1>9. OutageIsTold'
  <2>1. built' = built \o <<>> /\ <<>> \in Seq(Event)
    BY <1>1, <1>2
  <2>2. Told(account)'
    BY <1>1 DEF EventsInv, OutageIsTold, Told
  <2>3. OutageIsTold /\ ServiceTypeOK
    BY DEF EventsInv, QueueInv
  <2>4. now' \in Nat /\ now <= now'
    BY <1>1, <1>2
  <2>5. req'[t].snap \in {req[t].snap, account, Unchecked} /\ req'[t].at # "save"
    BY <1>4, <1>5
  <2>. QED BY <1>5, <2>1, <2>2, <2>3, <2>4, <2>5, OutageStep
<1>. QED BY <1>1, <1>8, <1>9 DEF EventsInv

(* The except clause, wherever it is entered from.                           *)
LEMMA RaiseStep ==
  ASSUME IdsNeverRunOut, EventsInv, NEW t \in Threads, NEW error \in Buildable,
         IsReport(error), error.key = AuditKey \/ req[t].queue = <<>>,
         \A x \in Queued(t) : ~IsReport(built[x]),
         Raise(t, error),
         UNCHANGED <<repositoryVars, now>>, account' \in Memo, Told(account)'
  PROVE  EventsInv'
<1>1. /\ Enqueue(t, <<error>>)
      /\ report' = [x \in Ids |-> IF x \in Queued(t) THEN Len(built) + 1 ELSE report[x]]
  BY DEF Raise
<1>2. QueueInv /\ AnsweredIsRepresented /\ StoredEventsAreAudited /\ OutageIsTold
  BY DEF EventsInv
<1>3. /\ req \in [Threads -> Request] /\ now \in Nat /\ ServiceTypeOK
  BY <1>2 DEF QueueInv, ServiceTypeOK
<1>4. <<error>> \in Seq(Buildable) /\ Len(<<error>>) = 1 /\ <<error>>[1] = error
  OBVIOUS
<1>5. Queued(t) # {} => error.key = AuditKey
  BY DEF Queued
<1>6. QueueInv' /\ AnsweredIsRepresented' /\ StoredEventsAreAudited'
  <2>1. \A n \in 1..Len(<<error>>) : IsReport(<<error>>[n]) => Len(<<error>>) = 1
    BY <1>4
  <2>2. \A x \in Queued(t) : /\ ~IsReport(built[x]) /\ IsReport(<<error>>[1])
                              /\ <<error>>[1].key = AuditKey
    BY <1>4, <1>5
  <2>3. PICK events \in Seq(Buildable) : events = <<error>>
    BY <1>4
  <2>4. /\ Len(events) >= 1 /\ Enqueue(t, events)
        /\ \A n \in 1..Len(events) : IsReport(events[n]) => Len(events) = 1
        /\ \A x \in Queued(t) : /\ ~IsReport(built[x]) /\ IsReport(events[1])
                                 /\ events[1].key = AuditKey
    BY <1>1, <1>4, <2>1, <2>2, <2>3
  <2>. QED BY <1>1, <1>2, <2>4, EnqueueStep
<1>7. OutageIsTold'
  <2>1. <<error>> \in Seq(Event) /\ built' = built \o <<error>>
    BY <1>1 DEF Buildable, Enqueue
  <2>2. /\ req'[t].snap = Unchecked /\ req'[t].at = "emit"
        /\ \A u \in Threads : u # t => req'[u] = req[u]
    BY <1>1, <1>3 DEF Enqueue, Proceed, Idle
  <2>3. now' \in Nat /\ now <= now'
    BY <1>3
  <2>4. req'[t].snap \in {req[t].snap, account, Unchecked} /\ req'[t].at # "save"
    BY <2>2
  <2>. QED BY <1>2, <1>3, <2>1, <2>2, <2>3, <2>4, OutageStep
<1>. QED BY <1>6, <1>7 DEF EventsInv

LEMMA EvaluateStep ==
  ASSUME IdsNeverRunOut, EventsInv, NEW t \in Threads, Evaluate(t)
  PROVE  EventsInv' /\ UNCHANGED repositoryVars
<1>1. /\ UNCHANGED <<repositoryVars, account, now>> /\ At(t, "evaluate")
      /\ req \in [Threads -> Request] /\ req[t] \in Request /\ req[t].queue = <<>>
      /\ built \in Seq(Event) /\ now \in Nat /\ account \in Memo
  BY DEF Evaluate, EventsInv, QueueInv, ServiceTypeOK, At
<1>2. PICK found \in Findings :
        \/ found.raises /\ Raise(t, EvaluationError)
        \/ ~found.raises /\ AuditRaises(t)
        \/ /\ Proceed(t, [req[t] EXCEPT
                 !.at = "save",
                 !.draft = [warnings |-> found.warnings, missing |-> found.missing,
                            quality |-> found.quality, alarm |-> found.alarm,
                            checked |-> TRUE,
                            since |-> IF req[t].snap.missing THEN req[t].snap.since ELSE now]])
           /\ UNCHANGED <<built, report>>
  BY DEF Evaluate
<1>3. OutageIsTold /\ ServiceTypeOK
  BY DEF EventsInv, QueueInv
<1>4. ASSUME NEW error \in {EvaluationError, AuditError}, Raise(t, error)
      PROVE  EventsInv'
  <2>1. error \in Buildable /\ IsReport(error)
    BY <1>1, ReportsAreBuildable
  <2>2. <<error>> \in Seq(Event) /\ built' = built \o <<error>>
    BY <1>4, <2>1 DEF Buildable, Raise, Enqueue
  <2>3. Told(account)'
    BY <1>1, <1>3, <2>2, ToldStaysTold DEF OutageIsTold, Told
  <2>4. Queued(t) = {}
    BY <1>1 DEF Queued
  <2>5. account' \in Memo
    BY <1>1
  <2>. QED BY <1>1, <1>4, <2>1, <2>3, <2>4, <2>5, RaiseStep
<1>5. CASE /\ Proceed(t, [req[t] EXCEPT
                !.at = "save",
                !.draft = [warnings |-> found.warnings, missing |-> found.missing,
                           quality |-> found.quality, alarm |-> found.alarm,
                           checked |-> TRUE,
                           since |-> IF req[t].snap.missing THEN req[t].snap.since ELSE now]])
           /\ UNCHANGED <<built, report>>
  <2> DEFINE draft == [warnings |-> found.warnings, missing |-> found.missing,
                       quality |-> found.quality, alarm |-> found.alarm,
                       checked |-> TRUE,
                       since |-> IF req[t].snap.missing THEN req[t].snap.since ELSE now]
  <2>1. /\ req' = [req EXCEPT ![t] = [req[t] EXCEPT !.at = "save", !.draft = draft]]
        /\ built' = built /\ report' = report
    BY <1>5 DEF Proceed
  <2>2. found \in Finding /\ req[t].snap \in Memo
    BY <1>1, FindingsAssumption DEF Request
  <2>3. draft \in Memo /\ draft.warnings = found.warnings
    BY <1>1, <2>2 DEF Memo, Finding
  <2>4. /\ draft.since = IF req[t].snap.missing THEN req[t].snap.since ELSE now
    OBVIOUS
  <2> HIDE DEF draft
  <2>5. /\ req'[t] \in Request /\ req'[t].at = "save" /\ req'[t].draft = draft
        /\ req'[t].queue = <<>> /\ req'[t].snap = req[t].snap
        /\ \A u \in Threads : u # t => req'[u] = req[u]
        /\ req' \in [Threads -> Request]
    BY <1>1, <2>1, <2>3 DEF Request, Points
  <2>6. ServiceTypeOK'
    BY <1>1, <1>3, <2>1, <2>3, <2>5 DEF ServiceTypeOK, At
  <2>7. \A u \in Threads : /\ req'[u].queue = req[u].queue
                           /\ req[u].queue # <<>> => req'[u].at = req[u].at
    BY <1>1, <2>5
  <2>8. QueueInv' /\ AnsweredIsRepresented' /\ StoredEventsAreAudited'
    BY <1>1, <2>1, <2>6, <2>7, NothingMoves DEF EventsInv
  <2>9. OutageIsTold'
    <3>1. now' \in Nat /\ now <= now'
      BY <1>1
    <3>2. built' = built \o <<>> /\ <<>> \in Seq(Event)
      BY <1>1, <2>1
    <3>3. Told(account)'
      BY <1>1, <1>3, <2>1 DEF OutageIsTold, Told
    <3>4. /\ req'[t].snap \in {req[t].snap, account, Unchecked}
          /\ IF req'[t].snap.missing THEN req'[t].draft.since = req'[t].snap.since
             ELSE req'[t].draft.since <= now'
      BY <1>1, <2>4, <2>5
    <3>. QED BY <1>3, <2>5, <3>1, <3>2, <3>3, <3>4, OutageStep
  <2>. QED BY <1>1, <2>8, <2>9 DEF EventsInv
<1>6. Raise(t, EvaluationError) \/ AuditRaises(t) => EventsInv'
  BY <1>4 DEF AuditRaises
<1>. QED BY <1>1, <1>2, <1>5, <1>6

LEMMA SaveStep ==
  ASSUME IdsNeverRunOut, EventsInv, NEW t \in Threads, Save(t)
  PROVE  EventsInv' /\ UNCHANGED repositoryVars
<1> DEFINE snap == req[t].snap
           draft == req[t].draft
<1>1. /\ UNCHANGED <<repositoryVars, now>> /\ account' = draft /\ At(t, "save")
      /\ \/ Enqueue(t, TickEvents(snap, draft)) /\ UNCHANGED report
         \/ AuditRaises(t)
  BY DEF Save
<1>2. /\ req \in [Threads -> Request] /\ req[t] \in Request /\ req[t].queue = <<>>
      /\ built \in Seq(Event) /\ now \in Nat
      /\ \E f \in Findings : draft.warnings = f.warnings
  BY <1>1 DEF EventsInv, QueueInv, ServiceTypeOK, At
<1>3. draft \in Memo /\ draft.since \in Nat
  BY <1>2 DEF Request, Memo
<1>4. OutageIsTold /\ ServiceTypeOK /\ Queued(t) = {} /\ account' \in Memo
  BY <1>1, <1>2, <1>3 DEF EventsInv, QueueInv, Queued
<1>5. ASSUME NEW events \in Seq(Buildable), built' = built \o events,
             ~snap.missing /\ draft.missing =>
               \E n \in 1..Len(events) : TellsOfOutage(events[n])
      PROVE  Told(account)' /\ events \in Seq(Event)
  <2>1. events \in Seq(Event)
    BY DEF Buildable
  <2> SUFFICES ASSUME draft.missing
               PROVE  \E id \in 1..Len(built') :
                        TellsOfOutage(built'[id]) /\ built'[id].created >= draft.since
    BY <1>1, <2>1 DEF Told
  <2>2. CASE snap.missing
    <3>1. Told(snap) /\ draft.since = snap.since
      BY <1>1, <1>4, <2>2 DEF OutageIsTold, At
    <3>. QED BY <1>2, <1>5, <2>1, <2>2, <3>1, ToldStaysTold
  <2>3. CASE ~snap.missing
    <3>1. draft.since <= now
      BY <1>1, <1>4, <2>3 DEF OutageIsTold, At
    <3>2. PICK n \in 1..Len(events) : TellsOfOutage(events[n])
      BY <1>5, <2>3
    <3>3. events[n].created = now
      BY DEF Buildable
    <3>4. /\ Len(built) + n \in 1..Len(built')
          /\ built'[Len(built) + n] = events[n]
      BY <1>2, <1>5, <2>1
    <3>5. events[n].created >= draft.since
      BY <1>2, <1>3, <3>1, <3>3
    <3>. QED BY <3>2, <3>4, <3>5
  <2>. QED BY <2>2, <2>3
<1>6. CASE AuditRaises(t)
  <2>1. AuditError \in Buildable /\ IsReport(AuditError) /\ AuditError.key = AuditKey
    BY <1>2, ReportsAreBuildable
  <2>2. <<AuditError>> \in Seq(Buildable) /\ built' = built \o <<AuditError>>
    BY <1>6, <2>1 DEF AuditRaises, Raise, Enqueue
  <2>3. \E n \in 1..Len(<<AuditError>>) : TellsOfOutage(<<AuditError>>[n])
    <3>1. 1 \in 1..Len(<<AuditError>>) /\ <<AuditError>>[1] = AuditError
      OBVIOUS
    <3>2. TellsOfOutage(AuditError)
      BY <2>1 DEF TellsOfOutage
    <3>. QED BY <3>1, <3>2
  <2>4. Told(account)'
    BY <1>5, <2>2, <2>3
  <2>. QED BY <1>1, <1>4, <1>6, <2>1, <2>4, RaiseStep DEF AuditRaises
<1>7. CASE Enqueue(t, TickEvents(snap, draft)) /\ UNCHANGED report
  <2>1. PICK events \in Seq(Ordinary) :
          /\ events = TickEvents(snap, draft) /\ Len(events) >= 1
          /\ MissingAppeared(snap, draft) =>
               \E n \in 1..Len(events) : events[n].content.type = "fx_missing"
    BY <1>2, TickEventsShape
  <2>2. /\ events \in Seq(Buildable) /\ built' = built \o events
        /\ \A n \in 1..Len(events) : ~IsReport(events[n])
    BY <1>7, <2>1 DEF Ordinary, Enqueue
  <2>3. Told(account)' /\ events \in Seq(Event)
    BY <1>5, <2>1, <2>2 DEF MissingAppeared, TellsOfOutage
  <2>4. QueueInv' /\ AnsweredIsRepresented' /\ StoredEventsAreAudited'
    <3>1. QueueInv /\ AnsweredIsRepresented /\ StoredEventsAreAudited
      BY DEF EventsInv
    <3>2. report' = [x \in Ids |-> IF x \in Queued(t) THEN Len(built) + 1 ELSE report[x]]
      BY <1>4, <1>7, <3>1 DEF QueueInv, GivenUpForReport
    <3>. QED BY <1>1, <1>4, <1>7, <2>1, <2>2, <3>1, <3>2, EnqueueStep
  <2>5. /\ req'[t].snap = Unchecked /\ req'[t].at = "emit"
        /\ \A u \in Threads : u # t => req'[u] = req[u]
    BY <1>2, <1>7 DEF Enqueue, Proceed, Idle
  <2>6. OutageIsTold'
    <3>1. now' \in Nat /\ now <= now'
      BY <1>1, <1>2
    <3>2. req'[t].snap \in {req[t].snap, account, Unchecked} /\ req'[t].at # "save"
      BY <2>5
    <3>. QED BY <1>4, <2>2, <2>3, <2>5, <3>1, <3>2, OutageStep
  <2>. QED BY <1>1, <2>4, <2>6 DEF EventsInv
<1>. QED BY <1>1, <1>6, <1>7

(* Storing events concerns no record of an evaluation.                       *)
LEMMA EmissionTellsNothing ==
  ASSUME EventsInv, NEW t \in Threads, req[t].queue # <<>>,
         req' = [req EXCEPT ![t] = Dequeued(t)]
           \/ req' = [req EXCEPT ![t] = [req[t] EXCEPT !.at = "audit"]],
         UNCHANGED <<account, now, built>>
  PROVE  OutageIsTold'
<1>1. /\ OutageIsTold /\ ServiceTypeOK /\ built \in Seq(Event) /\ now \in Nat
      /\ req \in [Threads -> Request] /\ req[t] \in Request
  BY DEF EventsInv, QueueInv, ServiceTypeOK
<1>2. built' = built \o <<>> /\ <<>> \in Seq(Event) /\ now' \in Nat /\ now <= now'
  BY <1>1
<1>3. Told(account)'
  BY <1>1 DEF OutageIsTold, Told
<1>4. \A u \in Threads : u # t => req'[u] = req[u]
  BY <1>1
<1>5. req'[t].snap \in {req[t].snap, account, Unchecked} /\ req'[t].at # "save"
  <2>1. Dequeued(t).snap \in {req[t].snap, Unchecked} /\ Dequeued(t).at # "save"
    BY <1>1 DEF Dequeued, Idle, Request
  <2>2. /\ [req[t] EXCEPT !.at = "audit"].snap = req[t].snap
        /\ [req[t] EXCEPT !.at = "audit"].at = "audit"
    BY <1>1 DEF Request
  <2>. QED BY <1>1, <2>1, <2>2
<1>. QED BY <1>1, <1>2, <1>3, <1>4, <1>5, OutageStep

(* The emission of a report is refused, which ends its request.              *)
LEMMA RefusedStep ==
  ASSUME IdsNeverRunOut, EventsInv, NEW t \in Threads, At(t, "audit"),
         IsReport(built[Head(req[t].queue)]),
         report' = [report EXCEPT ![Head(req[t].queue)] = Head(req[t].queue)],
         Proceed(t, Idle),
         UNCHANGED <<repositoryVars, account, now, built>>
  PROVE  EventsInv'
<1> DEFINE q == req[t].queue
           id == Head(q)
<1>1. /\ QueueInv /\ AnsweredIsRepresented /\ StoredEventsAreAudited
  BY DEF EventsInv
<1>2. /\ req \in [Threads -> Request] /\ req[t] \in Request
      /\ q \in Seq(Nat \ {0}) /\ q # <<>> /\ Len(q) \in Nat \ {0} /\ id = q[1]
  BY <1>1 DEF At, QueueInv, ServiceTypeOK, Request
<1>3. id \in 1..Len(built) /\ id \in Ids /\ record[id] # NoEvent
  <2>1. 1 \in 1..Len(q) /\ id = req[t].queue[1]
    BY <1>2
  <2>2. id \in 1..Len(built)
    BY <1>1, <2>1 DEF QueueInv, ServiceTypeOK
  <2>3. record[id] # NoEvent
    BY <1>1, <2>1 DEF QueueInv, QueuedIsNew
  <2>. QED BY <2>2, <2>3 DEF IdsNeverRunOut
<1>4. Len(q) = 1
  BY <1>1, <1>2 DEF QueueInv, ReportsGoAlone
<1>5. req' = [req EXCEPT ![t] = Dequeued(t)]
  BY <1>4 DEF Proceed, Dequeued
<1>6. report \in [Ids -> Ids \cup {NoId}] /\ report' = [report EXCEPT ![id] = id]
  BY <1>1 DEF QueueInv, GivenUpForReport
<1>7. IsReport(built[id])
  OBVIOUS
<1> HIDE DEF id
<1>8. /\ report'[id] = id /\ report' \in [Ids -> Ids \cup {NoId}]
      /\ \A i \in Ids : i # id => report'[i] = report[i]
  BY <1>3, <1>6
<1>9. stored' = stored /\ record' = record /\ keyed' = keyed
  BY DEF repositoryVars
<1>10. /\ ServiceTypeOK' /\ QueuedOnce' /\ BuiltInTime' /\ ReportsGoAlone'
       /\ InProgress = InProgress' \cup {id}
       /\ \A u \in Threads : \A n \in 1..Len(req'[u].queue) :
            \E m \in 1..Len(req[u].queue) :
              /\ req'[u].queue[n] = req[u].queue[m]
              /\ u = t => m > 1
              /\ u # t => m = n /\ req'[u] = req[u]
  BY <1>1, <1>2, <1>5, DequeueStep DEF id
<1>11. RepositoryInv'
  BY <1>1, <1>9 DEF QueueInv, RepositoryInv, RepositoryTypeOK, StoredOnce, KeyedIsNewest,
                   SpacedByWindow, EventAt
<1>12. QueuedIsNew'
  <2> SUFFICES ASSUME NEW u \in Threads, NEW n \in 1..Len(req'[u].queue)
               PROVE  record[req'[u].queue[n]] = NoEvent <=> ~(n = 1 /\ req'[u].at = "audit")
    BY <1>9 DEF QueuedIsNew, At
  <2>1. PICK m \in 1..Len(req[u].queue) :
          /\ req'[u].queue[n] = req[u].queue[m]
          /\ u = t => m > 1
          /\ u # t => m = n /\ req'[u] = req[u]
    BY <1>10
  <2>2. u # t
    BY <1>4, <2>1
  <2>. QED BY <1>1, <2>1, <2>2 DEF QueueInv, QueuedIsNew, At
<1>13. RecordedIsStored' /\ KeyTellsType'
  BY <1>1, <1>9 DEF QueueInv, RecordedIsStored, KeyTellsType
<1>14. GivenUpForReport'
  <2> SUFFICES ASSUME NEW i \in Ids, report'[i] # NoId
               PROVE  /\ i \in 1..Len(built) /\ report'[i] \in 1..Len(built)
                      /\ IsReport(built[report'[i]])
                      /\ report'[i] # i =>
                           /\ built[report'[i]].key = AuditKey
                           /\ built[report'[i]].created >= built[i].created
    BY <1>8 DEF GivenUpForReport
  <2>1. CASE i = id
    BY <1>3, <1>7, <1>8, <2>1
  <2>2. CASE i # id
    BY <1>1, <1>8, <2>2 DEF QueueInv, GivenUpForReport
  <2>. QED BY <2>1, <2>2
<1>15. \A i \in 1..Len(built) : Represented(i) => Represented(i)'
  BY <1>9 DEF Represented, Represents, EventAt
<1>16. \A k \in 1..Len(built) : k = id => Represented(k)'
  BY <1>1, <1>3, <1>15, HeadIsRepresented
<1>17. AnsweredIsRepresented'
  <2> SUFFICES ASSUME NEW i \in 1..Len(built), i \notin InProgress'
               PROVE  Answered(i)'
    BY DEF AnsweredIsRepresented
  <2>1. i = id => Answered(i)'
    BY <1>16 DEF Answered
  <2>2. CASE i # id
    <3>1. Answered(i) /\ i \in Ids
      BY <1>1, <1>10, <2>2 DEF AnsweredIsRepresented, IdsNeverRunOut
    <3>2. \A k \in 1..Len(built) : k \in InProgress => k \in InProgress' \/ k = id
      BY <1>10
    <3>3. \A k \in 1..Len(built) : IsReport(built[k]) /\ k \in InProgress =>
            k \in InProgress' \/ Represented(k)'
      BY <1>16, <3>2
    <3>4. report'[i] = report[i]
      BY <1>8, <2>2, <3>1
    <3>. QED BY <1>1, <1>15, <3>1, <3>3, <3>4, StaysAnswered
  <2>. QED BY <2>1, <2>2
<1>18. StoredEventsAreAudited'
  <2> SUFFICES ASSUME NEW n \in 1..Len(stored), stored[n] \notin InProgress'
               PROVE  \/ EventAt(n).audited
                      \/ IsReport(EventAt(n)) /\ report'[stored[n]] = stored[n]
    BY <1>9 DEF StoredEventsAreAudited, EventAt
  <2>1. CASE stored[n] = id
    <3>1. SameEvent(record[id], built[id])
      BY <1>1, <1>3 DEF QueueInv, RecordedIsStored
    <3>. QED BY <1>7, <1>8, <2>1, <3>1 DEF SameEvent, IsReport, EventAt
  <2>2. CASE stored[n] # id
    <3>1. stored[n] \in Ids /\ stored[n] \notin InProgress
      BY <1>1, <1>10, <2>2 DEF QueueInv, RepositoryInv, RepositoryTypeOK
    <3>. QED BY <1>1, <1>8, <2>2, <3>1 DEF StoredEventsAreAudited
  <2>. QED BY <2>1, <2>2
<1>19. OutageIsTold'
  BY <1>2, <1>5, EmissionTellsNothing
<1>. QED BY <1>10, <1>11, <1>12, <1>13, <1>14, <1>17, <1>18, <1>19 DEF EventsInv, QueueInv

LEMMA ServiceStep ==
  ASSUME IdsNeverRunOut, EventsInv, [Next]_vars
  PROVE  EventsInv' /\ [RepositoryNext]_repositoryVars
<1>1. /\ QueueInv /\ AnsweredIsRepresented /\ StoredEventsAreAudited /\ OutageIsTold
      /\ ServiceTypeOK /\ now \in Nat
  BY DEF EventsInv, QueueInv, ServiceTypeOK
<1>2. ASSUME NEW t \in Threads, Emit(t)
      PROVE  EventsInv' /\ [RepositoryNext]_repositoryVars
  <2>1. req[t].queue # <<>>
    BY <1>1, <1>2 DEF Emit, At, ServiceTypeOK
  <2>2. /\ \/ req' = [req EXCEPT ![t] = Dequeued(t)]
           \/ req' = [req EXCEPT ![t] = [req[t] EXCEPT !.at = "audit"]]
        /\ UNCHANGED <<account, now, built>>
    BY <1>2 DEF Emit, Proceed
  <2>. QED BY <1>1, <1>2, <2>1, <2>2, EmitStep, EmissionTellsNothing DEF EventsInv
<1>3. ASSUME NEW t \in Threads, AuditEmission(t)
      PROVE  EventsInv' /\ [RepositoryNext]_repositoryVars
  <2>1. req[t].queue # <<>>
    BY <1>1, <1>3 DEF AuditEmission, At, ServiceTypeOK
  <2>2. req' = [req EXCEPT ![t] = Dequeued(t)] /\ UNCHANGED <<account, now, built>>
    BY <1>3 DEF AuditEmission, Proceed
  <2>. QED BY <1>1, <1>3, <2>1, <2>2, AuditStep, EmissionTellsNothing DEF EventsInv
<1>4. ASSUME UNCHANGED <<repositoryVars, account, req, built, report>>,
             now' \in Nat, now <= now'
      PROVE  EventsInv'
  <2>1. ServiceTypeOK'
    BY <1>1, <1>4 DEF ServiceTypeOK, At
  <2>2. QueueInv' /\ AnsweredIsRepresented' /\ StoredEventsAreAudited'
    BY <1>1, <1>4, <2>1, NothingMoves
  <2>3. OutageIsTold'
    <3> SUFFICES ASSUME NEW t \in Threads, req[t].at = "save", ~req[t].snap.missing
                 PROVE  req[t].draft.since <= now'
      BY <1>1, <1>4 DEF OutageIsTold, Told, At
    <3>1. req[t].draft.since <= now
      BY <1>1 DEF OutageIsTold, At
    <3>2. req[t].draft.since \in Nat
      BY <1>1 DEF ServiceTypeOK, Request, Memo
    <3>. QED BY <1>1, <1>4, <3>1, <3>2
  <2>. QED BY <2>2, <2>3 DEF EventsInv
<1>5. ASSUME NEW t \in Threads, EmissionUnaudited(t)
      PROVE  EventsInv' /\ [RepositoryNext]_repositoryVars
  <2> DEFINE id == Head(req[t].queue)
  <2>1. /\ At(t, "audit") /\ UNCHANGED <<repositoryVars, account, now>>
        /\ \/ ~IsReport(built[id]) /\ AuditRaises(t)
           \/ /\ IsReport(built[id])
              /\ report' = [report EXCEPT ![id] = id]
              /\ Proceed(t, Idle) /\ UNCHANGED built
    BY <1>5 DEF EmissionUnaudited
  <2>2. CASE ~IsReport(built[id]) /\ AuditRaises(t)
    <3>1. AuditError \in Buildable /\ IsReport(AuditError) /\ AuditError.key = AuditKey
      BY <1>1, ReportsAreBuildable
    <3>2. \A x \in Queued(t) : ~IsReport(built[x])
      <4> SUFFICES ASSUME NEW n \in 1..Len(req[t].queue), IsReport(built[req[t].queue[n]])
                   PROVE  FALSE
        BY DEF Queued
      <4>1. Len(req[t].queue) = 1
        BY <1>1 DEF QueueInv, ReportsGoAlone
      <4>2. n = 1 /\ id = req[t].queue[1]
        BY <4>1
      <4>. QED BY <2>2, <4>2
    <3>3. built' = built \o <<AuditError>> /\ <<AuditError>> \in Seq(Event)
      BY <2>2, <3>1 DEF AuditRaises, Raise, Enqueue, Buildable
    <3>4. Told(account)'
      BY <1>1, <2>1, <3>3, ToldStaysTold DEF OutageIsTold, Told, ServiceTypeOK
    <3>5. account' \in Memo
      BY <1>1, <2>1 DEF ServiceTypeOK
    <3>. QED BY <2>1, <2>2, <3>1, <3>2, <3>4, <3>5, RaiseStep DEF AuditRaises
  <2>3. CASE /\ IsReport(built[id])
             /\ report' = [report EXCEPT ![id] = id]
             /\ Proceed(t, Idle) /\ UNCHANGED built
    BY <2>1, <2>3, RefusedStep
  <2>. QED BY <2>1, <2>2, <2>3
<1>6. CASE Advance
  <2>1. UNCHANGED <<repositoryVars, account, req, built, report>> /\ now' = now + 1
    BY <1>6 DEF Advance
  <2>2. now' \in Nat /\ now <= now'
    BY <1>1, <2>1
  <2>. QED BY <1>4, <2>1, <2>2
<1>7. CASE UNCHANGED vars
  <2>1. /\ UNCHANGED <<repositoryVars, account, req, now, built, report>>
    BY <1>7 DEF vars, repositoryVars
  <2>2. now' \in Nat /\ now <= now'
    BY <1>1, <2>1
  <2>. QED BY <1>4, <2>1, <2>2
<1>. QED BY <1>2, <1>3, <1>5, <1>6, <1>7, BeginStep, EvaluateStep, SaveStep DEF Next

LEMMA EventsInvariant == IdsNeverRunOut => (Spec => []EventsInv)
<1> SUFFICES ASSUME IdsNeverRunOut PROVE Spec => []EventsInv
  OBVIOUS
<1>1. EventsInv /\ [Next]_vars => EventsInv'
  BY ServiceStep
<1>. QED BY <1>1, ServiceInitInv, PTL DEF Spec

(* The service appends only new events under new ids, and marks only events  *)
(* it stored: it is one of the clients the repository is specified for.      *)
THEOREM ServiceUsesRepository == IdsNeverRunOut => (Spec => RepositorySpec)
<1> SUFFICES ASSUME IdsNeverRunOut PROVE Spec => RepositorySpec
  OBVIOUS
<1>1. Init => RepositoryInit
  BY DEF Init
<1>2. EventsInv /\ [Next]_vars => [RepositoryNext]_repositoryVars
  BY ServiceStep
<1>3. Spec => []EventsInv
  BY EventsInvariant
<1>. QED BY <1>1, <1>2, <1>3, PTL DEF Spec, RepositorySpec

(* The bounds on clock and ticks are kept.                                   *)
WithinBounds == now \in 0..MaxTime /\ ticks \in 0..MaxTicks

LEMMA BoundsInductive == WithinBounds /\ [Next]_vars => WithinBounds'
<1> SUFFICES ASSUME WithinBounds, [Next]_vars PROVE WithinBounds'
  OBVIOUS
<1>1. /\ now' = now \/ (now < MaxTime /\ now' = now + 1)
      /\ ticks' = ticks \/ (ticks < MaxTicks /\ ticks' = ticks + 1)
  <2>1. ASSUME NEW t \in Threads, Begin(t) \/ Evaluate(t) \/ Save(t)
        PROVE  now' = now /\ (ticks' = ticks \/ (ticks < MaxTicks /\ ticks' = ticks + 1))
    BY <2>1 DEF Begin, Evaluate, Save
  <2>2. ASSUME NEW t \in Threads, Emit(t) \/ AuditEmission(t) \/ EmissionUnaudited(t)
        PROVE  now' = now /\ ticks' = ticks
    BY <2>2 DEF Emit, AuditEmission, EmissionUnaudited
  <2>4. CASE Advance
    BY <2>4 DEF Advance
  <2>5. CASE UNCHANGED vars
    BY <2>5 DEF vars
  <2>. QED BY <2>1, <2>2, <2>4, <2>5 DEF Next
<1>. QED BY <1>1, BoundsAssumption DEF WithinBounds

(* Type correctness: every event built has an id of its own, and a thread    *)
(* (evaluate_account) has a queue of events exactly while it emits.          *)
THEOREM EventsTypeOK == IdsNeverRunOut => (Spec => []TypeOK)
<1> SUFFICES ASSUME IdsNeverRunOut PROVE Spec => []TypeOK
  OBVIOUS
<1>1. EventsInv /\ WithinBounds => TypeOK
  <2> SUFFICES ASSUME EventsInv, WithinBounds PROVE TypeOK
    OBVIOUS
  <2>1. ServiceTypeOK /\ RepositoryTypeOK
    BY DEF EventsInv, QueueInv, RepositoryInv
  <2>2. /\ built \in Seq(Event) /\ 1..Len(built) \subseteq Ids
        /\ report \in [Ids -> Ids \cup {NoId}]
    BY <2>1 DEF EventsInv, QueueInv, GivenUpForReport, ServiceTypeOK, IdsNeverRunOut
  <2>3. ASSUME NEW t \in Threads
        PROVE  /\ req[t].at \in Points
               /\ req[t].queue \in Seq(Ids)
               /\ req[t].at \in {"emit", "audit"} <=> req[t].queue # <<>>
    <3>1. req[t] \in Request /\ (req[t].at \in {"emit", "audit"} <=> req[t].queue # <<>>)
      BY <2>1 DEF ServiceTypeOK
    <3>2. req[t].queue \in Seq(Nat \ {0}) /\ req[t].at \in Points
      BY <3>1 DEF Request
    <3>3. req[t].queue \in Seq(Ids)
      BY <3>2 DEF IdsNeverRunOut
    <3>. QED BY <3>1, <3>2, <3>3
  <2>. QED BY <2>1, <2>2, <2>3 DEF TypeOK, ServiceTypeOK, WithinBounds
<1>2. Init => WithinBounds
  BY BoundsAssumption DEF Init, WithinBounds
<1>3. Spec => []EventsInv
  BY EventsInvariant
<1>. QED BY <1>1, <1>2, <1>3, BoundsInductive, PTL DEF Spec

(* However ticks overlap, an event that is in no queue any more is stored, or *)
(* one too many (InMemoryMonitoringEventRepository), or was given up by a     *)
(* request (evaluate_account) whose error report about the audit log is       *)
(* stored in its place, or about to be, or itself one too many.               *)
THEOREM SuppressionIsHarmless == IdsNeverRunOut => (Spec => []SuppressedOnlyIfRecent)
<1> SUFFICES ASSUME IdsNeverRunOut PROVE Spec => []SuppressedOnlyIfRecent
  OBVIOUS
<1>1. EventsInv => SuppressedOnlyIfRecent
  <2> SUFFICES ASSUME EventsInv, NEW id \in 1..Len(built), id \notin InProgress
               PROVE  \/ OnRecord(id)
                      \/ /\ report[id] # NoId
                         /\ built[report[id]].key = AuditKey
                         /\ report[id] \in InProgress \/ OnRecord(report[id])
    BY DEF SuppressedOnlyIfRecent
  <2>1. QueueInv /\ Answered(id) /\ id \in Ids
    BY DEF EventsInv, AnsweredIsRepresented, IdsNeverRunOut
  <2>2. \A i \in 1..Len(built) : Represented(i) => OnRecord(i)
    BY DEF Represented, Represents, OnRecord
  <2>3. report[id] # NoId /\ report[id] # id =>
          report[id] \in 1..Len(built) /\ built[report[id]].key = AuditKey
    BY <2>1 DEF QueueInv, GivenUpForReport
  <2>. QED BY <2>1, <2>2, <2>3 DEF Answered
<1>2. Spec => []EventsInv
  BY EventsInvariant
<1>. QED BY <1>1, <1>2, PTL

(* A missing rate that the stored account knows of (evaluate_account) is on   *)
(* record when all requests are answered, whichever ticks overlapped and      *)
(* whatever the repository suppressed; or the log says, as recently, that a   *)
(* write to the audit log was refused.                                        *)
THEOREM OutagesAreOnRecord == IdsNeverRunOut => (Spec => []OutageIsOnRecord)
<1> SUFFICES ASSUME IdsNeverRunOut PROVE Spec => []OutageIsOnRecord
  OBVIOUS
<1>1. EventsInv => OutageIsOnRecord
  <2> SUFFICES ASSUME EventsInv, Quiet, account.missing
               PROVE  \E n \in 1..Len(stored) :
                        TellsOfOutage(EventAt(n)) /\ EventAt(n).created + Window >= account.since
    BY DEF OutageIsOnRecord, TellsOfOutage
  <2>1. /\ ServiceTypeOK /\ RepositoryInv /\ AnsweredIsRepresented /\ OutageIsTold
        /\ GivenUpForReport
    BY DEF EventsInv, QueueInv
  <2>2. InProgress = {}
    <3>1. \A t \in Threads : req[t].queue = <<>>
      BY <2>1 DEF Quiet, At, ServiceTypeOK
    <3>. QED BY <3>1 DEF InProgress, Queued
  <2>3. PICK id \in 1..Len(built) :
          TellsOfOutage(built[id]) /\ built[id].created >= account.since
    BY <2>1 DEF OutageIsTold, Told
  <2>4. \A i \in 1..Len(built) : built[i].created \in Nat
    <3>1. \A i \in 1..Len(built) : built[i] \in Event
      BY <2>1 DEF ServiceTypeOK
    <3>. QED BY <3>1 DEF Event
  <2>5. account.since \in Nat
    BY <2>1 DEF ServiceTypeOK, Memo
  <2>6. PICK i \in 1..Len(built) :
          /\ Represented(i) /\ TellsOfOutage(built[i]) /\ built[i].created >= account.since
    <3>1. Answered(id) /\ id \in Ids
      BY <2>1, <2>2 DEF AnsweredIsRepresented, IdsNeverRunOut
    <3>2. CASE Represented(id)
      BY <2>3, <3>2
    <3>3. CASE report[id] # NoId /\ report[id] # id /\ Represented(report[id])
      <4>1. /\ report[id] \in 1..Len(built) /\ built[report[id]].key = AuditKey
            /\ built[report[id]].created >= built[id].created
        BY <2>1, <3>1, <3>3 DEF GivenUpForReport
      <4>2. built[report[id]].created >= account.since
        BY <2>3, <2>4, <2>5, <4>1
      <4>. QED BY <3>3, <4>1, <4>2 DEF TellsOfOutage
    <3>. QED BY <2>2, <3>1, <3>2, <3>3 DEF Answered
  <2>7. PICK n \in 1..Len(stored) : Represents(n, i)
    BY <2>6 DEF Represented
  <2>8. EventAt(n).created \in Nat
    BY <2>1 DEF RepositoryInv, StoredOnce, Event
  <2>9. TellsOfOutage(EventAt(n))
    BY <2>6, <2>7 DEF Represents, TellsOfOutage
  <2>10. EventAt(n).created + Window >= account.since
    BY <2>4, <2>5, <2>6, <2>7, <2>8, WindowAssumption DEF Represents
  <2>. QED BY <2>9, <2>10
<1>2. Spec => []EventsInv
  BY EventsInvariant
<1>. QED BY <1>1, <1>2, PTL

(* A stored event leads to the audit log (_append_event) once the request     *)
(* that stored it is answered, unless it is an error report and the audit     *)
(* log refused the record of that very event.                                 *)
THEOREM StoredEventsLeadToTheLog == IdsNeverRunOut => (Spec => []StoredEventsAreAudited)
<1> SUFFICES ASSUME IdsNeverRunOut PROVE Spec => []StoredEventsAreAudited
  OBVIOUS
<1>1. EventsInv => StoredEventsAreAudited
  BY DEF EventsInv
<1>2. Spec => []EventsInv
  BY EventsInvariant
<1>. QED BY <1>1, <1>2, PTL
=============================================================================
