-------------------------- MODULE EventRepository ---------------------------
(***************************************************************************)
(* The in-memory repository of monitoring events                           *)
(* (src/app/monitoring/repositories.py:147-210).  An event is stored once  *)
(* and found by its place, by its id and by its deduplication key; the     *)
(* three hold the same object.  Every operation is under the lock.         *)
(*                                                                         *)
(* Events are given the time they are built at and appended later, by any  *)
(* thread: nothing says the order of the one is that of the other.         *)
(***************************************************************************)
EXTENDS Integers, Sequences

CONSTANTS
  Ids,        (* event ids, fresh for each event (uuid4)                   *)
  Keys,       (* deduplication keys                                        *)
  NoKey,      (* the event is never a duplicate                            *)
  Contents,   (* the rest of an event                                      *)
  Window,     (* dedupe_ttl_seconds                                        *)
  NoEvent, NoId

Event == [key: Keys \cup {NoKey}, created: Nat, audited: BOOLEAN, content: Contents]

ASSUME WindowAssumption == Window \in Nat
ASSUME NothingAssumption == NoKey \notin Keys /\ NoEvent \notin Event /\ NoId \notin Ids

VARIABLES
  stored,     (* _events                                                   *)
  record,     (* _by_id                                                    *)
  keyed       (* _dedupe_keys: the id of the event held                    *)

repositoryVars == <<stored, record, keyed>>

RepositoryTypeOK ==
  /\ stored \in Seq(Ids)
  /\ record \in [Ids -> Event \cup {NoEvent}]
  /\ keyed \in [Keys -> Ids \cup {NoId}]

RepositoryInit ==
  /\ stored = <<>>
  /\ record = [i \in Ids |-> NoEvent]
  /\ keyed = [k \in Keys |-> NoId]

(* Faulty variant of Duplicate: the window reaches both ways, so that an     *)
(* event appended late, behind a newer one, is no duplicate.                 *)
DuplicateNearby(event) ==
  /\ event.key # NoKey
  /\ keyed[event.key] # NoId
  /\ event.created <= record[keyed[event.key]].created + Window
  /\ event.created >= record[keyed[event.key]].created - Window

(* Faulty variant of Duplicate: the window is not looked at.                 *)
DuplicateEver(event) == event.key # NoKey /\ keyed[event.key] # NoId

(* The key was seen no longer than the window before the event, or after it. *)
Duplicate(event) ==
  /\ event.key # NoKey
  /\ keyed[event.key] # NoId
  /\ event.created <= record[keyed[event.key]].created + Window

(* append *)
AppendEvent(id, event) ==
  IF Duplicate(event) THEN UNCHANGED repositoryVars
  ELSE /\ stored' = Append(stored, id)
       /\ record' = [record EXCEPT ![id] = event]
       /\ keyed' = IF event.key = NoKey THEN keyed ELSE [keyed EXCEPT ![event.key] = id]

(* Faulty variant of SetAudit: the copy the caller holds is updated.         *)
SetAuditOfCopy(id) == UNCHANGED repositoryVars

(* update_event_audit_id *)
SetAudit(id) ==
  /\ record[id] # NoEvent
  /\ record' = [record EXCEPT ![id].audited = TRUE]
  /\ UNCHANGED <<stored, keyed>>

RepositoryNext ==
  \/ \E id \in Ids, event \in Event : record[id] = NoEvent /\ AppendEvent(id, event)
  \/ \E id \in Ids : SetAudit(id)

RepositorySpec == RepositoryInit /\ [][RepositoryNext]_repositoryVars

-----------------------------------------------------------------------------
EventAt(n) == record[stored[n]]

(* Whatever the order in which threads append, two stored events of one key  *)
(* are further apart than the window, the later one stored after the earlier *)
(* (test_event_dedupe_ttl_and_repository_mutability).                        *)
SpacedByWindow ==
  \A m, n \in 1..Len(stored) :
    m < n /\ EventAt(m).key = EventAt(n).key /\ EventAt(m).key # NoKey
      => EventAt(n).created > EventAt(m).created + Window
=============================================================================
