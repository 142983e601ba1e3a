----------------------------- MODULE AccountBook ----------------------------
(***************************************************************************)
(* What the account store promises the lender: every operation takes one   *)
(* account from its current record to the next in one indivisible step.  A *)
(* loan update is posted to the obligation as it stands and only once, a   *)
(* reassessment charges interest on that obligation up to a later time, a  *)
(* status change touches the status alone, and only registration brings    *)
(* an account into being.                                                  *)
(***************************************************************************)
EXTENDS MonitoredAccount

CONSTANTS
  Accounts,    (* account references                                       *)
  Openings,    (* loans an account can be registered with                  *)
  Valuations,  (* what the collateral can be worth                         *)
  Times,       (* instants                                                 *)
  Serials      (* names of registrations                                   *)

VARIABLE book

Init == book = [a \in Accounts |-> NoAccount]

Stored(a) == book[a] # NoAccount

Becomes(a, record) == book' = [book EXCEPT ![a] = record]

(* register_account, overwriting what was there *)
Open(a) ==
  \E loan \in Openings, status \in Statuses, at \in Times, serial \in Serials :
    Becomes(a, Registered(loan, status, at, serial))

(* delete_account, and the rollback of a failed registration *)
Close(a) == Becomes(a, NoAccount)

Post(a) ==
  /\ Stored(a)
  /\ \E r \in References :
       /\ ~IsProcessed(book[a], r)
       /\ \E v \in Valuations : ~IsRefused(book[a], r, v)
       /\ Becomes(a, Posted(book[a], r))

Reassess(a) ==
  /\ Stored(a)
  /\ \E v \in Valuations, at \in Times, initial \in BOOLEAN :
       /\ at >= book[a].accruedTo
       /\ initial => book[a].last = "none"
       /\ Becomes(a, Assessed(book[a], v, at, initial))

SetStatus(a) ==
  /\ Stored(a)
  /\ \E status \in Statuses : Becomes(a, [book[a] EXCEPT !.status = status])

Next == \E a \in Accounts :
  Open(a) \/ Close(a) \/ Post(a) \/ Reassess(a) \/ SetStatus(a)

Spec == Init /\ [][Next]_book
=============================================================================
