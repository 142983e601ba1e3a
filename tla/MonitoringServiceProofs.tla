----------------------- MODULE MonitoringServiceProofs ----------------------
(***************************************************************************)
(* Theorems about the monitoring service, for any number of threads,       *)
(* accounts, requests and instants, with audit writes that may fail.       *)
(*                                                                         *)
(* Stored records, and the copies of them that requests carry, are all     *)
(* made by four operations from one another.  Arises says so, StepShape    *)
(* shows that every step keeps to it, and an invariant of single records   *)
(* then needs to be proved for those four operations only: interleaving,   *)
(* stale copies and lost updates included.                                 *)
(*                                                                         *)
(* Two further parts look at requests as well: the alarms they have yet to *)
(* publish, and, for a single client, that what they carry is current.     *)
(*                                                                         *)
(* The first part is about account records alone: what each operation      *)
(* makes of one stays a record, its accrual clock accounts for every       *)
(* instant, and no reference is counted twice.                             *)
(***************************************************************************)
EXTENDS MonitoringService, CollateralRiskProofs, FiniteSetTheorems, SequenceTheorems

(***************************************************************************)
(* Types                                                                   *)
(***************************************************************************)
LEMMA RegisteredType ==
  ASSUME NEW loan \in Loan, NEW status \in Statuses, NEW at \in Nat, NEW serial \in Nat
  PROVE  Registered(loan, status, at, serial) \in Account
BY DEF Registered, Account

LEMMA StatusChangeType ==
  ASSUME NEW account \in Account, NEW status \in Statuses
  PROVE  [account EXCEPT !.status = status] \in Account
BY DEF Account

LEMMA LoanChangeType ==
  ASSUME NEW account \in Account, NEW loan \in Loan
  PROVE  [account EXCEPT !.loan = loan] \in Account
BY DEF Account

LEMMA RememberType ==
  ASSUME NEW processed \in Seq(References), NEW r \in References
  PROVE  Remember(processed, r) \in Seq(References)
<1>1. /\ Len(processed) \in Nat
      /\ Excess(Len(processed), Window - 1) \in Nat
      /\ Excess(Len(processed), Window - 1) <= Len(processed)
  BY WindowAssumption, LenProperties DEF Excess
<1>2. SubSeq(processed, 1 + Excess(Len(processed), Window - 1), Len(processed))
        \in Seq(References)
  BY <1>1, SubSeqProperties
<1> QED
  BY <1>2, AppendProperties DEF Remember

LEMMA UpdatedLoanType ==
  ASSUME NEW account \in Account, NEW r \in References
  PROVE  UpdatedLoan(account, r) \in Loan
<1>1. Payload[r] \in Update
  BY PayloadAssumption
<1>2. Payload[r] \in [draw: Nat, repay: Nat, interest: Nat, fee: Nat, tick: BOOLEAN]
  BY <1>1 DEF Update
<1>3. account.loan \in Loan
  BY DEF Account
<1>4. SettledLoan(account, r) \in Loan
  BY <1>2, <1>3, SettleType DEF SettledLoan
<1>5. ProjectedLoan(SettledLoan(account, r), Payload[r].draw, 0) \in Loan
  BY <1>2, <1>4, ProjectedLoanType
<1> QED
  BY <1>4, <1>5 DEF UpdatedLoan

LEMMA PostedRecord ==
  ASSUME NEW account \in Account, NEW r \in References
  PROVE  /\ Posted(account, r) \in Account
         /\ Posted(account, r).processed = Remember(account.processed, r)
         /\ Posted(account, r).applied = [account.applied EXCEPT ![r] = @ + 1]
         /\ Posted(account, r).accruedTo = account.accruedTo
         /\ Posted(account, r).runsFrom = account.runsFrom
         /\ Posted(account, r).charged = account.charged
<1> DEFINE loan == UpdatedLoan(account, r)
           processed == Remember(account.processed, r)
           applied == [account.applied EXCEPT ![r] = @ + 1]
<1>1. Posted(account, r) = [account EXCEPT !.loan = loan, !.processed = processed,
                                           !.applied = applied]
  BY DEF Posted
<1>2. loan \in Loan
  BY UpdatedLoanType
<1>3. processed \in Seq(References)
  BY RememberType DEF Account
<1>4. applied \in [References -> Nat]
  BY DEF Account
<1> HIDE DEF loan, processed, applied
<1>5. Posted(account, r) \in Account
  BY <1>1, <1>2, <1>3, <1>4 DEF Account
<1>6. /\ Posted(account, r).processed = processed
      /\ Posted(account, r).applied = applied
  BY <1>1 DEF Account
<1>7. /\ Posted(account, r).accruedTo = account.accruedTo
      /\ Posted(account, r).runsFrom = account.runsFrom
      /\ Posted(account, r).charged = account.charged
  BY <1>1 DEF Account
<1> QED
  BY <1>5, <1>6, <1>7 DEF processed, applied

LEMMA AccruedLoanType ==
  ASSUME NEW account \in Account, NEW at \in Nat, NEW initial
  PROVE  AccruedLoan(account, at, initial) \in Loan
<1>1. account.loan \in Loan /\ account.accruedTo \in Nat
  BY DEF Account
<1>2. Elapsed(account, at) \in Nat
  BY <1>1, ExcessNat DEF Elapsed
<1>3. RoundLoan(AccrueInterest(account.loan, Elapsed(account, at))) \in Loan
  BY <1>1, <1>2, AccrueInterestType, RoundLoanType
<1> QED
  BY <1>1, <1>3 DEF AccruedLoan

LEMMA AssessedRecord ==
  ASSUME NEW account \in Account, NEW v, NEW at \in Nat, NEW initial \in BOOLEAN
  PROVE  /\ Assessed(account, v, at, initial) \in Account
         /\ Assessed(account, v, at, initial).processed = account.processed
         /\ Assessed(account, v, at, initial).applied = account.applied
         /\ Assessed(account, v, at, initial).accruedTo = at
         /\ Assessed(account, v, at, initial).runsFrom
              = IF initial THEN at ELSE account.runsFrom
         /\ Assessed(account, v, at, initial).charged
              = IF initial THEN 0 ELSE account.charged + Elapsed(account, at)
<1> DEFINE loan == AccruedLoan(account, at, initial)
           state == MarginState(v, Balance(loan))
           from == IF initial THEN at ELSE account.runsFrom
           charged == IF initial THEN 0 ELSE account.charged + Elapsed(account, at)
<1>1. Assessed(account, v, at, initial)
        = [account EXCEPT !.loan = loan, !.accruedTo = at, !.last = state,
                          !.runsFrom = from, !.charged = charged]
  BY DEF Assessed
<1>2. account.accruedTo \in Nat /\ account.charged \in Nat /\ account.runsFrom \in Nat
  BY DEF Account
<1>3. Elapsed(account, at) \in Nat
  BY <1>2, ExcessNat DEF Elapsed
<1>4. charged \in Nat /\ from \in Nat
  BY <1>2, <1>3
<1>5. loan \in Loan
  BY AccruedLoanType
<1>6. state \in MarginStates
  BY MarginStateType
<1> HIDE DEF loan, state, from, charged
<1>7. Assessed(account, v, at, initial) \in Account
  BY <1>1, <1>4, <1>5, <1>6 DEF Account
<1>8. /\ Assessed(account, v, at, initial).processed = account.processed
      /\ Assessed(account, v, at, initial).applied = account.applied
  BY <1>1 DEF Account
<1>9. /\ Assessed(account, v, at, initial).accruedTo = at
      /\ Assessed(account, v, at, initial).runsFrom = from
      /\ Assessed(account, v, at, initial).charged = charged
  BY <1>1 DEF Account
<1> QED
  BY <1>7, <1>8, <1>9 DEF from, charged

(* An operation keeps the registration a record descends from.             *)
LEMMA PostedHistory ==
  ASSUME NEW account \in Account, NEW r \in References
  PROVE  /\ Posted(account, r).serial = account.serial
         /\ Posted(account, r).last = account.last
<1> DEFINE loan == UpdatedLoan(account, r)
           processed == Remember(account.processed, r)
           applied == [account.applied EXCEPT ![r] = @ + 1]
<1>1. Posted(account, r)
        = [account EXCEPT !.loan = loan, !.processed = processed, !.applied = applied]
  BY DEF Posted, Account
<1> HIDE DEF loan, processed, applied
<1> QED
  BY <1>1 DEF Account

LEMMA AssessedHistory ==
  ASSUME NEW account \in Account, NEW v, NEW at \in Nat, NEW initial \in BOOLEAN
  PROVE  Assessed(account, v, at, initial).serial = account.serial
<1> DEFINE loan == AccruedLoan(account, at, initial)
           state == MarginState(v, Balance(loan))
           from == IF initial THEN at ELSE account.runsFrom
           charged == IF initial THEN 0 ELSE account.charged + Elapsed(account, at)
<1>1. Assessed(account, v, at, initial)
        = [account EXCEPT !.loan = loan, !.accruedTo = at, !.last = state,
                          !.runsFrom = from, !.charged = charged]
  BY DEF Assessed
<1> HIDE DEF loan, state, from, charged
<1> QED
  BY <1>1 DEF Account

(***************************************************************************)
(* The accrual clock: interest has been charged from the initial           *)
(* evaluation up to the last accrual, which is not after the instant at.   *)
(***************************************************************************)
ClockRuns(account, at) ==
  /\ account.accruedTo = account.runsFrom + account.charged
  /\ account.accruedTo <= at

LEMMA RegisteredClock ==
  ASSUME NEW loan, NEW status, NEW at \in Nat, NEW serial
  PROVE  ClockRuns(Registered(loan, status, at, serial), at)
BY DEF Registered, ClockRuns

LEMMA PostedClock ==
  ASSUME NEW account \in Account, NEW at \in Nat, ClockRuns(account, at),
         NEW r \in References
  PROVE  ClockRuns(Posted(account, r), at)
BY PostedRecord DEF ClockRuns

LEMMA AssessedClock ==
  ASSUME NEW account \in Account, NEW at \in Nat, ClockRuns(account, at),
         NEW v, NEW initial \in BOOLEAN
  PROVE  ClockRuns(Assessed(account, v, at, initial), at)
<1>1. account.accruedTo \in Nat /\ account.runsFrom \in Nat /\ account.charged \in Nat
  BY DEF Account
<1>2. Elapsed(account, at) = at - account.accruedTo
  BY <1>1 DEF Elapsed, Excess, ClockRuns
<1> QED
  BY <1>1, <1>2, AssessedRecord DEF ClockRuns

LEMMA StatusChangeClock ==
  ASSUME NEW account \in Account, NEW at \in Nat, ClockRuns(account, at), NEW status
  PROVE  ClockRuns([account EXCEPT !.status = status], at)
BY DEF ClockRuns, Account

(***************************************************************************)
(* References: the account remembers every reference applied to it, and    *)
(* none is applied twice.  It holds while the references clients use fit   *)
(* in the window.                                                          *)
(***************************************************************************)
CountedOnce(account) ==
  /\ \A i, j \in 1..Len(account.processed) :
       account.processed[i] = account.processed[j] => i = j
  /\ \A r \in References :
       /\ account.applied[r] <= 1
       /\ account.applied[r] > 0 => IsProcessed(account, r)

(* While a reference is still unseen, the window has room for it. *)
LEMMA RoomForTheUnseen ==
  ASSUME IsFiniteSet(References), Cardinality(References) <= Window,
         NEW s \in Seq(References), NEW r \in References,
         \A i, j \in 1..Len(s) : s[i] = s[j] => i = j,
         \A i \in 1..Len(s) : s[i] # r
  PROVE  Len(s) <= Window - 1
<1> DEFINE others == References \ {r}
<1>1. /\ Len(s) \in Nat
      /\ s \in [1..Len(s) -> others]
  BY LenProperties, ElementOfSeq
<1>2. /\ IsFiniteSet(others)
      /\ Cardinality(others) = Cardinality(References) - 1
      /\ Cardinality(References) \in Nat
  BY FS_RemoveElement, FS_CardinalityType
<1>3. IsFiniteSet(1..Len(s)) /\ Cardinality(1..Len(s)) = Len(s)
  BY <1>1, FS_Interval
<1>4. ~ (Cardinality(others) < Cardinality(1..Len(s)))
  BY <1>1, <1>2, <1>3, FS_PigeonHole
<1> QED
  BY <1>1, <1>2, <1>3, <1>4, WindowAssumption

LEMMA RememberAll ==
  ASSUME NEW s \in Seq(References), NEW r \in References, Len(s) <= Window - 1
  PROVE  Remember(s, r) = Append(s, r)
<1>1. Len(s) \in Nat /\ Excess(Len(s), Window - 1) = 0
  BY LenProperties, WindowAssumption DEF Excess
<1>2. SubSeq(s, 1, Len(s)) = s
  BY SubSeqFull
<1> QED
  BY <1>1, <1>2 DEF Remember

LEMMA RegisteredOnce ==
  ASSUME NEW loan, NEW status, NEW at, NEW serial
  PROVE  CountedOnce(Registered(loan, status, at, serial))
BY EmptySeq DEF Registered, CountedOnce

LEMMA PostedOnce ==
  ASSUME IsFiniteSet(References), Cardinality(References) <= Window,
         NEW account \in Account, CountedOnce(account),
         NEW r \in References, ~IsProcessed(account, r)
  PROVE  CountedOnce(Posted(account, r))
<1> DEFINE s == account.processed
           posted == Posted(account, r)
<1>1. s \in Seq(References) /\ Len(s) \in Nat
  BY LenProperties DEF Account
<1>2. \A i \in 1..Len(s) : s[i] # r
  BY DEF IsProcessed
<1>3. \A i, j \in 1..Len(s) : s[i] = s[j] => i = j
  BY DEF CountedOnce
<1>4. Len(s) <= Window - 1
  BY <1>1, <1>2, <1>3, RoomForTheUnseen
<1>5. posted.processed = Append(s, r)
  BY <1>1, <1>4, RememberAll, PostedRecord
<1>6. /\ Len(posted.processed) = Len(s) + 1
      /\ \A i \in 1..Len(s) : posted.processed[i] = s[i]
      /\ posted.processed[Len(s) + 1] = r
  BY <1>1, <1>5, AppendProperties
<1>7. \A i, j \in 1..Len(posted.processed) :
        posted.processed[i] = posted.processed[j] => i = j
  <2> DEFINE n == Len(s)
             longer == posted.processed
  <2>1. /\ n \in Nat /\ Len(longer) = n + 1 /\ longer[n + 1] = r
        /\ \A i \in 1..n : longer[i] # r
        /\ \A i, j \in 1..n : longer[i] = longer[j] => i = j
    BY <1>1, <1>2, <1>3, <1>6
  <2>2. \A i \in 1..Len(longer) : i \in 1..n \/ i = n + 1
    BY <2>1
  <2> HIDE DEF n, longer
  <2>3. \A i, j \in 1..Len(longer) : longer[i] = longer[j] => i = j
    BY <2>1, <2>2
  <2> QED
    BY <2>3 DEF longer
<1>8. account.applied \in [References -> Nat]
  BY DEF Account
<1>9. account.applied[r] = 0
  BY <1>8 DEF CountedOnce
<1>10. posted.applied = [account.applied EXCEPT ![r] = @ + 1]
  BY PostedRecord
<1>11. ASSUME NEW q \in References
       PROVE  /\ posted.applied[q] <= 1
              /\ posted.applied[q] > 0 => IsProcessed(posted, q)
  <2>1. CASE q = r
    <3>1. posted.applied[q] = 1
      BY <1>8, <1>9, <1>10, <2>1
    <3>2. IsProcessed(posted, q)
      BY <1>1, <1>6, <2>1 DEF IsProcessed
    <3> QED
      BY <3>1, <3>2
  <2>2. CASE q # r
    <3>1. posted.applied[q] = account.applied[q]
      BY <1>8, <1>10, <2>2
    <3>2. IsProcessed(account, q) => IsProcessed(posted, q)
      BY <1>1, <1>6 DEF IsProcessed
    <3> QED
      BY <3>1, <3>2 DEF CountedOnce
  <2> QED
    BY <2>1, <2>2
<1> HIDE DEF posted
<1> QED
  BY <1>7, <1>11 DEF CountedOnce, posted

LEMMA AssessedOnce ==
  ASSUME NEW account \in Account, CountedOnce(account),
         NEW v, NEW at \in Nat, NEW initial \in BOOLEAN
  PROVE  CountedOnce(Assessed(account, v, at, initial))
BY AssessedRecord DEF CountedOnce, IsProcessed

LEMMA StatusChangeOnce ==
  ASSUME NEW account \in Account, CountedOnce(account), NEW status
  PROVE  CountedOnce([account EXCEPT !.status = status])
BY DEF CountedOnce, IsProcessed, Account

-----------------------------------------------------------------------------
(* The service                                                               *)

Copies ==
  {accounts[a] : a \in Accounts} \cup {req[t].snap : t \in Threads}
    \cup {req[t].draft : t \in Threads}

Records == Copies \cap Account

(* The records that a step may store or put into a request. *)
Arises(record) ==
  \/ record = NoAccount
  \/ record \in Records
  \/ \E loan \in Openings, status \in Statuses, serial \in 0..issued' :
       record = Registered(loan, status, now, serial)
  \/ \E source \in Records, r \in References :
       ~IsProcessed(source, r) /\ record = Posted(source, r)
  \/ \E source \in Records, v \in Valuations, initial \in BOOLEAN :
       record = Assessed(source, v, now, initial)
  \/ \E source \in Records, status \in Statuses :
       record = [source EXCEPT !.status = status]

(* What a request carries at each of its points. *)
Ready(q) ==
  /\ q.at \in {"decide", "post", "record", "assess", "save", "notify", "set_status"}
       => q.snap \in Account
  /\ q.at \in {"post", "record", "save", "notify", "set_status"} => q.draft \in Account
  /\ q.at = "decide" => ~IsProcessed(q.snap, q.ref)

ServiceInv == TypeOK /\ \A t \in Threads : Ready(req[t])

-----------------------------------------------------------------------------
(* The shape of a step                                                       *)

RequestStep ==
  \/ UNCHANGED req
  \/ \E t \in Threads, q \in Request :
       /\ req' = [req EXCEPT ![t] = q]
       /\ Ready(q) /\ Arises(q.snap) /\ Arises(q.draft)

StoreStep ==
  \/ UNCHANGED <<accounts, entered>>
  \/ \E a \in Accounts, record \in Account \cup {NoAccount} : Store(a, record) /\ Arises(record)

LogStep ==
  \/ UNCHANGED log
  \/ \E a \in Accounts, events \in Seq(Event) : Emit(a, events)

EnvironmentStep ==
  /\ market' \in Valuations
  /\ now' \in 0..MaxTime /\ now <= now'
  /\ issued' \in 0..MaxRequests /\ issued <= issued'

Shape == RequestStep /\ StoreStep /\ LogStep /\ EnvironmentStep

LEMMA CopyArises ==
  ASSUME ServiceInv
  PROVE  /\ \A a \in Accounts : Arises(accounts[a])
         /\ \A t \in Threads : Arises(req[t].snap) /\ Arises(req[t].draft)
<1>1. \A a \in Accounts : accounts[a] \in Account \cup {NoAccount}
  BY DEF ServiceInv, TypeOK
<1>2. \A t \in Threads : /\ req[t].snap \in Account \cup {NoAccount}
                         /\ req[t].draft \in Account \cup {NoAccount}
  BY DEF ServiceInv, TypeOK, Request
<1> QED
  BY <1>1, <1>2 DEF Arises, Records, Copies

LEMMA NoRequestType ==
  /\ NoRequest \in Request /\ Ready(NoRequest)
  /\ NoRequest.snap = NoAccount /\ NoRequest.draft = NoAccount /\ NoRequest.at = "idle"
<1>1. SomeAccount \in Accounts /\ SomeReference \in References
  BY SizesAssumption DEF SomeAccount, SomeReference
<1> QED
  BY <1>1 DEF NoRequest, Request, Ready, Points, Kinds

LEMMA RequestTypes ==
  ASSUME ServiceInv, NEW t \in Threads
  PROVE  /\ req[t] \in Request /\ Ready(req[t])
         /\ req[t].acct \in Accounts /\ req[t].ref \in References
         /\ req[t].todo \in SUBSET Accounts
         /\ Arises(req[t].snap) /\ Arises(req[t].draft)
         /\ req[t].snap \in Account => req[t].snap \in Records
         /\ req[t].draft \in Account => req[t].draft \in Records
BY CopyArises DEF ServiceInv, TypeOK, Request, Records, Copies

LEMMA Idling ==
  ASSUME NEW t \in Threads, Proceed(t, NoRequest)
  PROVE  RequestStep
BY NoRequestType DEF Proceed, RequestStep, Arises

LEMMA Unchanging ==
  ASSUME ServiceInv
  PROVE  /\ UNCHANGED market => market' \in Valuations
         /\ UNCHANGED now => now' \in 0..MaxTime /\ now <= now'
         /\ UNCHANGED issued => issued' \in 0..MaxRequests /\ issued <= issued'
BY BoundsAssumption DEF ServiceInv, TypeOK

LEMMA NoticeType ==
  ASSUME NEW type \in EventTypes, NEW record \in Account, NEW ref \in References \cup {"none"}
  PROVE  Notice(type, record, ref) \in Event
BY DEF Notice, Event, Account

LEMMA EmitOnceStep ==
  ASSUME NEW a \in Accounts, NEW event \in Event, EmitOnce(a, event)
  PROVE  LogStep
<1>1. <<event>> \in Seq(Event)
  OBVIOUS
<1> QED
  BY <1>1 DEF EmitOnce, LogStep

LEMMA Going ==
  ASSUME NEW t \in Threads, NEW q \in Request, Proceed(t, q),
         Ready(q), Arises(q.snap), Arises(q.draft)
  PROVE  RequestStep
BY DEF Proceed, RequestStep

LEMMA FinishStep ==
  ASSUME ServiceInv, NEW t \in Threads, NEW succeeded, Finish(t, succeeded)
  PROVE  RequestStep
<1> DEFINE left == [req[t] EXCEPT !.snap = NoAccount, !.draft = NoAccount]
<1>1. req[t] \in Request /\ req[t].todo \in SUBSET Accounts
  BY RequestTypes
<1>2. left \in Request /\ left.snap = NoAccount /\ left.draft = NoAccount
      /\ left.todo = req[t].todo
  BY <1>1 DEF Request
<1>3. Arises(NoAccount)
  BY DEF Arises
<1>4. Finish(t, succeeded) =
        (IF req[t].kind = "register" /\ ~succeeded
         THEN Proceed(t, [left EXCEPT !.at = "rollback"])
         ELSE IF req[t].todo = {} THEN Proceed(t, NoRequest)
         ELSE \E a \in req[t].todo :
                Proceed(t, [left EXCEPT !.at = "evaluate", !.acct = a, !.todo = @ \ {a}]))
  BY DEF Finish
<1> HIDE DEF left
<1>5. CASE Proceed(t, [left EXCEPT !.at = "rollback"])
  <2> DEFINE q == [left EXCEPT !.at = "rollback"]
  <2>1. q \in Request /\ q.at = "rollback" /\ q.snap = NoAccount /\ q.draft = NoAccount
    BY <1>2 DEF Request, Points
  <2> HIDE DEF q
  <2>2. Ready(q)
    BY <2>1 DEF Ready
  <2>3. Proceed(t, q)
    BY <1>5 DEF q
  <2> QED
    BY <1>3, <2>1, <2>2, <2>3, Going
<1>6. CASE Proceed(t, NoRequest)
  BY <1>6, Idling
<1>7. ASSUME NEW a \in req[t].todo,
             Proceed(t, [left EXCEPT !.at = "evaluate", !.acct = a, !.todo = @ \ {a}])
      PROVE  RequestStep
  <2> DEFINE rest == left.todo \ {a}
             q == [left EXCEPT !.at = "evaluate", !.acct = a, !.todo = rest]
  <2>1. rest \in SUBSET Accounts /\ a \in Accounts
    BY <1>1, <1>2
  <2>2. Proceed(t, q)
    BY <1>7
  <2> HIDE DEF rest
  <2>3. q \in Request /\ q.at = "evaluate" /\ q.snap = NoAccount /\ q.draft = NoAccount
    BY <1>2, <2>1 DEF Request, Points
  <2> HIDE DEF q
  <2>4. Ready(q)
    BY <2>3 DEF Ready
  <2> QED
    BY <1>3, <2>2, <2>3, <2>4, Going
<1> QED
  BY <1>4, <1>5, <1>6, <1>7

-----------------------------------------------------------------------------
(* Every action has that shape: the handlers                                 *)

LEMMA AcceptStep ==
  ASSUME ServiceInv, NEW t \in Threads, NEW kind, Accept(t, kind)
  PROVE  issued' \in 0..MaxRequests /\ issued' \in Nat
         /\ issued <= issued' /\ issued < issued'
BY BoundsAssumption DEF Accept, ServiceInv, TypeOK

LEMMA RegisterShape ==
  ASSUME ServiceInv, NEW t \in Threads, NEW a \in Accounts, Register(t, a)
  PROVE  Shape
<1>1. issued' \in 0..MaxRequests /\ issued' \in Nat /\ issued <= issued'
  BY AcceptStep DEF Register
<1>2. now \in Nat
  BY BoundsAssumption DEF ServiceInv, TypeOK
<1>3. PICK loan \in Openings, status \in Statuses, evaluate \in BOOLEAN,
           audited \in AuditOutcomes :
        /\ Store(a, Registered(loan, status, now, issued'))
        /\ Proceed(t, IF audited /\ (status = "active" \/ evaluate)
                      THEN [NoRequest EXCEPT !.at = "evaluate", !.kind = "register",
                                             !.acct = a, !.force = TRUE,
                                             !.found = Stored(a)]
                      ELSE NoRequest)
  BY DEF Register
<1>4. StoreStep
  <2> DEFINE record == Registered(loan, status, now, issued')
  <2>1. record \in Account
    BY <1>1, <1>2, OpeningsAssumption, RegisteredType
  <2>2. Arises(record)
    BY <1>1 DEF Arises
  <2>3. Store(a, record)
    BY <1>3
  <2> HIDE DEF record
  <2> QED
    BY <2>1, <2>2, <2>3 DEF StoreStep
<1>5. RequestStep
  <2> DEFINE found == Stored(a)
             q == [NoRequest EXCEPT !.at = "evaluate", !.kind = "register",
                                    !.acct = a, !.force = TRUE, !.found = found]
  <2>1. found \in BOOLEAN
    BY DEF Stored
  <2>2. Proceed(t, q) \/ Proceed(t, NoRequest)
    BY <1>3
  <2> HIDE DEF found
  <2>3. q \in Request /\ q.at = "evaluate" /\ q.snap = NoAccount /\ q.draft = NoAccount
    BY <2>1, NoRequestType DEF Request, Points, Kinds
  <2> HIDE DEF q
  <2>4. Ready(q) /\ Arises(NoAccount)
    BY <2>3 DEF Ready, Arises
  <2> QED
    BY <2>2, <2>3, <2>4, Idling, Going
<1>6. UNCHANGED <<market, now, log>>
  BY DEF Register
<1> QED
  BY <1>1, <1>4, <1>5, <1>6, Unchanging DEF Shape, EnvironmentStep, LogStep

LEMMA BeginUpdateShape ==
  ASSUME ServiceInv, NEW t \in Threads, NEW a \in Accounts, NEW r \in References,
         BeginUpdate(t, a, r)
  PROVE  Shape
<1> DEFINE q == [NoRequest EXCEPT !.at = "decide", !.kind = "update",
                                  !.acct = a, !.ref = r, !.snap = accounts[a]]
<1>1. issued' \in 0..MaxRequests /\ issued <= issued'
  BY AcceptStep DEF BeginUpdate
<1>2. \/ Stored(a) /\ ~IsProcessed(accounts[a], r) /\ Proceed(t, q)
      \/ Proceed(t, NoRequest)
  BY DEF BeginUpdate
<1>3. ASSUME Stored(a), ~IsProcessed(accounts[a], r), Proceed(t, q)
      PROVE  RequestStep
  <2>1. accounts[a] \in Account
    BY <1>3 DEF Stored, ServiceInv, TypeOK
  <2>2. /\ q \in Request /\ q.at = "decide" /\ q.snap = accounts[a]
        /\ q.ref = r /\ q.draft = NoAccount
    BY <2>1, NoRequestType DEF Request, Points, Kinds
  <2> HIDE DEF q
  <2>3. Ready(q)
    BY <1>3, <2>1, <2>2 DEF Ready
  <2>4. Arises(q.snap) /\ Arises(q.draft)
    BY <2>2, CopyArises DEF Arises
  <2> QED
    BY <1>3, <2>2, <2>3, <2>4, Going
<1>4. RequestStep
  BY <1>2, <1>3, Idling
<1>5. UNCHANGED <<accounts, market, now, log, entered>>
  BY DEF BeginUpdate
<1> QED
  BY <1>1, <1>4, <1>5, Unchanging DEF Shape, EnvironmentStep, LogStep, StoreStep

LEMMA BeginTickShape ==
  ASSUME ServiceInv, NEW t \in Threads, NEW a \in Accounts, NEW force \in BOOLEAN,
         BeginTick(t, a, force)
  PROVE  Shape
<1> DEFINE q == [NoRequest EXCEPT !.at = "evaluate", !.kind = "tick",
                                  !.acct = a, !.force = force]
<1>1. issued' \in 0..MaxRequests /\ issued <= issued'
  BY AcceptStep DEF BeginTick
<1>2. Proceed(t, q) /\ UNCHANGED <<accounts, market, now, log, entered>>
  BY DEF BeginTick
<1>3. q \in Request /\ q.at = "evaluate" /\ q.snap = NoAccount /\ q.draft = NoAccount
  BY NoRequestType DEF Request, Points, Kinds
<1> HIDE DEF q
<1>4. Ready(q) /\ Arises(NoAccount)
  BY <1>3 DEF Ready, Arises
<1> QED
  BY <1>1, <1>2, <1>3, <1>4, Going, Unchanging
     DEF Shape, EnvironmentStep, LogStep, StoreStep

LEMMA BeginTickAllShape ==
  ASSUME ServiceInv, NEW t \in Threads, BeginTickAll(t)
  PROVE  Shape
<1> DEFINE q == [NoRequest EXCEPT !.at = "fan_out", !.kind = "tick_all"]
<1>1. issued' \in 0..MaxRequests /\ issued <= issued'
  BY AcceptStep DEF BeginTickAll
<1>2. Proceed(t, q) /\ UNCHANGED <<accounts, market, now, log, entered>>
  BY DEF BeginTickAll
<1>3. q \in Request /\ q.at = "fan_out" /\ q.snap = NoAccount /\ q.draft = NoAccount
  BY NoRequestType DEF Request, Points, Kinds
<1> HIDE DEF q
<1>4. Ready(q) /\ Arises(NoAccount)
  BY <1>3 DEF Ready, Arises
<1> QED
  BY <1>1, <1>2, <1>3, <1>4, Going, Unchanging
     DEF Shape, EnvironmentStep, LogStep, StoreStep

LEMMA PublishShape ==
  ASSUME ServiceInv, NEW t \in Threads, NEW v \in Valuations, NEW trigger \in BOOLEAN,
         Publish(t, v, trigger)
  PROVE  Shape
<1> DEFINE q == [NoRequest EXCEPT !.at = "fan_out", !.kind = "market"]
<1>1. issued' \in 0..MaxRequests /\ issued <= issued'
  BY AcceptStep DEF Publish
<1>2. /\ Proceed(t, q) \/ Proceed(t, NoRequest)
      /\ market' = v /\ UNCHANGED <<accounts, now, log, entered>>
  BY DEF Publish
<1>3. q \in Request /\ q.at = "fan_out" /\ q.snap = NoAccount /\ q.draft = NoAccount
  BY NoRequestType DEF Request, Points, Kinds
<1> HIDE DEF q
<1>4. Ready(q) /\ Arises(NoAccount)
  BY <1>3 DEF Ready, Arises
<1>5. RequestStep
  BY <1>2, <1>3, <1>4, Going, Idling
<1> QED
  BY <1>1, <1>2, <1>5, Unchanging DEF Shape, EnvironmentStep, LogStep, StoreStep

LEMMA BeginStatusShape ==
  ASSUME ServiceInv, NEW t \in Threads, NEW a \in Accounts, NEW status \in Statuses,
         BeginStatus(t, a, status)
  PROVE  Shape
<1> DEFINE draft == [accounts[a] EXCEPT !.status = status]
           q == [NoRequest EXCEPT !.at = "set_status", !.kind = "status",
                                  !.acct = a, !.snap = accounts[a], !.draft = draft]
<1>1. issued' \in 0..MaxRequests /\ issued <= issued'
  BY AcceptStep DEF BeginStatus
<1>2. \/ Stored(a) /\ Proceed(t, q)
      \/ Proceed(t, NoRequest)
  BY DEF BeginStatus
<1>3. ASSUME Stored(a), Proceed(t, q)
      PROVE  RequestStep
  <2>1. accounts[a] \in Account
    BY <1>3 DEF Stored, ServiceInv, TypeOK
  <2>2. draft \in Account
    BY <2>1, StatusChangeType
  <2>3. Arises(draft)
    BY <2>1 DEF Arises, Records, Copies
  <2>4. Arises(accounts[a])
    BY CopyArises
  <2> HIDE DEF draft
  <2>5. /\ q \in Request /\ q.at = "set_status" /\ q.snap = accounts[a]
        /\ q.draft = draft
    BY <2>1, <2>2, NoRequestType DEF Request, Points, Kinds
  <2>6. Proceed(t, q)
    BY <1>3
  <2> HIDE DEF q
  <2>7. Ready(q)
    BY <2>1, <2>2, <2>5 DEF Ready
  <2> QED
    BY <2>3, <2>4, <2>5, <2>6, <2>7, Going
<1>4. RequestStep
  BY <1>2, <1>3, Idling
<1>5. UNCHANGED <<accounts, market, now, log, entered>>
  BY DEF BeginStatus
<1> QED
  BY <1>1, <1>4, <1>5, Unchanging DEF Shape, EnvironmentStep, LogStep, StoreStep

LEMMA DeleteShape ==
  ASSUME ServiceInv, NEW t \in Threads, NEW a \in Accounts, Delete(t, a)
  PROVE  Shape
<1>1. issued' \in 0..MaxRequests /\ issued <= issued'
  BY AcceptStep DEF Delete
<1>2. Store(a, NoAccount) /\ Proceed(t, NoRequest) /\ UNCHANGED <<market, now, log>>
  BY DEF Delete
<1>3. StoreStep
  BY <1>2 DEF StoreStep, Arises
<1> QED
  BY <1>1, <1>2, <1>3, Idling, Unchanging DEF Shape, EnvironmentStep, LogStep

-----------------------------------------------------------------------------
(* ... the continuations of loan updates                                     *)

LEMMA DecideUpdateShape ==
  ASSUME ServiceInv, NEW t \in Threads, DecideUpdate(t)
  PROVE  Shape
<1> DEFINE r == req[t]
           draft == Posted(r.snap, r.ref)
           q == [r EXCEPT !.at = "post", !.draft = draft]
<1>1. r \in Request /\ r.snap \in Records /\ r.ref \in References
      /\ ~IsProcessed(r.snap, r.ref) /\ Arises(r.snap)
  BY RequestTypes DEF DecideUpdate, At, Ready
<1>2. r.snap \in Account
  BY <1>1 DEF Records
<1>3. draft \in Account
  BY <1>1, <1>2, PostedRecord
<1>4. Arises(draft)
  BY <1>1 DEF Arises
<1>5. /\ Proceed(t, q) \/ Proceed(t, NoRequest)
      /\ UNCHANGED <<accounts, market, now, log, issued, entered>>
  BY DEF DecideUpdate
<1> HIDE DEF draft, r
<1>6. q \in Request /\ q.at = "post" /\ q.snap = r.snap /\ q.draft = draft
  BY <1>1, <1>3 DEF Request, Points
<1> HIDE DEF q
<1>7. Ready(q)
  BY <1>2, <1>3, <1>6 DEF Ready
<1>8. RequestStep
  BY <1>1, <1>4, <1>5, <1>6, <1>7, Going, Idling
<1> QED
  BY <1>5, <1>8, Unchanging DEF Shape, EnvironmentStep, LogStep, StoreStep

LEMMA PostUpdateShape ==
  ASSUME ServiceInv, NEW t \in Threads, PostUpdate(t)
  PROVE  Shape
<1> DEFINE r == req[t]
           q == [r EXCEPT !.at = "record"]
<1>1. /\ r \in Request /\ r.snap \in Account /\ r.draft \in Account
      /\ r.acct \in Accounts /\ Arises(r.snap) /\ Arises(r.draft)
  BY RequestTypes DEF PostUpdate, At, Ready
<1>2. /\ Store(r.acct, r.draft)
      /\ Proceed(t, q) \/ Proceed(t, NoRequest)
      /\ UNCHANGED <<market, now, log, issued>>
  BY DEF PostUpdate
<1> HIDE DEF r
<1>3. q \in Request /\ q.at = "record" /\ q.snap = r.snap /\ q.draft = r.draft
  BY <1>1 DEF Request, Points
<1> HIDE DEF q
<1>4. Ready(q)
  BY <1>1, <1>3 DEF Ready
<1>5. RequestStep
  BY <1>1, <1>2, <1>3, <1>4, Going, Idling
<1>6. StoreStep
  BY <1>1, <1>2 DEF StoreStep
<1> QED
  BY <1>2, <1>5, <1>6, Unchanging DEF Shape, EnvironmentStep, LogStep

LEMMA RecordUpdateShape ==
  ASSUME ServiceInv, NEW t \in Threads, RecordUpdate(t)
  PROVE  Shape
<1> DEFINE r == req[t]
           q == [r EXCEPT !.at = "evaluate", !.snap = NoAccount, !.draft = NoAccount]
           event == Notice("loan_balance_updated", r.draft, r.ref)
<1>1. /\ r \in Request /\ r.draft \in Account
      /\ r.acct \in Accounts /\ r.ref \in References
  BY RequestTypes DEF RecordUpdate, At, Ready
<1>2. event \in Event
  BY <1>1, NoticeType DEF EventTypes
<1>3. /\ EmitOnce(r.acct, event)
      /\ Proceed(t, q) \/ Proceed(t, NoRequest)
      /\ UNCHANGED <<accounts, market, now, issued, entered>>
  BY DEF RecordUpdate
<1>4. LogStep
  BY <1>1, <1>2, <1>3, EmitOnceStep
<1> HIDE DEF r
<1>5. q \in Request /\ q.at = "evaluate" /\ q.snap = NoAccount /\ q.draft = NoAccount
  BY <1>1 DEF Request, Points
<1> HIDE DEF q
<1>6. Ready(q) /\ Arises(NoAccount)
  BY <1>5 DEF Ready, Arises
<1>7. RequestStep
  BY <1>3, <1>5, <1>6, Going, Idling
<1> QED
  BY <1>3, <1>4, <1>7, Unchanging DEF Shape, EnvironmentStep, StoreStep

-----------------------------------------------------------------------------
(* ... of evaluations                                                        *)

LEMMA BeginEvaluateShape ==
  ASSUME ServiceInv, NEW t \in Threads, BeginEvaluate(t)
  PROVE  Shape
<1> DEFINE r == req[t]
           a == r.acct
           q == [r EXCEPT !.at = "assess", !.snap = accounts[a]]
<1>1. /\ r \in Request /\ a \in Accounts /\ Arises(r.draft)
  BY RequestTypes
<1>2. /\ \/ Stored(a) /\ Proceed(t, q)
         \/ Finish(t, FALSE)
      /\ UNCHANGED <<accounts, market, now, log, issued, entered>>
  BY DEF BeginEvaluate
<1>3. ASSUME Stored(a), Proceed(t, q)
      PROVE  RequestStep
  <2>1. accounts[a] \in Account /\ Arises(accounts[a])
    BY <1>1, <1>3, CopyArises DEF Stored, ServiceInv, TypeOK
  <2>2. Proceed(t, q)
    BY <1>3
  <2> HIDE DEF r, a
  <2>3. q \in Request /\ q.at = "assess" /\ q.snap = accounts[a] /\ q.draft = r.draft
    BY <1>1, <2>1 DEF Request, Points
  <2> HIDE DEF q
  <2>4. Ready(q)
    BY <2>1, <2>3 DEF Ready
  <2> QED
    BY <1>1, <2>1, <2>2, <2>3, <2>4, Going
<1>4. RequestStep
  BY <1>2, <1>3, FinishStep
<1> QED
  BY <1>2, <1>4, Unchanging DEF Shape, EnvironmentStep, LogStep, StoreStep

LEMMA AssessShape ==
  ASSUME ServiceInv, NEW t \in Threads, Assess(t)
  PROVE  Shape
<1> DEFINE r == req[t]
           initial == Initial(t)
           draft == Assessed(r.snap, market, now, initial)
           q == [r EXCEPT !.at = "save", !.draft = draft]
           event == Notice("monitoring_error", r.snap, "none")
<1>1. /\ r \in Request /\ r.snap \in Records /\ Arises(r.snap) /\ r.acct \in Accounts
  BY RequestTypes DEF Assess, At, Ready
<1>2. r.snap \in Account /\ initial \in BOOLEAN /\ now \in Nat /\ market \in Valuations
  BY <1>1, BoundsAssumption DEF Records, Initial, ServiceInv, TypeOK
<1>3. draft \in Account
  BY <1>2, AssessedRecord
<1>4. Arises(draft)
  BY <1>1, <1>2 DEF Arises
<1>5. event \in Event
  BY <1>2, NoticeType DEF EventTypes
<1>6. /\ \/ Proceed(t, q) /\ UNCHANGED log
         \/ EmitOnce(r.acct, event) /\ Finish(t, FALSE)
      /\ UNCHANGED <<accounts, market, now, issued, entered>>
  BY DEF Assess
<1>7. LogStep
  BY <1>1, <1>5, <1>6, EmitOnceStep DEF LogStep
<1>8. ASSUME Proceed(t, q)
      PROVE  RequestStep
  <2>1. Proceed(t, q)
    BY <1>8
  <2> HIDE DEF draft, r
  <2>2. q \in Request /\ q.at = "save" /\ q.snap = r.snap /\ q.draft = draft
    BY <1>1, <1>3 DEF Request, Points
  <2> HIDE DEF q
  <2>3. Ready(q)
    BY <1>2, <1>3, <2>2 DEF Ready
  <2> QED
    BY <1>1, <1>4, <2>1, <2>2, <2>3, Going
<1>9. RequestStep
  BY <1>6, <1>8, FinishStep
<1> QED
  BY <1>6, <1>7, <1>9, Unchanging DEF Shape, EnvironmentStep, StoreStep

LEMMA SaveAssessmentShape ==
  ASSUME ServiceInv, NEW t \in Threads, SaveAssessment(t)
  PROVE  Shape
<1> DEFINE r == req[t]
           q == [r EXCEPT !.at = "notify"]
           event == Notice("monitoring_error", r.snap, "none")
<1>1. /\ r \in Request /\ r.snap \in Account /\ r.draft \in Account
      /\ r.acct \in Accounts /\ Arises(r.snap) /\ Arises(r.draft)
  BY RequestTypes DEF SaveAssessment, At, Ready
<1>2. event \in Event
  BY <1>1, NoticeType DEF EventTypes
<1>3. /\ Store(r.acct, r.draft)
      /\ \/ Proceed(t, q) /\ UNCHANGED log
         \/ EmitOnce(r.acct, event) /\ Finish(t, FALSE)
      /\ UNCHANGED <<market, now, issued>>
  BY DEF SaveAssessment
<1>4. LogStep
  BY <1>1, <1>2, <1>3, EmitOnceStep DEF LogStep
<1>5. StoreStep
  BY <1>1, <1>3 DEF StoreStep
<1>6. ASSUME Proceed(t, q)
      PROVE  RequestStep
  <2>1. Proceed(t, q)
    BY <1>6
  <2> HIDE DEF r
  <2>2. q \in Request /\ q.at = "notify" /\ q.snap = r.snap /\ q.draft = r.draft
    BY <1>1 DEF Request, Points
  <2> HIDE DEF q
  <2>3. Ready(q)
    BY <1>1, <2>2 DEF Ready
  <2> QED
    BY <1>1, <2>1, <2>2, <2>3, Going
<1>7. RequestStep
  BY <1>3, <1>6, FinishStep
<1> QED
  BY <1>3, <1>4, <1>5, <1>7, Unchanging DEF Shape, EnvironmentStep

LEMMA AssessmentEventsType ==
  ASSUME NEW snap \in Account, NEW draft \in Account, NEW forced
  PROVE  AssessmentEvents(snap, draft, forced) \in Seq(Event)
<1>1. ASSUME NEW condition, NEW type \in EventTypes
      PROVE  When(condition, Notice(type, draft, "none")) \in Seq(Event)
  <2>1. Notice(type, draft, "none") \in Event
    BY NoticeType
  <2> QED
    BY <2>1 DEF When
<1>2. {"monitoring_tick_completed", "risk_state_changed", "margin_call_triggered",
       "liquidation_triggered"} \subseteq EventTypes
  BY DEF EventTypes
<1>3. /\ When(forced, Notice("monitoring_tick_completed", draft, "none")) \in Seq(Event)
      /\ When(snap.last # "none" /\ snap.last # draft.last,
              Notice("risk_state_changed", draft, "none")) \in Seq(Event)
      /\ When(snap.last # "margin_call" /\ draft.last = "margin_call",
              Notice("margin_call_triggered", draft, "none")) \in Seq(Event)
      /\ When(snap.last # "liquidation" /\ draft.last = "liquidation",
              Notice("liquidation_triggered", draft, "none")) \in Seq(Event)
  BY <1>1, <1>2
<1> QED
  BY <1>3, ConcatProperties DEF AssessmentEvents

LEMMA NotifyShape ==
  ASSUME ServiceInv, NEW t \in Threads, Notify(t)
  PROVE  Shape
<1> DEFINE r == req[t]
           events == AssessmentEvents(r.snap, r.draft, r.kind # "tick_all")
           event == Notice("monitoring_error", r.snap, "none")
<1>1. r.snap \in Account /\ r.draft \in Account /\ r.acct \in Accounts
  BY RequestTypes DEF Notify, At, Ready
<1>2. events \in Seq(Event)
  BY <1>1, AssessmentEventsType
<1>3. event \in Event
  BY <1>1, NoticeType DEF EventTypes
<1>4. /\ \/ Emit(r.acct, events) /\ Finish(t, TRUE)
         \/ /\ \E n \in 1..Len(events) : Emit(r.acct, Append(SubSeq(events, 1, n), event))
            /\ Finish(t, FALSE)
      /\ UNCHANGED <<accounts, market, now, issued, entered>>
  BY DEF Notify
<1>5. RequestStep
  BY <1>4, FinishStep
<1> HIDE DEF events, event, r
<1>6. \A n \in 1..Len(events) : Append(SubSeq(events, 1, n), event) \in Seq(Event)
  <2> TAKE n \in 1..Len(events)
  <2>1. SubSeq(events, 1, n) \in Seq(Event)
    BY <1>2, ElementOfSeq, SubSeqProperties
  <2> QED
    BY <1>3, <2>1, AppendProperties
<1>7. LogStep
  BY <1>1, <1>2, <1>4, <1>6 DEF LogStep
<1> QED
  BY <1>4, <1>5, <1>7, Unchanging DEF Shape, EnvironmentStep, StoreStep

-----------------------------------------------------------------------------
(* ... of rollbacks, status changes and batches, and the clock               *)

LEMMA RollBackShape ==
  ASSUME ServiceInv, NEW t \in Threads, RollBack(t)
  PROVE  Shape
<1>1. req[t].acct \in Accounts
  BY RequestTypes
<1>2. /\ Store(req[t].acct, NoAccount) /\ Proceed(t, NoRequest)
      /\ UNCHANGED <<market, now, log, issued>>
  BY DEF RollBack
<1>3. StoreStep
  BY <1>1, <1>2 DEF StoreStep, Arises
<1> QED
  BY <1>2, <1>3, Idling, Unchanging DEF Shape, EnvironmentStep, LogStep

LEMMA SaveStatusShape ==
  ASSUME ServiceInv, NEW t \in Threads, SaveStatus(t)
  PROVE  Shape
<1>1. req[t].acct \in Accounts /\ req[t].draft \in Account /\ Arises(req[t].draft)
  BY RequestTypes DEF SaveStatus, At, Ready
<1>2. /\ Store(req[t].acct, req[t].draft) /\ Proceed(t, NoRequest)
      /\ UNCHANGED <<market, now, log, issued>>
  BY DEF SaveStatus
<1>3. StoreStep
  BY <1>1, <1>2 DEF StoreStep
<1> QED
  BY <1>2, <1>3, Idling, Unchanging DEF Shape, EnvironmentStep, LogStep

LEMMA FanOutShape ==
  ASSUME ServiceInv, NEW t \in Threads, FanOut(t)
  PROVE  Shape
<1> DEFINE r == req[t]
           listed == {a \in Accounts : /\ Stored(a)
                                       /\ r.kind = "market" \/ accounts[a].status = "active"}
           rest(a) == listed \ {a}
           q(a) == [r EXCEPT !.at = "evaluate", !.acct = a, !.todo = rest(a)]
<1>1. r \in Request /\ Arises(r.snap) /\ Arises(r.draft)
  BY RequestTypes
<1>2. /\ Proceed(t, NoRequest) \/ \E a \in listed : Proceed(t, q(a))
      /\ UNCHANGED <<accounts, market, now, log, issued, entered>>
  BY DEF FanOut
<1>3. ASSUME NEW a \in listed, Proceed(t, q(a))
      PROVE  RequestStep
  <2> DEFINE todo == rest(a)
             going == [r EXCEPT !.at = "evaluate", !.acct = a, !.todo = todo]
  <2>1. todo \in SUBSET Accounts /\ a \in Accounts
    OBVIOUS
  <2>2. Proceed(t, going)
    BY <1>3
  <2> HIDE DEF todo, r
  <2>3. /\ going \in Request /\ going.at = "evaluate"
        /\ going.snap = r.snap /\ going.draft = r.draft
    BY <1>1, <2>1 DEF Request, Points
  <2> HIDE DEF going
  <2>4. Ready(going)
    BY <2>3 DEF Ready
  <2> QED
    BY <1>1, <2>2, <2>3, <2>4, Going
<1>4. RequestStep
  BY <1>2, <1>3, Idling
<1> QED
  BY <1>2, <1>4, Unchanging DEF Shape, EnvironmentStep, LogStep, StoreStep

LEMMA AdvanceShape ==
  ASSUME ServiceInv, Advance
  PROVE  Shape
<1>1. now' \in 0..MaxTime /\ now <= now'
  BY BoundsAssumption DEF Advance, ServiceInv, TypeOK
<1>2. UNCHANGED <<accounts, market, log, req, issued, entered>>
  BY DEF Advance
<1> QED
  BY <1>1, <1>2, Unchanging DEF Shape, EnvironmentStep, LogStep, StoreStep, RequestStep

LEMMA StutterShape ==
  ASSUME ServiceInv, UNCHANGED vars
  PROVE  Shape
BY Unchanging DEF vars, Shape, EnvironmentStep, LogStep, StoreStep, RequestStep

LEMMA StepShape ==
  ASSUME ServiceInv, [Next]_vars
  PROVE  Shape
<1>1. ASSUME NEW t \in Threads, Handler(t)
      PROVE  Shape
  BY <1>1, RegisterShape, BeginUpdateShape, BeginTickShape, BeginTickAllShape,
     PublishShape, BeginStatusShape, DeleteShape DEF Handler
<1>2. ASSUME NEW t \in Threads, Continue(t)
      PROVE  Shape
  BY <1>2, DecideUpdateShape, PostUpdateShape, RecordUpdateShape, BeginEvaluateShape,
     AssessShape, SaveAssessmentShape, NotifyShape, RollBackShape, SaveStatusShape,
     FanOutShape DEF Continue
<1> QED
  BY <1>1, <1>2, AdvanceShape, StutterShape DEF Next, Done

-----------------------------------------------------------------------------
(* Consequences of the shape                                                 *)

(* No record is stored or carried that does not arise from those before. *)
LEMMA CopiesArise ==
  ASSUME ServiceInv, Shape
  PROVE  \A record \in Copies' : Arises(record)
<1>1. \A a \in Accounts : Arises(accounts'[a])
  <2>1. CASE UNCHANGED accounts
    BY <2>1, CopyArises
  <2>2. ASSUME NEW a \in Accounts, NEW record, Store(a, record), Arises(record)
        PROVE  \A b \in Accounts : Arises(accounts'[b])
    BY <2>2, CopyArises DEF Store, ServiceInv, TypeOK
  <2> QED
    BY <2>1, <2>2 DEF Shape, StoreStep
<1>2. \A t \in Threads : Arises(req'[t].snap) /\ Arises(req'[t].draft)
  <2>1. CASE UNCHANGED req
    BY <2>1, CopyArises
  <2>2. ASSUME NEW t \in Threads, NEW q \in Request, req' = [req EXCEPT ![t] = q],
               Arises(q.snap), Arises(q.draft)
        PROVE  \A u \in Threads : Arises(req'[u].snap) /\ Arises(req'[u].draft)
    BY <2>2, CopyArises DEF ServiceInv, TypeOK
  <2> QED
    BY <2>1, <2>2 DEF Shape, RequestStep
<1> QED
  BY <1>1, <1>2 DEF Copies

LEMMA InitServiceInv == Init => ServiceInv
<1> SUFFICES ASSUME Init
             PROVE  ServiceInv
  OBVIOUS
<1>1. TypeOK
  <2>1. req \in [Threads -> Request]
    BY NoRequestType DEF Init
  <2>2. now \in 0..MaxTime /\ issued \in 0..MaxRequests
    BY BoundsAssumption DEF Init
  <2>3. log \in [Accounts -> Seq(Event)] /\ entered \in [Accounts -> Seq(AlarmStates)]
    BY EmptySeq DEF Init
  <2> QED
    BY <2>1, <2>2, <2>3 DEF Init, TypeOK
<1>2. \A t \in Threads : Ready(req[t])
  BY NoRequestType DEF Init
<1> QED
  BY <1>1, <1>2 DEF ServiceInv

LEMMA NextServiceInv == ServiceInv /\ [Next]_vars => ServiceInv'
<1> SUFFICES ASSUME ServiceInv, [Next]_vars
             PROVE  ServiceInv'
  OBVIOUS
<1>1. Shape
  BY StepShape
<1>2. req' \in [Threads -> Request] /\ \A t \in Threads : Ready(req'[t])
  <2>1. CASE UNCHANGED req
    BY <2>1 DEF ServiceInv, TypeOK
  <2>2. ASSUME NEW t \in Threads, NEW q \in Request, req' = [req EXCEPT ![t] = q], Ready(q)
        PROVE  req' \in [Threads -> Request] /\ \A u \in Threads : Ready(req'[u])
    BY <2>2 DEF ServiceInv, TypeOK
  <2> QED
    BY <1>1, <2>1, <2>2 DEF Shape, RequestStep
<1>3. /\ accounts' \in [Accounts -> Account \cup {NoAccount}]
      /\ entered' \in [Accounts -> Seq(AlarmStates)]
  <2>1. CASE UNCHANGED <<accounts, entered>>
    BY <2>1 DEF ServiceInv, TypeOK
  <2>2. ASSUME NEW a \in Accounts, NEW record \in Account \cup {NoAccount},
               Store(a, record)
        PROVE  /\ accounts' \in [Accounts -> Account \cup {NoAccount}]
               /\ entered' \in [Accounts -> Seq(AlarmStates)]
    <3>1. accounts' \in [Accounts -> Account \cup {NoAccount}]
      BY <2>2 DEF Store, ServiceInv, TypeOK
    <3>2. entered[a] \in Seq(AlarmStates)
      BY DEF ServiceInv, TypeOK
    <3>3. LastOf(record) \in AlarmStates
            => Append(entered[a], LastOf(record)) \in Seq(AlarmStates)
      BY <3>2, AppendProperties
    <3>4. entered' \in [Accounts -> Seq(AlarmStates)]
      BY <2>2, <3>3 DEF Store, ServiceInv, TypeOK
    <3> QED
      BY <3>1, <3>4
  <2> QED
    BY <1>1, <2>1, <2>2 DEF Shape, StoreStep
<1>4. log' \in [Accounts -> Seq(Event)]
  <2>1. CASE UNCHANGED log
    BY <2>1 DEF ServiceInv, TypeOK
  <2>2. ASSUME NEW a \in Accounts, NEW events \in Seq(Event), Emit(a, events)
        PROVE  log' \in [Accounts -> Seq(Event)]
    <3>1. log[a] \in Seq(Event)
      BY DEF ServiceInv, TypeOK
    <3>2. log[a] \o events \in Seq(Event)
      BY <3>1, ConcatProperties
    <3> QED
      BY <2>2, <3>2 DEF Emit, ServiceInv, TypeOK
  <2> QED
    BY <1>1, <2>1, <2>2 DEF Shape, LogStep
<1>5. market' \in Valuations /\ now' \in 0..MaxTime /\ issued' \in 0..MaxRequests
  BY <1>1 DEF Shape, EnvironmentStep
<1> QED
  BY <1>2, <1>3, <1>4, <1>5 DEF ServiceInv, TypeOK

LEMMA ServiceInvariant == Spec => []ServiceInv
BY InitServiceInv, NextServiceInv, PTL DEF Spec

(***************************************************************************)
(* Records, copies, requests and events keep their types: no step reads a  *)
(* field of a record that is not there, whatever was deleted meanwhile.    *)
(***************************************************************************)
THEOREM TypeCorrect == Spec => []TypeOK
<1>1. ServiceInv => TypeOK
  BY DEF ServiceInv
<1> QED
  BY <1>1, ServiceInvariant, PTL

-----------------------------------------------------------------------------
(***************************************************************************)
(* Interest: every record that is stored or carried by a request has an    *)
(* accrual clock that accounts for every instant once.                     *)
(***************************************************************************)
ClocksRun == \A record \in Records : ClockRuns(record, now)

LEMMA InitClocksRun == Init => ClocksRun
BY NoAccountAssumption, NoRequestType DEF Init, ClocksRun, Records, Copies

LEMMA NextClocksRun == ServiceInv /\ ClocksRun /\ [Next]_vars => ClocksRun'
<1> SUFFICES ASSUME ServiceInv, ClocksRun, [Next]_vars,
                    NEW record \in Records'
             PROVE  ClockRuns(record, now')
  BY DEF ClocksRun
<1>1. Shape
  BY StepShape
<1>2. now \in Nat /\ now' \in Nat /\ now <= now'
  BY <1>1, BoundsAssumption DEF Shape, EnvironmentStep, ServiceInv, TypeOK
<1>3. record \in Account /\ Arises(record)
  BY <1>1, CopiesArise DEF Records
<1>4. ASSUME NEW source \in Records
      PROVE  source \in Account /\ ClockRuns(source, now)
  BY DEF ClocksRun, Records
<1>5. ClockRuns(record, now)
  <2>1. CASE record \in Records
    BY <2>1 DEF ClocksRun
  <2>2. ASSUME NEW loan \in Openings, NEW status \in Statuses, NEW serial \in 0..issued',
               record = Registered(loan, status, now, serial)
        PROVE  ClockRuns(record, now)
    BY <1>2, <2>2, RegisteredClock
  <2>3. ASSUME NEW source \in Records, NEW r \in References, record = Posted(source, r)
        PROVE  ClockRuns(record, now)
    BY <1>2, <1>4, <2>3, PostedClock
  <2>4. ASSUME NEW source \in Records, NEW v \in Valuations, NEW initial \in BOOLEAN,
               record = Assessed(source, v, now, initial)
        PROVE  ClockRuns(record, now)
    BY <1>2, <1>4, <2>4, AssessedClock
  <2>5. ASSUME NEW source \in Records, NEW status \in Statuses,
               record = [source EXCEPT !.status = status]
        PROVE  ClockRuns(record, now)
    BY <1>2, <1>4, <2>5, StatusChangeClock
  <2> QED
    BY <1>3, <2>1, <2>2, <2>3, <2>4, <2>5, NoAccountAssumption DEF Arises
<1>6. record.accruedTo \in Nat
  BY <1>3 DEF Account
<1> QED
  BY <1>2, <1>5, <1>6 DEF ClockRuns

THEOREM EveryInstantIsChargedOnce == Spec => []EachInstantChargedOnce
<1>1. ServiceInv /\ ClocksRun => EachInstantChargedOnce
  BY DEF ServiceInv, TypeOK, ClocksRun, Records, Copies, Stored, ClockRuns,
         EachInstantChargedOnce
<1> QED
  BY <1>1, ServiceInvariant, InitClocksRun, NextClocksRun, PTL DEF Spec

-----------------------------------------------------------------------------
(***************************************************************************)
(* Idempotence: if the references clients use fit in the window, no loan   *)
(* update is ever counted twice in a record, stored or carried.            *)
(***************************************************************************)
ReferencesFit == IsFiniteSet(References) /\ Cardinality(References) <= Window

AllCountedOnce == \A record \in Records : CountedOnce(record)

LEMMA InitCountedOnce == Init => AllCountedOnce
BY NoAccountAssumption, NoRequestType DEF Init, AllCountedOnce, Records, Copies

LEMMA NextCountedOnce ==
  ASSUME ReferencesFit
  PROVE  ServiceInv /\ AllCountedOnce /\ [Next]_vars => AllCountedOnce'
<1> SUFFICES ASSUME ServiceInv, AllCountedOnce, [Next]_vars,
                    NEW record \in Records'
             PROVE  CountedOnce(record)
  BY DEF AllCountedOnce
<1>1. Shape
  BY StepShape
<1>2. now \in Nat
  BY BoundsAssumption DEF ServiceInv, TypeOK
<1>3. record \in Account /\ Arises(record)
  BY <1>1, CopiesArise DEF Records
<1>4. ASSUME NEW source \in Records
      PROVE  source \in Account /\ CountedOnce(source)
  BY DEF AllCountedOnce, Records
<1>5. CASE record \in Records
  BY <1>5, <1>4
<1>6. ASSUME NEW loan \in Openings, NEW status \in Statuses, NEW serial \in 0..issued',
             record = Registered(loan, status, now, serial)
      PROVE  CountedOnce(record)
  BY <1>6, RegisteredOnce
<1>7. ASSUME NEW source \in Records, NEW r \in References,
             ~IsProcessed(source, r), record = Posted(source, r)
      PROVE  CountedOnce(record)
  BY <1>4, <1>7, PostedOnce DEF ReferencesFit
<1>8. ASSUME NEW source \in Records, NEW v \in Valuations, NEW initial \in BOOLEAN,
             record = Assessed(source, v, now, initial)
      PROVE  CountedOnce(record)
  BY <1>2, <1>4, <1>8, AssessedOnce
<1>9. ASSUME NEW source \in Records, NEW status \in Statuses,
             record = [source EXCEPT !.status = status]
      PROVE  CountedOnce(record)
  BY <1>4, <1>9, StatusChangeOnce
<1> QED
  BY <1>3, <1>5, <1>6, <1>7, <1>8, <1>9, NoAccountAssumption DEF Arises

THEOREM UpdatesAreAppliedAtMostOnce ==
  ASSUME ReferencesFit
  PROVE  Spec => []AppliedAtMostOnce
<1>1. ServiceInv /\ AllCountedOnce => AppliedAtMostOnce
  BY DEF ServiceInv, TypeOK, AllCountedOnce, CountedOnce, Records, Copies, Stored,
         AppliedAtMostOnce
<1>2. ServiceInv /\ AllCountedOnce /\ [Next]_vars => AllCountedOnce'
  BY NextCountedOnce
<1> QED
  BY <1>1, <1>2, ServiceInvariant, InitCountedOnce, PTL DEF Spec

-----------------------------------------------------------------------------
(***************************************************************************)
(* Alarms: a copy of a record in an alarm state has its alert in the log,  *)
(* or a request that found the account in another state holds it and has   *)
(* yet to publish.  Copies that were overtaken are covered too, since they *)
(* may be written back.                                                    *)
(***************************************************************************)
AlertOf(state) ==
  IF state = "margin_call" THEN "margin_call_triggered" ELSE "liquidation_triggered"

AnnouncedIn(events, record) ==
  \E i \in 1..Len(events) :
    events[i].type = AlertOf(record.last) /\ events[i].serial = record.serial

(* Request q is going to announce the state of this record.                 *)
WillAnnounce(q, a, record) ==
  /\ q.at \in {"save", "notify"} /\ q.acct = a
  /\ q.draft.last = record.last /\ q.draft.serial = record.serial
  /\ q.snap.last # record.last

CoveredBy(events, requests, a, record) ==
  record # NoAccount /\ record.last \in AlarmStates =>
    \/ AnnouncedIn(events[a], record)
    \/ \E t \in Threads : WillAnnounce(requests[t], a, record)

(* What request q carries is covered; a batch starts with nothing.          *)
CarriesCovered(events, requests, q) ==
  /\ CoveredBy(events, requests, q.acct, q.snap)
  /\ CoveredBy(events, requests, q.acct, q.draft)
  /\ q.at = "fan_out" => q.snap = NoAccount /\ q.draft = NoAccount

AlarmsCovered ==
  /\ \A a \in Accounts : CoveredBy(log, req, a, accounts[a])
  /\ \A t \in Threads : CarriesCovered(log, req, req[t])

LEMMA NothingToCover ==
  ASSUME NEW events, NEW requests
  PROVE  /\ \A a : CoveredBy(events, requests, a, NoAccount)
         /\ \A q : q.snap = NoAccount /\ q.draft = NoAccount => CarriesCovered(events, requests, q)
BY DEF CoveredBy, CarriesCovered

(* A record with the state and the registration of a covered one is covered. *)
LEMMA CoveredAlike ==
  ASSUME NEW events, NEW requests, NEW a, NEW source \in Account, NEW record,
         CoveredBy(events, requests, a, source),
         record.last = source.last, record.serial = source.serial
  PROVE  CoveredBy(events, requests, a, record)
BY NoAccountAssumption DEF CoveredBy, AnnouncedIn, WillAnnounce

LEMMA AnnouncedInEither ==
  ASSUME NEW s \in Seq(Event), NEW u \in Seq(Event), NEW record,
         AnnouncedIn(s, record) \/ AnnouncedIn(u, record)
  PROVE  AnnouncedIn(s \o u, record)
<1>1. /\ Len(s) \in Nat /\ Len(u) \in Nat /\ Len(s \o u) = Len(s) + Len(u)
      /\ \A i \in 1..Len(s) + Len(u) :
           (s \o u)[i] = IF i <= Len(s) THEN s[i] ELSE u[i - Len(s)]
  BY ConcatProperties, LenProperties
<1>2. ASSUME NEW i \in 1..Len(s)
      PROVE  i \in 1..Len(s \o u) /\ (s \o u)[i] = s[i]
  BY <1>1
<1>3. ASSUME NEW i \in 1..Len(u)
      PROVE  i + Len(s) \in 1..Len(s \o u) /\ (s \o u)[i + Len(s)] = u[i]
  BY <1>1
<1> QED
  BY <1>2, <1>3 DEF AnnouncedIn

(* A new state is published by the events of its own assessment.            *)
LEMMA AlertIsAmongEvents ==
  ASSUME NEW snap \in Account, NEW draft \in Account, NEW forced,
         draft.last \in AlarmStates, snap.last # draft.last
  PROVE  AnnouncedIn(AssessmentEvents(snap, draft, forced), draft)
<1> DEFINE tick == When(forced, Notice("monitoring_tick_completed", draft, "none"))
           change == When(snap.last # "none" /\ snap.last # draft.last,
                          Notice("risk_state_changed", draft, "none"))
           call == When(snap.last # "margin_call" /\ draft.last = "margin_call",
                        Notice("margin_call_triggered", draft, "none"))
           sale == When(snap.last # "liquidation" /\ draft.last = "liquidation",
                        Notice("liquidation_triggered", draft, "none"))
<1>1. ASSUME NEW condition, NEW type \in EventTypes
      PROVE  When(condition, Notice(type, draft, "none")) \in Seq(Event)
  <2>1. Notice(type, draft, "none") \in Event
    BY NoticeType
  <2> QED
    BY <2>1 DEF When
<1>2. {"monitoring_tick_completed", "risk_state_changed", "margin_call_triggered",
       "liquidation_triggered"} \subseteq EventTypes
  BY DEF EventTypes
<1>3. tick \in Seq(Event) /\ change \in Seq(Event) /\ call \in Seq(Event) /\ sale \in Seq(Event)
  BY <1>1, <1>2
<1>4. \/ AnnouncedIn(call, draft)
      \/ AnnouncedIn(sale, draft)
  <2>1. CASE draft.last = "margin_call"
    <3>1. call = <<Notice("margin_call_triggered", draft, "none")>>
      BY <2>1 DEF When
    <3> QED
      BY <2>1, <3>1 DEF AnnouncedIn, AlertOf, Notice
  <2>2. CASE draft.last = "liquidation"
    <3>1. sale = <<Notice("liquidation_triggered", draft, "none")>>
      BY <2>2 DEF When
    <3> QED
      BY <2>2, <3>1 DEF AnnouncedIn, AlertOf, Notice
  <2> QED
    BY <2>1, <2>2 DEF AlarmStates
<1>5. AssessmentEvents(snap, draft, forced) = ((tick \o change) \o call) \o sale
  BY DEF AssessmentEvents
<1> HIDE DEF tick, change, call, sale
<1>6. (tick \o change) \in Seq(Event) /\ ((tick \o change) \o call) \in Seq(Event)
  BY <1>3, ConcatProperties
<1> QED
  BY <1>3, <1>4, <1>5, <1>6, AnnouncedInEither

(* The log only grows.                                                      *)
LEMMA AnnouncedStays ==
  ASSUME ServiceInv, [Next]_vars, NEW a \in Accounts, NEW record,
         AnnouncedIn(log[a], record)
  PROVE  AnnouncedIn(log'[a], record)
<1>1. CASE UNCHANGED log
  BY <1>1
<1>2. ASSUME NEW b \in Accounts, NEW events \in Seq(Event), Emit(b, events)
      PROVE  AnnouncedIn(log'[a], record)
  <2>1. log \in [Accounts -> Seq(Event)]
    BY DEF ServiceInv, TypeOK
  <2>2. AnnouncedIn(log[a] \o events, record)
    BY <2>1, AnnouncedInEither
  <2>3. log'[a] = log[a] \/ log'[a] = log[a] \o events
    BY <1>2, <2>1 DEF Emit
  <2> QED
    BY <2>2, <2>3
<1> QED
  BY <1>1, <1>2, StepShape DEF Shape, LogStep

(* A request that is about to publish is moved by its own two steps only.   *)
LEMMA OneMoves ==
  ASSUME ServiceInv, NEW t \in Threads, Handler(t) \/ Continue(t)
  PROVE  \A u \in Threads : u # t => req'[u] = req[u]
<1>1. \A q : Proceed(t, q) => \A u \in Threads : u # t => req'[u] = req[u]
  BY DEF Proceed, ServiceInv, TypeOK
<1>2. \A succeeded : Finish(t, succeeded) => \E q : Proceed(t, q)
  BY DEF Finish
<1>3. Handler(t) => \E q : Proceed(t, q)
  BY DEF Handler, Register, BeginUpdate, BeginTick, BeginTickAll, Publish, BeginStatus, Delete
<1>4. DecideUpdate(t) \/ PostUpdate(t) \/ RecordUpdate(t) => \E q : Proceed(t, q)
  BY DEF DecideUpdate, PostUpdate, RecordUpdate
<1>5. BeginEvaluate(t) \/ Assess(t) \/ SaveAssessment(t) \/ Notify(t) => \E q : Proceed(t, q)
  BY <1>2 DEF BeginEvaluate, Assess, SaveAssessment, Notify
<1>6. RollBack(t) \/ SaveStatus(t) \/ FanOut(t) => \E q : Proceed(t, q)
  BY DEF RollBack, SaveStatus, FanOut
<1> QED
  BY <1>1, <1>3, <1>4, <1>5, <1>6 DEF Continue

LEMMA PublisherMoves ==
  ASSUME ServiceInv, [Next]_vars, NEW t \in Threads, req[t].at \in {"save", "notify"}
  PROVE  req'[t] = req[t] \/ SaveAssessment(t) \/ Notify(t)
<1>1. CASE Handler(t)
  BY <1>1 DEF Handler, Register, BeginUpdate, BeginTick, BeginTickAll, Publish, BeginStatus,
              Delete, Accept, At
<1>2. CASE Continue(t)
  BY <1>2 DEF Continue, DecideUpdate, PostUpdate, RecordUpdate, BeginEvaluate, Assess,
              RollBack, SaveStatus, FanOut, At
<1>3. ASSUME NEW u \in Threads, u # t, Handler(u) \/ Continue(u)
      PROVE  req'[t] = req[t]
  BY <1>3, OneMoves
<1>4. Advance \/ UNCHANGED vars => req'[t] = req[t]
  BY DEF Advance, vars
<1> QED
  BY <1>1, <1>2, <1>3, <1>4 DEF Next, Done

(* What is covered stays so, if no audit write fails.                       *)
Stays ==
  \A a \in Accounts, record \in Account :
    CoveredBy(log, req, a, record) => CoveredBy(log', req', a, record)

LEMMA CoverStays ==
  ASSUME ServiceInv, ~AuditCanFail, [Next]_vars
  PROVE  Stays
<1> SUFFICES ASSUME NEW a \in Accounts, NEW record \in Account,
                    CoveredBy(log, req, a, record), record.last \in AlarmStates
             PROVE  \/ AnnouncedIn(log'[a], record)
                    \/ \E t \in Threads : WillAnnounce(req'[t], a, record)
  BY DEF Stays, CoveredBy
<1>1. CASE AnnouncedIn(log[a], record)
  BY <1>1, AnnouncedStays
<1>2. ASSUME NEW t \in Threads, WillAnnounce(req[t], a, record)
      PROVE  \/ AnnouncedIn(log'[a], record)
             \/ \E u \in Threads : WillAnnounce(req'[u], a, record)
  <2>1. CASE req'[t] = req[t]
    BY <1>2, <2>1
  <2>2. CASE SaveAssessment(t)
    <3>1. req' = [req EXCEPT ![t] = [req[t] EXCEPT !.at = "notify"]]
      BY <2>2 DEF SaveAssessment, Proceed
    <3>2. req \in [Threads -> Request] /\ req[t] \in Request
      BY DEF ServiceInv, TypeOK
    <3>3. WillAnnounce([req[t] EXCEPT !.at = "notify"], a, record)
      BY <1>2, <3>2 DEF WillAnnounce, Request
    <3> QED
      BY <3>1, <3>2, <3>3
  <2>3. CASE Notify(t)
    <3> DEFINE r == req[t]
               events == AssessmentEvents(r.snap, r.draft, r.kind # "tick_all")
    <3>1. r.snap \in Account /\ r.draft \in Account /\ r.acct = a
      BY <1>2, <2>3, RequestTypes DEF Notify, At, Ready, WillAnnounce
    <3>2. Emit(a, events)
      BY <2>3, <3>1 DEF Notify
    <3>3. events \in Seq(Event)
      BY <3>1, AssessmentEventsType
    <3>4. AnnouncedIn(events, r.draft)
      BY <1>2, <3>1, AlertIsAmongEvents DEF WillAnnounce
    <3> HIDE DEF events
    <3>5. AnnouncedIn(events, record)
      BY <1>2, <3>4 DEF WillAnnounce, AnnouncedIn
    <3>6. log \in [Accounts -> Seq(Event)]
      BY DEF ServiceInv, TypeOK
    <3>7. log'[a] = log[a] \o events
      BY <3>2, <3>6 DEF Emit
    <3> QED
      BY <3>3, <3>5, <3>6, <3>7, AnnouncedInEither
  <2> QED
    BY <1>2, <2>1, <2>2, <2>3, PublisherMoves DEF WillAnnounce
<1> QED
  BY <1>1, <1>2, NoAccountAssumption DEF CoveredBy

(* The records a step stores, and those a request takes along, are covered. *)
NewCovered ==
  /\ \A b \in Accounts : accounts'[b] = accounts[b] \/ CoveredBy(log', req', b, accounts'[b])
  /\ \A u \in Threads : req'[u] = req[u] \/ CarriesCovered(log', req', req'[u])

LEMMA SourceCovered ==
  ASSUME ServiceInv, AlarmsCovered, Stays
  PROVE  /\ \A a \in Accounts : CoveredBy(log', req', a, accounts[a])
         /\ \A t \in Threads : /\ CoveredBy(log', req', req[t].acct, req[t].snap)
                               /\ CoveredBy(log', req', req[t].acct, req[t].draft)
<1>1. \A a \in Accounts : accounts[a] \in Account \/ accounts[a] = NoAccount
  BY DEF ServiceInv, TypeOK
<1>2. \A t \in Threads : /\ req[t].acct \in Accounts
                         /\ req[t].snap \in Account \/ req[t].snap = NoAccount
                         /\ req[t].draft \in Account \/ req[t].draft = NoAccount
  BY DEF ServiceInv, TypeOK, Request
<1> QED
  BY <1>1, <1>2, NothingToCover DEF AlarmsCovered, CarriesCovered, Stays

LEMMA ProceedCovered ==
  ASSUME ServiceInv, NEW t \in Threads, NEW q, Proceed(t, q), UNCHANGED accounts,
         CarriesCovered(log', req', q)
  PROVE  NewCovered
BY DEF Proceed, NewCovered, ServiceInv, TypeOK

LEMMA StoreCovered ==
  ASSUME ServiceInv, NEW t \in Threads, NEW q, Proceed(t, q),
         CarriesCovered(log', req', q),
         NEW a \in Accounts, NEW record, Store(a, record), CoveredBy(log', req', a, record)
  PROVE  NewCovered
BY DEF Proceed, Store, NewCovered, ServiceInv, TypeOK

LEMMA NoRequestCovered == CarriesCovered(log', req', NoRequest)
BY NoRequestType, NothingToCover

(* Finish answers the request, or goes on with nothing in hand.             *)
LEMMA FinishCovered ==
  ASSUME ServiceInv, NEW t \in Threads, NEW succeeded, Finish(t, succeeded)
  PROVE  \E q : Proceed(t, q) /\ CarriesCovered(log', req', q)
<1> DEFINE left == [req[t] EXCEPT !.snap = NoAccount, !.draft = NoAccount]
<1>1. req[t] \in Request
  BY RequestTypes
<1>2. CarriesCovered(log', req', [left EXCEPT !.at = "rollback"])
  <2>1. /\ [left EXCEPT !.at = "rollback"].snap = NoAccount
        /\ [left EXCEPT !.at = "rollback"].draft = NoAccount
    BY <1>1 DEF Request
  <2> QED
    BY <2>1, NothingToCover
<1>3. \A a : CarriesCovered(log', req',
                           [left EXCEPT !.at = "evaluate", !.acct = a, !.todo = @ \ {a}])
  <2> TAKE a
  <2> DEFINE rest == left.todo \ {a}
             q == [left EXCEPT !.at = "evaluate", !.acct = a, !.todo = rest]
  <2> HIDE DEF rest
  <2>1. q.snap = NoAccount /\ q.draft = NoAccount
    BY <1>1 DEF Request
  <2>2. CarriesCovered(log', req', q)
    BY <2>1, NothingToCover
  <2> QED
    BY <2>2 DEF rest
<1>4. (IF req[t].kind = "register" /\ ~succeeded
       THEN Proceed(t, [left EXCEPT !.at = "rollback"])
       ELSE IF req[t].todo = {} THEN Proceed(t, NoRequest)
       ELSE \E a \in req[t].todo :
              Proceed(t, [left EXCEPT !.at = "evaluate", !.acct = a, !.todo = @ \ {a}]))
  BY DEF Finish
<1> HIDE DEF left
<1> QED
  BY <1>2, <1>3, <1>4, NoRequestCovered

LEMMA HandlerCovered ==
  ASSUME ServiceInv, AlarmsCovered, Stays, NEW t \in Threads, Handler(t)
  PROVE  NewCovered
<1>1. ASSUME NEW a \in Accounts, Register(t, a)
      PROVE  NewCovered
  <2>1. PICK loan \in Openings, status \in Statuses :
          Store(a, Registered(loan, status, now, issued'))
    BY <1>1 DEF Register
  <2>2. CoveredBy(log', req', a, Registered(loan, status, now, issued'))
    BY DEF CoveredBy, Registered, AlarmStates
  <2> DEFINE q == [NoRequest EXCEPT !.at = "evaluate", !.kind = "register", !.acct = a,
                                    !.force = TRUE, !.found = Stored(a)]
  <2>3. Proceed(t, q) \/ Proceed(t, NoRequest)
    BY <1>1 DEF Register
  <2>4. q.snap = NoAccount /\ q.draft = NoAccount
    BY DEF NoRequest
  <2>5. CarriesCovered(log', req', q)
    BY <2>4, NothingToCover
  <2> HIDE DEF q
  <2> QED
    BY <2>1, <2>2, <2>3, <2>5, NoRequestCovered, StoreCovered
<1>2. ASSUME NEW a \in Accounts, NEW r \in References, BeginUpdate(t, a, r)
      PROVE  NewCovered
  <2> DEFINE q == [NoRequest EXCEPT !.at = "decide", !.kind = "update",
                                    !.acct = a, !.ref = r, !.snap = accounts[a]]
  <2>1. /\ Proceed(t, q) \/ Proceed(t, NoRequest)
        /\ UNCHANGED accounts
    BY <1>2 DEF BeginUpdate
  <2>2. q.snap = accounts[a] /\ q.acct = a /\ q.draft = NoAccount /\ q.at = "decide"
    BY DEF NoRequest
  <2> HIDE DEF q
  <2>3. CarriesCovered(log', req', q)
    BY <2>2, SourceCovered, NothingToCover DEF CarriesCovered
  <2> QED
    BY <2>1, <2>3, NoRequestCovered, ProceedCovered
<1>3. ASSUME NEW a \in Accounts, NEW force \in BOOLEAN, BeginTick(t, a, force)
      PROVE  NewCovered
  <2> DEFINE q == [NoRequest EXCEPT !.at = "evaluate", !.kind = "tick",
                                    !.acct = a, !.force = force]
  <2>1. Proceed(t, q) /\ UNCHANGED accounts
    BY <1>3 DEF BeginTick
  <2>2. q.snap = NoAccount /\ q.draft = NoAccount
    BY DEF NoRequest
  <2> HIDE DEF q
  <2> QED
    BY <2>1, <2>2, NothingToCover, ProceedCovered
<1>4. CASE BeginTickAll(t)
  <2> DEFINE q == [NoRequest EXCEPT !.at = "fan_out", !.kind = "tick_all"]
  <2>1. Proceed(t, q) /\ UNCHANGED accounts
    BY <1>4 DEF BeginTickAll
  <2>2. q.snap = NoAccount /\ q.draft = NoAccount
    BY DEF NoRequest
  <2> HIDE DEF q
  <2> QED
    BY <2>1, <2>2, NothingToCover, ProceedCovered
<1>5. ASSUME NEW v \in Valuations, NEW trigger \in BOOLEAN, Publish(t, v, trigger)
      PROVE  NewCovered
  <2> DEFINE q == [NoRequest EXCEPT !.at = "fan_out", !.kind = "market"]
  <2>1. (Proceed(t, q) \/ Proceed(t, NoRequest)) /\ UNCHANGED accounts
    BY <1>5 DEF Publish
  <2>2. q.snap = NoAccount /\ q.draft = NoAccount
    BY DEF NoRequest
  <2> HIDE DEF q
  <2> QED
    BY <2>1, <2>2, NothingToCover, NoRequestCovered, ProceedCovered
<1>6. ASSUME NEW a \in Accounts, NEW status \in Statuses, BeginStatus(t, a, status)
      PROVE  NewCovered
  <2> DEFINE draft == [accounts[a] EXCEPT !.status = status]
             q == [NoRequest EXCEPT !.at = "set_status", !.kind = "status",
                                    !.acct = a, !.snap = accounts[a], !.draft = draft]
  <2>1. /\ (Stored(a) /\ Proceed(t, q)) \/ Proceed(t, NoRequest)
        /\ UNCHANGED accounts
    BY <1>6 DEF BeginStatus
  <2>2. CoveredBy(log', req', a, accounts[a])
    BY SourceCovered
  <2>3. Stored(a) => CoveredBy(log', req', a, draft)
    <3> SUFFICES ASSUME Stored(a)
                 PROVE  CoveredBy(log', req', a, draft)
      OBVIOUS
    <3>1. accounts[a] \in Account
      BY DEF Stored, ServiceInv, TypeOK
    <3>2. draft.last = accounts[a].last /\ draft.serial = accounts[a].serial
      BY <3>1 DEF Account
    <3> QED
      BY <2>2, <3>1, <3>2, CoveredAlike
  <2> HIDE DEF draft
  <2>4. q.snap = accounts[a] /\ q.acct = a /\ q.draft = draft /\ q.at = "set_status"
    BY DEF NoRequest
  <2> HIDE DEF q
  <2>5. Stored(a) => CarriesCovered(log', req', q)
    BY <2>2, <2>3, <2>4 DEF CarriesCovered
  <2> QED
    BY <2>1, <2>5, NoRequestCovered, ProceedCovered
<1>7. ASSUME NEW a \in Accounts, Delete(t, a)
      PROVE  NewCovered
  BY <1>7, NoRequestCovered, NothingToCover, StoreCovered DEF Delete
<1> QED
  BY <1>1, <1>2, <1>3, <1>4, <1>5, <1>6, <1>7 DEF Handler

LEMMA UpdateCovered ==
  ASSUME ServiceInv, AlarmsCovered, Stays, NEW t \in Threads,
         DecideUpdate(t) \/ PostUpdate(t) \/ RecordUpdate(t)
  PROVE  NewCovered
<1> DEFINE r == req[t]
<1>1. /\ r \in Request /\ Ready(r) /\ r.acct \in Accounts /\ r.ref \in References
      /\ CoveredBy(log', req', r.acct, r.snap) /\ CoveredBy(log', req', r.acct, r.draft)
  BY RequestTypes, SourceCovered
<1>2. CASE DecideUpdate(t)
  <2> DEFINE draft == Posted(r.snap, r.ref)
             q == [r EXCEPT !.at = "post", !.draft = draft]
  <2>1. (Proceed(t, q) \/ Proceed(t, NoRequest)) /\ UNCHANGED accounts
    BY <1>2 DEF DecideUpdate
  <2>2. r.snap \in Account
    BY <1>1, <1>2 DEF DecideUpdate, At, Ready
  <2>3. CoveredBy(log', req', r.acct, draft)
    BY <1>1, <2>2, PostedHistory, CoveredAlike
  <2> HIDE DEF draft, r
  <2>4. q.at = "post" /\ q.acct = r.acct /\ q.snap = r.snap /\ q.draft = draft
    BY <1>1 DEF Request
  <2> HIDE DEF q
  <2>5. CarriesCovered(log', req', q)
    BY <1>1, <2>3, <2>4 DEF CarriesCovered
  <2> QED
    BY <2>1, <2>5, NoRequestCovered, ProceedCovered
<1>3. CASE PostUpdate(t)
  <2> DEFINE q == [r EXCEPT !.at = "record"]
  <2>1. (Proceed(t, q) \/ Proceed(t, NoRequest)) /\ Store(r.acct, r.draft)
    BY <1>3 DEF PostUpdate
  <2> HIDE DEF r
  <2>2. q.at = "record" /\ q.acct = r.acct /\ q.snap = r.snap /\ q.draft = r.draft
    BY <1>1 DEF Request
  <2> HIDE DEF q
  <2>3. CarriesCovered(log', req', q)
    BY <1>1, <2>2 DEF CarriesCovered
  <2> QED
    BY <1>1, <2>1, <2>3, NoRequestCovered, StoreCovered
<1>4. CASE RecordUpdate(t)
  <2> DEFINE q == [r EXCEPT !.at = "evaluate", !.snap = NoAccount, !.draft = NoAccount]
  <2>1. (Proceed(t, q) \/ Proceed(t, NoRequest)) /\ UNCHANGED accounts
    BY <1>4 DEF RecordUpdate
  <2> HIDE DEF r
  <2>2. q.snap = NoAccount /\ q.draft = NoAccount
    BY <1>1 DEF Request
  <2> HIDE DEF q
  <2> QED
    BY <2>1, <2>2, NothingToCover, NoRequestCovered, ProceedCovered
<1> QED
  BY <1>2, <1>3, <1>4

(* An assessment that finds another state is to be announced by the request *)
(* that made it.                                                            *)
LEMMA EvaluationCovered ==
  ASSUME ServiceInv, AlarmsCovered, Stays, NEW t \in Threads,
         BeginEvaluate(t) \/ Assess(t) \/ SaveAssessment(t) \/ Notify(t)
  PROVE  NewCovered
<1> DEFINE r == req[t]
<1>1. /\ r \in Request /\ Ready(r) /\ r.acct \in Accounts
      /\ CoveredBy(log', req', r.acct, r.snap) /\ CoveredBy(log', req', r.acct, r.draft)
  BY RequestTypes, SourceCovered
<1>2. CASE BeginEvaluate(t)
  <2> DEFINE a == r.acct
             q == [r EXCEPT !.at = "assess", !.snap = accounts[a]]
  <2>1. (Proceed(t, q) \/ Finish(t, FALSE)) /\ UNCHANGED accounts
    BY <1>2 DEF BeginEvaluate
  <2>2. CoveredBy(log', req', a, accounts[a])
    BY <1>1, SourceCovered
  <2> HIDE DEF r
  <2>3. q.at = "assess" /\ q.acct = a /\ q.snap = accounts[a] /\ q.draft = r.draft
    BY <1>1 DEF Request
  <2> HIDE DEF q
  <2>4. CarriesCovered(log', req', q)
    BY <1>1, <2>2, <2>3 DEF CarriesCovered
  <2> QED
    BY <2>1, <2>4, FinishCovered, ProceedCovered
<1>3. CASE Assess(t)
  <2> DEFINE initial == Initial(t)
             draft == Assessed(r.snap, market, now, initial)
             q == [r EXCEPT !.at = "save", !.draft = draft]
  <2>1. (Proceed(t, q) \/ Finish(t, FALSE)) /\ UNCHANGED accounts
    BY <1>3 DEF Assess
  <2>2. r.snap \in Account /\ now \in Nat /\ initial \in BOOLEAN
    BY <1>1, <1>3, BoundsAssumption DEF Assess, At, Ready, Initial, ServiceInv, TypeOK
  <2>3. draft \in Account /\ draft.serial = r.snap.serial
    BY <2>2, AssessedRecord, AssessedHistory
  <2>4. req' = [req EXCEPT ![t] = q] => req'[t] = q
    BY DEF ServiceInv, TypeOK
  <2> HIDE DEF draft
  <2>5. q.at = "save" /\ q.acct = r.acct /\ q.snap = r.snap /\ q.draft = draft
    BY <1>1 DEF Request
  <2>6. Proceed(t, q) => req'[t] = q
    BY <2>4 DEF Proceed
  <2> HIDE DEF q, r
  <2>7. CASE Proceed(t, q)
    <3>1. ASSUME draft.last = r.snap.last
          PROVE  CoveredBy(log', req', r.acct, draft)
      BY <1>1, <2>2, <2>3, <3>1, CoveredAlike
    <3>2. ASSUME draft.last # r.snap.last
          PROVE  CoveredBy(log', req', r.acct, draft)
      <4>1. WillAnnounce(req'[t], r.acct, draft)
        BY <2>5, <2>6, <2>7, <3>2 DEF WillAnnounce
      <4> QED
        BY <4>1 DEF CoveredBy
    <3>3. CoveredBy(log', req', r.acct, draft)
      BY <3>1, <3>2
    <3>4. CarriesCovered(log', req', q)
      BY <1>1, <2>5, <3>3 DEF CarriesCovered
    <3> QED
      BY <2>1, <2>7, <3>4, ProceedCovered
  <2> QED
    BY <2>1, <2>7, FinishCovered, ProceedCovered
<1>4. CASE SaveAssessment(t)
  <2> DEFINE q == [r EXCEPT !.at = "notify"]
  <2>1. (Proceed(t, q) \/ Finish(t, FALSE)) /\ Store(r.acct, r.draft)
    BY <1>4 DEF SaveAssessment
  <2> HIDE DEF r
  <2>2. q.at = "notify" /\ q.acct = r.acct /\ q.snap = r.snap /\ q.draft = r.draft
    BY <1>1 DEF Request
  <2> HIDE DEF q
  <2>3. CarriesCovered(log', req', q)
    BY <1>1, <2>2 DEF CarriesCovered
  <2> QED
    BY <1>1, <2>1, <2>3, FinishCovered, StoreCovered
<1>5. CASE Notify(t)
  <2>1. (Finish(t, TRUE) \/ Finish(t, FALSE)) /\ UNCHANGED accounts
    BY <1>5 DEF Notify
  <2> QED
    BY <2>1, FinishCovered, ProceedCovered
<1> QED
  BY <1>2, <1>3, <1>4, <1>5

LEMMA OtherStepsCovered ==
  ASSUME ServiceInv, AlarmsCovered, Stays, NEW t \in Threads,
         RollBack(t) \/ SaveStatus(t) \/ FanOut(t)
  PROVE  NewCovered
<1> DEFINE r == req[t]
<1>1. r \in Request /\ r.acct \in Accounts /\ CoveredBy(log', req', r.acct, r.draft)
  BY RequestTypes, SourceCovered
<1>2. CASE RollBack(t)
  BY <1>1, <1>2, NoRequestCovered, NothingToCover, StoreCovered DEF RollBack
<1>3. CASE SaveStatus(t)
  BY <1>1, <1>3, NoRequestCovered, StoreCovered DEF SaveStatus
<1>4. CASE FanOut(t)
  <2> DEFINE listed == {a \in Accounts : /\ Stored(a)
                                         /\ r.kind = "market" \/ accounts[a].status = "active"}
             rest(a) == listed \ {a}
             q(a) == [r EXCEPT !.at = "evaluate", !.acct = a, !.todo = rest(a)]
  <2>1. /\ Proceed(t, NoRequest) \/ \E a \in listed : Proceed(t, q(a))
        /\ UNCHANGED accounts
    BY <1>4 DEF FanOut
  <2>2. r.snap = NoAccount /\ r.draft = NoAccount
    BY <1>4 DEF FanOut, At, AlarmsCovered, CarriesCovered
  <2>3. ASSUME NEW a \in listed
        PROVE  CarriesCovered(log', req', q(a))
    <3> DEFINE todo == rest(a)
               going == [r EXCEPT !.at = "evaluate", !.acct = a, !.todo = todo]
    <3> HIDE DEF todo, r
    <3>1. going.snap = NoAccount /\ going.draft = NoAccount
      BY <1>1, <2>2 DEF Request
    <3>2. CarriesCovered(log', req', going)
      BY <3>1, NothingToCover
    <3> QED
      BY <3>2 DEF todo
  <2> HIDE DEF listed, q
  <2> QED
    BY <2>1, <2>3, NoRequestCovered, ProceedCovered
<1> QED
  BY <1>2, <1>3, <1>4

LEMMA NextAlarmsCovered ==
  ASSUME ~AuditCanFail
  PROVE  ServiceInv /\ AlarmsCovered /\ [Next]_vars => AlarmsCovered'
<1> SUFFICES ASSUME ServiceInv, AlarmsCovered, [Next]_vars
             PROVE  AlarmsCovered'
  OBVIOUS
<1>1. Stays
  BY CoverStays
<1>2. NewCovered
  <2>1. ASSUME NEW t \in Threads, Continue(t)
        PROVE  NewCovered
    BY <1>1, <2>1, UpdateCovered, EvaluationCovered, OtherStepsCovered DEF Continue
  <2>2. Advance \/ UNCHANGED vars => NewCovered
    BY DEF Advance, vars, NewCovered
  <2> QED
    BY <1>1, <2>1, <2>2, HandlerCovered DEF Next, Done
<1>3. \A a \in Accounts : CoveredBy(log', req', a, accounts'[a])
  BY <1>1, <1>2, SourceCovered DEF NewCovered
<1>4. \A t \in Threads : CarriesCovered(log', req', req'[t])
  BY <1>1, <1>2, SourceCovered DEF NewCovered, CarriesCovered, AlarmsCovered
<1> QED
  BY <1>3, <1>4 DEF AlarmsCovered

(***************************************************************************)
(* Where audit writes go through, an account that is in an alarm state     *)
(* when all requests are answered has had its alert published, however     *)
(* ticks overlapped and whichever copies of the record were written back.  *)
(***************************************************************************)
THEOREM StandingAlarmsAreAnnounced ==
  ASSUME ~AuditCanFail
  PROVE  Spec => []StandingAlarmWasAnnounced
<1>1. Init => AlarmsCovered
  BY NoRequestType, NothingToCover DEF Init, AlarmsCovered
<1>2. ServiceInv /\ AlarmsCovered /\ [Next]_vars => AlarmsCovered'
  BY NextAlarmsCovered
<1>3. AlarmsCovered => StandingAlarmWasAnnounced
  <2> SUFFICES ASSUME AlarmsCovered, Quiet, NEW a \in Accounts, Stored(a),
                      accounts[a].last \in AlarmStates
               PROVE  AnnouncedIn(log[a], accounts[a])
    BY DEF StandingAlarmWasAnnounced, AnnouncedIn, AlertOf
  <2>1. \A t \in Threads : ~WillAnnounce(req[t], a, accounts[a])
    BY DEF Quiet, At, WillAnnounce
  <2> QED
    BY <2>1 DEF AlarmsCovered, CoveredBy, Stored
<1> QED
  BY <1>1, <1>2, <1>3, ServiceInvariant, PTL DEF Spec

-----------------------------------------------------------------------------
(***************************************************************************)
(* The book takes its definitions from MonitoredAccount anew; they are the *)
(* same operations.                                                        *)
(***************************************************************************)
LEMMA BookArithmetic ==
  /\ \A x, y : Book!Least(x, y) = Least(x, y)
  /\ \A x, y : Book!Excess(x, y) = Excess(x, y)
  /\ \A x, y : Book!RoundQuotient(x, y) = RoundQuotient(x, y)
  /\ \A x : Book!RoundMoney(x) = RoundMoney(x)
  /\ \A loan : Book!Balance(loan) = Balance(loan)
BY DEF Book!Least, Least, Book!Excess, Excess, Book!RoundQuotient, RoundQuotient,
       Book!RoundMoney, RoundMoney, Book!Balance, Balance

LEMMA BookLoans ==
  /\ \A loan : Book!RoundLoan(loan) = RoundLoan(loan)
  /\ \A loan, amount : Book!ApplyRepayment(loan, amount) = ApplyRepayment(loan, amount)
  /\ \A loan, update : Book!Settle(loan, update) = Settle(loan, update)
  /\ \A loan, repay : Book!AfterRepayment(loan, repay) = AfterRepayment(loan, repay)
  /\ \A loan, draw, repay : Book!ProjectedLoan(loan, draw, repay) = ProjectedLoan(loan, draw, repay)
  /\ \A loan, elapsed : Book!AccrueInterest(loan, elapsed) = AccrueInterest(loan, elapsed)
<1>1. \A loan : Book!RoundLoan(loan) = RoundLoan(loan)
  BY BookArithmetic DEF Book!RoundLoan, RoundLoan
<1>2. \A loan, amount : Book!ApplyRepayment(loan, amount) = ApplyRepayment(loan, amount)
  BY BookArithmetic DEF Book!ApplyRepayment, ApplyRepayment
<1>3. \A loan, update : Book!Settle(loan, update) = Settle(loan, update)
  BY <1>2 DEF Book!Settle, Settle
<1>4. \A loan, repay : Book!AfterRepayment(loan, repay) = AfterRepayment(loan, repay)
  BY <1>1, <1>2, BookArithmetic DEF Book!AfterRepayment, AfterRepayment
<1>5. \A loan, draw, repay :
        Book!ProjectedLoan(loan, draw, repay) = ProjectedLoan(loan, draw, repay)
  BY <1>4, BookArithmetic, Zenon DEF Book!ProjectedLoan, ProjectedLoan
<1>6. \A loan, elapsed : Book!InterestDue(loan, elapsed) = InterestDue(loan, elapsed)
  BY DEF Book!InterestDue, InterestDue
<1>7. \A loan, elapsed : Book!AccrueInterest(loan, elapsed) = AccrueInterest(loan, elapsed)
  BY <1>6, Zenon DEF Book!AccrueInterest, AccrueInterest
<1> QED
  BY <1>1, <1>2, <1>3, <1>4, <1>5, <1>7

LEMMA BookRisk ==
  /\ \A v, b : Book!MarginState(v, b) = MarginState(v, b)
  /\ \A v, b : Book!Unassessable(v, b) = Unassessable(v, b)
  /\ \A v : Book!SafeCreditLimit(v) = SafeCreditLimit(v)
<1>1. \A v : /\ Book!LiquidationCoverage(v) = LiquidationCoverage(v)
             /\ Book!MarginCallCoverage(v) = MarginCallCoverage(v)
             /\ Book!RestrictionCoverage(v) = RestrictionCoverage(v)
             /\ Book!WarningCoverage(v) = WarningCoverage(v)
  BY DEF Book!WarningCoverage, WarningCoverage, Book!RestrictionCoverage, RestrictionCoverage,
         Book!MarginCallCoverage, MarginCallCoverage, Book!LiquidationCoverage,
         LiquidationCoverage, Book!Clamp, Clamp
<1>2. \A v, b : Book!MarginState(v, b) = MarginState(v, b)
  BY <1>1 DEF Book!MarginState, MarginState, Book!Below, Below, Book!Whole, Whole
<1>3. \A v : Book!SafeCreditLimit(v) = SafeCreditLimit(v)
  BY <1>1, BookArithmetic DEF Book!SafeCreditLimit, SafeCreditLimit, Book!Whole, Whole
<1>4. \A v, b : Book!Unassessable(v, b) = Unassessable(v, b)
  BY DEF Book!Unassessable, Unassessable
<1> QED
  BY <1>2, <1>3, <1>4

(* The records of the book are made as those of the service are.            *)
LEMMA BookRecords ==
  /\ Book!Statuses = Statuses
  /\ \A loan, status, at, serial :
       Book!Registered(loan, status, at, serial) = Registered(loan, status, at, serial)
  /\ \A account, r : Book!IsProcessed(account, r) = IsProcessed(account, r)
  /\ \A account, r, v : Book!IsRefused(account, r, v) = IsRefused(account, r, v)
  /\ \A account, r : Book!Posted(account, r) = Posted(account, r)
  /\ \A account, v, at, initial :
       Book!Assessed(account, v, at, initial) = Assessed(account, v, at, initial)
<1>1. Book!Statuses = Statuses
  BY DEF Book!Statuses, Statuses
<1>2. \A loan, status, at, serial :
        Book!Registered(loan, status, at, serial) = Registered(loan, status, at, serial)
  BY DEF Book!Registered, Registered
<1>3. \A account, r : Book!IsProcessed(account, r) = IsProcessed(account, r)
  BY DEF Book!IsProcessed, IsProcessed
<1>4. \A account, r : Book!SettledLoan(account, r) = SettledLoan(account, r)
  BY BookLoans DEF Book!SettledLoan, SettledLoan
<1>5. \A v, loan, repay : Book!MaxApprovedDraw(v, loan, repay) = MaxApprovedDraw(v, loan, repay)
  BY BookArithmetic, BookLoans, BookRisk DEF Book!MaxApprovedDraw, MaxApprovedDraw
<1>6. \A v, loan, draw, repay :
        Book!DrawDecision(v, loan, draw, repay) = DrawDecision(v, loan, draw, repay)
  BY <1>5, BookArithmetic, BookLoans, BookRisk DEF Book!DrawDecision, DrawDecision
<1>7. \A account, r, v : Book!IsRefused(account, r, v) = IsRefused(account, r, v)
  BY <1>4, <1>6, BookArithmetic, BookRisk DEF Book!IsRefused, IsRefused
<1>8. \A account, r : Book!UpdatedLoan(account, r) = UpdatedLoan(account, r)
  BY <1>4, BookLoans DEF Book!UpdatedLoan, UpdatedLoan
<1>9. \A processed, r : Book!Remember(processed, r) = Remember(processed, r)
  BY BookArithmetic DEF Book!Remember, Remember
<1>10. \A account, r : Book!Posted(account, r) = Posted(account, r)
  BY <1>8, <1>9, Zenon DEF Book!Posted, Posted
<1>11. \A account, at : Book!Elapsed(account, at) = Elapsed(account, at)
  BY BookArithmetic DEF Book!Elapsed, Elapsed
<1>12. \A account, at, initial :
         Book!AccruedLoan(account, at, initial) = AccruedLoan(account, at, initial)
  BY <1>11, BookLoans, Zenon DEF Book!AccruedLoan, AccruedLoan
<1>13. \A account, v, at, initial :
         Book!Assessed(account, v, at, initial) = Assessed(account, v, at, initial)
  <2>1. \A v, loan : Book!MarginState(v, Book!Balance(loan)) = MarginState(v, Balance(loan))
    BY BookArithmetic, BookRisk
  <2>2. SUFFICES ASSUME NEW account, NEW v, NEW at, NEW initial
                 PROVE  Book!Assessed(account, v, at, initial) = Assessed(account, v, at, initial)
    OBVIOUS
  <2>3. Book!AccruedLoan(account, at, initial) = AccruedLoan(account, at, initial)
    BY <1>12
  <2>4. Book!Elapsed(account, at) = Elapsed(account, at)
    BY <1>11
  <2> QED
    BY <2>1, <2>3, <2>4, Zenon DEF Book!Assessed, Assessed
<1> QED
  BY <1>1, <1>2, <1>3, <1>7, <1>10, <1>13

-----------------------------------------------------------------------------
(***************************************************************************)
(* Serials: no copy of a record is of a registration yet to come.          *)
(***************************************************************************)
SerialsIssued == \A record \in Records : record.serial <= issued

LEMMA NextSerialsIssued == ServiceInv /\ SerialsIssued /\ [Next]_vars => SerialsIssued'
<1> SUFFICES ASSUME ServiceInv, SerialsIssued, [Next]_vars,
                    NEW record \in Records'
             PROVE  record.serial <= issued'
  BY DEF SerialsIssued
<1>1. Shape
  BY StepShape
<1>2. issued \in Nat /\ issued' \in Nat /\ issued <= issued' /\ now \in Nat
  BY <1>1, BoundsAssumption DEF Shape, EnvironmentStep, ServiceInv, TypeOK
<1>3. record \in Account /\ Arises(record)
  BY <1>1, CopiesArise DEF Records
<1>4. \A source \in Records : /\ source \in Account
                              /\ source.serial \in Nat /\ source.serial <= issued'
  <2> TAKE source \in Records
  <2>1. source \in Account /\ source.serial <= issued
    BY DEF SerialsIssued, Records
  <2>2. source.serial \in Nat
    BY <2>1 DEF Account
  <2> QED
    BY <1>2, <2>1, <2>2
<1>5. ASSUME NEW loan \in Openings, NEW status \in Statuses, NEW serial \in 0..issued',
             record = Registered(loan, status, now, serial)
      PROVE  record.serial <= issued'
  BY <1>2, <1>5 DEF Registered
<1>6. ASSUME NEW source \in Records, NEW r \in References, record = Posted(source, r)
      PROVE  record.serial <= issued'
  BY <1>4, <1>6, PostedHistory
<1>7. ASSUME NEW source \in Records, NEW v \in Valuations, NEW initial \in BOOLEAN,
             record = Assessed(source, v, now, initial)
      PROVE  record.serial <= issued'
  BY <1>2, <1>4, <1>7, AssessedHistory
<1>8. ASSUME NEW source \in Records, NEW status \in Statuses,
             record = [source EXCEPT !.status = status]
      PROVE  record.serial <= issued'
  BY <1>4, <1>8 DEF Account
<1> QED
  BY <1>3, <1>4, <1>5, <1>6, <1>7, <1>8, NoAccountAssumption DEF Arises

(***************************************************************************)
(* One client that waits for each answer.  What its request carries is the *)
(* current record of the account, and what it is about to store is made of *)
(* that record by one operation of the book.                               *)
(***************************************************************************)
OneClient == \A t, u \in Threads : t = u

InStep(q, held) ==
  LET current == held[q.acct]
  IN  /\ q.at \in {"decide", "post", "assess", "save", "set_status"} => q.snap = current
      /\ q.at = "post" => /\ q.draft = Posted(current, q.ref)
                          /\ ~IsProcessed(current, q.ref)
                          /\ \E v \in Valuations : ~IsRefused(current, q.ref, v)
      /\ q.at = "record" => q.draft = current /\ current.applied[q.ref] > 0
      /\ q.at = "save" =>
           \E v \in Valuations, at \in 0..MaxTime, initial \in BOOLEAN :
             /\ at >= current.accruedTo
             /\ initial => current.last = "none"
             /\ q.draft = Assessed(current, v, at, initial)
      /\ q.at = "set_status" =>
           \E status \in Statuses : q.draft = [current EXCEPT !.status = status]
      /\ q.kind = "register" =>
           /\ q.at \in {"evaluate", "assess", "save", "notify", "rollback"}
           /\ q.todo = {}
           /\ q.at \in {"evaluate", "assess"} /\ current # NoAccount => current.last = "none"

OneAtATime == \A t \in Threads : InStep(req[t], accounts)

(* A request that carries nothing and does not begin a registration's       *)
(* evaluation is in step with any store.                                    *)
LEMMA LightInStep ==
  ASSUME NEW q, NEW held, q.at \in {"idle", "evaluate", "fan_out", "rollback"},
         q.kind = "register" => q.at = "rollback" /\ q.todo = {}
  PROVE  InStep(q, held)
BY DEF InStep

LEMMA NoRequestInStep == \A held : InStep(NoRequest, held)
BY LightInStep DEF NoRequest

LEMMA FinishInStep ==
  ASSUME ServiceInv, NEW t \in Threads, NEW succeeded, Finish(t, succeeded),
         req[t].kind = "register" => req[t].todo = {}
  PROVE  \E q : Proceed(t, q) /\ \A held : InStep(q, held)
<1> DEFINE left == [req[t] EXCEPT !.snap = NoAccount, !.draft = NoAccount]
<1>1. req[t] \in Request
  BY RequestTypes
<1>2. (IF req[t].kind = "register" /\ ~succeeded
       THEN Proceed(t, [left EXCEPT !.at = "rollback"])
       ELSE IF req[t].todo = {} THEN Proceed(t, NoRequest)
       ELSE \E a \in req[t].todo :
              Proceed(t, [left EXCEPT !.at = "evaluate", !.acct = a, !.todo = @ \ {a}]))
  BY DEF Finish
<1>3. \A held : InStep([left EXCEPT !.at = "rollback"], held)
  <2> DEFINE q == [left EXCEPT !.at = "rollback"]
  <2>1. q.at = "rollback" /\ q.kind = req[t].kind /\ q.todo = req[t].todo
    BY <1>1 DEF Request
  <2> HIDE DEF q
  <2>2. \A held : InStep(q, held)
    BY <2>1, LightInStep
  <2> QED
    BY <2>2 DEF q
<1>4. ASSUME NEW a, req[t].kind # "register"
      PROVE  \A held : InStep([left EXCEPT !.at = "evaluate", !.acct = a, !.todo = @ \ {a}], held)
  <2> DEFINE rest == left.todo \ {a}
             q == [left EXCEPT !.at = "evaluate", !.acct = a, !.todo = rest]
  <2> HIDE DEF rest
  <2>1. q.at = "evaluate" /\ q.kind = req[t].kind
    BY <1>1 DEF Request
  <2> HIDE DEF q
  <2>2. \A held : InStep(q, held)
    BY <1>4, <2>1, LightInStep
  <2> QED
    BY <2>2 DEF q, rest
<1> HIDE DEF left
<1> QED
  BY <1>2, <1>3, <1>4, NoRequestInStep

(***************************************************************************)
(* What one client is told.  An event is honest of an account's record if  *)
(* an update it reports for the record's registration is in the record.    *)
(***************************************************************************)
Honest(e, record, serials) ==
  /\ e.serial <= serials
  /\ e.type = "loan_balance_updated" =>
       /\ e.ref \in References
       /\ record # NoAccount /\ e.serial = record.serial => record.applied[e.ref] > 0

LogHonest ==
  \A a \in Accounts : \A i \in 1..Len(log[a]) : Honest(log[a][i], accounts[a], issued)

(* What may follow a record: nothing, a new registration, or a record with  *)
(* no update taken back.                                                    *)
Succeeds(old, new) ==
  \/ new = NoAccount
  \/ new # NoAccount /\ new.serial > issued
  \/ /\ old # NoAccount /\ new # NoAccount /\ new.serial = old.serial
     /\ \A r \in References : new.applied[r] >= old.applied[r]

HonestLogStep ==
  \/ UNCHANGED log
  \/ \E a \in Accounts, events \in Seq(Event) :
       Emit(a, events) /\ \A i \in 1..Len(events) : Honest(events[i], accounts'[a], issued')

(* What each step of one client does, to the store and for the client.      *)
Keeps(t) ==
  /\ \E q : Proceed(t, q) /\ InStep(q, accounts')
  /\ [Book!Next]_accounts
  /\ \A a \in Accounts : accounts'[a] = accounts[a] \/ Succeeds(accounts[a], accounts'[a])
  /\ HonestLogStep

LEMMA KeepingStore ==
  ASSUME NEW t \in Threads, NEW q, Proceed(t, q), InStep(q, accounts),
         UNCHANGED accounts, HonestLogStep
  PROVE  Keeps(t)
BY DEF Keeps

LEMMA ChangingStore ==
  ASSUME ServiceInv, NEW t \in Threads, NEW q, Proceed(t, q), InStep(q, accounts'),
         NEW a \in Accounts, NEW record, Store(a, record),
         Succeeds(accounts[a], record), HonestLogStep,
         Book!Open(a) \/ Book!Close(a) \/ Book!Post(a) \/ Book!Reassess(a) \/ Book!SetStatus(a)
  PROVE  Keeps(t)
<1>1. accounts \in [Accounts -> Account \cup {NoAccount}]
  BY DEF ServiceInv, TypeOK
<1>2. \A b \in Accounts : accounts'[b] = accounts[b] \/ Succeeds(accounts[b], accounts'[b])
  BY <1>1 DEF Store
<1>3. Book!Next
  BY DEF Book!Next
<1> QED
  BY <1>2, <1>3 DEF Keeps

LEMMA StoredRecord ==
  ASSUME ServiceInv, NEW a \in Accounts, NEW record, Store(a, record)
  PROVE  accounts'[a] = record /\ accounts' = [accounts EXCEPT ![a] = record]
BY DEF Store, ServiceInv, TypeOK

(* The events of an assessment, and errors, report no update.               *)
LEMMA NoticeHonest ==
  ASSUME ServiceInv, SerialsIssued, NEW source \in Records, NEW record,
         NEW type \in EventTypes \ {"loan_balance_updated"},
         issued <= issued', issued' \in Nat
  PROVE  Honest(Notice(type, source, "none"), record, issued')
<1>1. source \in Account /\ source.serial <= issued
  BY DEF SerialsIssued, Records
<1>2. source.serial \in Nat
  BY <1>1 DEF Account
<1>3. issued \in Nat
  BY BoundsAssumption DEF ServiceInv, TypeOK
<1> QED
  BY <1>1, <1>2, <1>3 DEF Honest, Notice

LEMMA EmitOnceHonest ==
  ASSUME NEW a \in Accounts, NEW event \in Event, EmitOnce(a, event),
         Honest(event, accounts'[a], issued')
  PROVE  HonestLogStep
<1>1. <<event>> \in Seq(Event) /\ \A i \in 1..Len(<<event>>) : <<event>>[i] = event
  OBVIOUS
<1> QED
  BY <1>1 DEF EmitOnce, HonestLogStep

LEMMA NextLogHonest ==
  ASSUME ServiceInv, ServiceInv', LogHonest, NEW t \in Threads, Keeps(t),
         issued \in Nat, issued' \in Nat, issued <= issued'
  PROVE  LogHonest'
<1>1. /\ accounts \in [Accounts -> Account \cup {NoAccount}]
      /\ log \in [Accounts -> Seq(Event)]
  BY DEF ServiceInv, TypeOK
<1>2. \A a \in Accounts : \A i \in 1..Len(log[a]) : log[a][i] \in Event
  BY <1>1, ElementOfSeq
<1>3. \A a \in Accounts : \A i \in 1..Len(log[a]) : Honest(log[a][i], accounts'[a], issued')
  <2> SUFFICES ASSUME NEW a \in Accounts, NEW i \in 1..Len(log[a])
               PROVE  Honest(log[a][i], accounts'[a], issued')
    OBVIOUS
  <2> DEFINE e == log[a][i]
  <2>1. Honest(e, accounts[a], issued) /\ e.serial \in Nat
    BY <1>2 DEF LogHonest, Event
  <2>2. accounts'[a] = accounts[a] \/ Succeeds(accounts[a], accounts'[a])
    BY DEF Keeps
  <2>3. accounts[a] # NoAccount => \A r \in References : accounts[a].applied[r] \in Nat
    BY <1>1 DEF Account
  <2> HIDE DEF e
  <2>4. ASSUME Succeeds(accounts[a], accounts'[a])
        PROVE  Honest(e, accounts'[a], issued')
    <3>1. e.serial <= issued'
      BY <2>1 DEF Honest
    <3>2. ASSUME e.type = "loan_balance_updated", accounts'[a] # NoAccount,
                 e.serial = accounts'[a].serial
          PROVE  accounts'[a].applied[e.ref] > 0
      <4>1. e.serial <= issued /\ e.ref \in References
        BY <2>1, <3>2 DEF Honest
      <4>2. /\ accounts[a] # NoAccount /\ accounts'[a].serial = accounts[a].serial
            /\ accounts'[a].applied[e.ref] >= accounts[a].applied[e.ref]
        BY <2>1, <2>4, <3>2, <4>1 DEF Succeeds
      <4>3. accounts[a].applied[e.ref] > 0
        BY <2>1, <3>2, <4>2 DEF Honest
      <4>4. accounts[a].applied[e.ref] \in Nat
        BY <2>3, <4>1, <4>2
      <4>5. accounts'[a].applied[e.ref] \in Nat
        <5>1. accounts'[a] \in Account
          BY <3>2 DEF ServiceInv, TypeOK
        <5> QED
          BY <4>1, <5>1 DEF Account
      <4> QED
        BY <4>2, <4>3, <4>4, <4>5
    <3> QED
      BY <2>1, <3>1, <3>2 DEF Honest
  <2>5. Honest(e, accounts[a], issued')
    BY <2>1 DEF Honest
  <2>6. Honest(e, accounts'[a], issued')
    BY <2>2, <2>4, <2>5
  <2> QED
    BY <2>6 DEF e
<1>4. CASE UNCHANGED log
  BY <1>3, <1>4 DEF LogHonest
<1>5. ASSUME NEW b \in Accounts, NEW events \in Seq(Event), Emit(b, events),
             \A i \in 1..Len(events) : Honest(events[i], accounts'[b], issued')
      PROVE  LogHonest'
  <2> SUFFICES ASSUME NEW a \in Accounts, NEW i \in 1..Len(log'[a])
               PROVE  Honest(log'[a][i], accounts'[a], issued')
    BY DEF LogHonest
  <2>1. CASE a # b
    <3>1. log'[a] = log[a]
      BY <1>1, <1>5, <2>1 DEF Emit
    <3> QED
      BY <1>3, <3>1
  <2>2. CASE a = b
    <3> DEFINE s == log[a]
    <3>1. log'[a] = s \o events /\ s \in Seq(Event)
      BY <1>1, <1>5, <2>2 DEF Emit
    <3>2. /\ Len(s) \in Nat /\ Len(events) \in Nat /\ Len(s \o events) = Len(s) + Len(events)
          /\ \A k \in 1..Len(s) + Len(events) :
               (s \o events)[k] = IF k <= Len(s) THEN s[k] ELSE events[k - Len(s)]
      BY <3>1, ConcatProperties, LenProperties
    <3>3. \A k \in 1..Len(s) : Honest(s[k], accounts'[a], issued')
      BY <1>3
    <3> HIDE DEF s
    <3>4. CASE i <= Len(s)
      BY <3>1, <3>2, <3>3, <3>4
    <3>5. CASE i > Len(s)
      <4>1. i - Len(s) \in 1..Len(events) /\ log'[a][i] = events[i - Len(s)]
        BY <3>1, <3>2, <3>5
      <4> QED
        BY <1>5, <2>2, <4>1
    <3> QED
      BY <3>1, <3>2, <3>4, <3>5
  <2> QED
    BY <2>1, <2>2
<1> QED
  BY <1>4, <1>5 DEF Keeps, HonestLogStep

Background ==
  /\ ServiceInv /\ ClocksRun /\ SerialsIssued /\ OneAtATime
  /\ issued \in Nat /\ issued' \in Nat /\ issued <= issued'

LEMMA BackgroundFacts ==
  ASSUME Background, NEW t \in Threads
  PROVE  /\ ServiceInv /\ SerialsIssued
         /\ req[t] \in Request /\ Ready(req[t]) /\ InStep(req[t], accounts)
         /\ req[t].acct \in Accounts /\ req[t].ref \in References
         /\ req[t].snap \in Account => req[t].snap \in Records
         /\ req[t].draft \in Account => req[t].draft \in Records
         /\ req[t].kind = "register" => req[t].todo = {}
         /\ accounts \in [Accounts -> Account \cup {NoAccount}]
BY RequestTypes DEF Background, OneAtATime, InStep, ServiceInv, TypeOK

LEMMA RegisterKeeps ==
  ASSUME Background, NEW t \in Threads, NEW a \in Accounts, Register(t, a)
  PROVE  Keeps(t)
<1>1. PICK loan \in Openings, status \in Statuses, evaluate \in BOOLEAN,
           audited \in AuditOutcomes :
        /\ Store(a, Registered(loan, status, now, issued'))
        /\ Proceed(t, IF audited /\ (status = "active" \/ evaluate)
                      THEN [NoRequest EXCEPT !.at = "evaluate", !.kind = "register",
                                             !.acct = a, !.force = TRUE,
                                             !.found = Stored(a)]
                      ELSE NoRequest)
  BY DEF Register
<1> DEFINE record == Registered(loan, status, now, issued')
           found == Stored(a)
           q == [NoRequest EXCEPT !.at = "evaluate", !.kind = "register",
                                  !.acct = a, !.force = TRUE, !.found = found]
<1>2. /\ now \in 0..MaxTime /\ now \in Nat /\ issued' \in 0..MaxRequests /\ issued < issued'
      /\ issued' \in Nat
  BY BoundsAssumption, AcceptStep DEF Register, Background, ServiceInv, TypeOK
<1>3. record \in Account
  BY <1>2, OpeningsAssumption, RegisteredType
<1>4. record.last = "none" /\ record.serial = issued'
  BY DEF Registered
<1>5. Store(a, record) /\ (Proceed(t, q) \/ Proceed(t, NoRequest)) /\ UNCHANGED log
  BY <1>1 DEF Register
<1>6. accounts'[a] = record /\ accounts' = [accounts EXCEPT ![a] = record]
  BY <1>5, StoredRecord DEF Background
<1>7. Book!Open(a)
  BY <1>2, <1>6, BookRecords DEF Book!Open, Book!Becomes
<1>8. Succeeds(accounts[a], record)
  BY <1>2, <1>3, <1>4, NoAccountAssumption DEF Succeeds
<1> HIDE DEF record, found
<1>9. q.at = "evaluate" /\ q.kind = "register" /\ q.acct = a /\ q.todo = {}
  BY DEF NoRequest
<1> HIDE DEF q
<1>10. InStep(q, accounts')
  BY <1>4, <1>6, <1>9 DEF InStep
<1> QED
  BY <1>5, <1>7, <1>8, <1>10, ChangingStore, NoRequestInStep DEF Background, HonestLogStep

LEMMA BeginningsKeep ==
  ASSUME Background, NEW t \in Threads,
         \/ \E a \in Accounts, r \in References : BeginUpdate(t, a, r)
         \/ \E a \in Accounts, force \in BOOLEAN : BeginTick(t, a, force)
         \/ BeginTickAll(t)
         \/ \E v \in Valuations, trigger \in BOOLEAN : Publish(t, v, trigger)
         \/ \E a \in Accounts, status \in Statuses : BeginStatus(t, a, status)
  PROVE  Keeps(t)
<1>1. UNCHANGED <<accounts, log>>
  BY DEF BeginUpdate, BeginTick, BeginTickAll, Publish, BeginStatus
<1>2. ASSUME NEW q, Proceed(t, q), InStep(q, accounts)
      PROVE  Keeps(t)
  BY <1>1, <1>2, KeepingStore DEF HonestLogStep
<1>3. ASSUME NEW a \in Accounts, NEW r \in References, BeginUpdate(t, a, r)
      PROVE  Keeps(t)
  <2> DEFINE q == [NoRequest EXCEPT !.at = "decide", !.kind = "update",
                                    !.acct = a, !.ref = r, !.snap = accounts[a]]
  <2>1. Proceed(t, q) \/ Proceed(t, NoRequest)
    BY <1>3 DEF BeginUpdate
  <2>2. q.snap = accounts[a] /\ q.acct = a /\ q.at = "decide" /\ q.kind = "update"
    BY DEF NoRequest
  <2> HIDE DEF q
  <2>3. InStep(q, accounts)
    BY <2>2 DEF InStep
  <2> QED
    BY <1>2, <2>1, <2>3, NoRequestInStep
<1>4. ASSUME NEW a \in Accounts, NEW force \in BOOLEAN, BeginTick(t, a, force)
      PROVE  Keeps(t)
  <2> DEFINE q == [NoRequest EXCEPT !.at = "evaluate", !.kind = "tick",
                                    !.acct = a, !.force = force]
  <2>1. Proceed(t, q)
    BY <1>4 DEF BeginTick
  <2>2. q.at = "evaluate" /\ q.kind = "tick"
    BY DEF NoRequest
  <2> HIDE DEF q
  <2> QED
    BY <1>2, <2>1, <2>2, LightInStep
<1>5. CASE BeginTickAll(t) \/ \E v \in Valuations, trigger \in BOOLEAN : Publish(t, v, trigger)
  <2> DEFINE q(kind) == [NoRequest EXCEPT !.at = "fan_out", !.kind = kind]
             all == q("tick_all")
             some == q("market")
  <2>1. Proceed(t, all) \/ Proceed(t, some) \/ Proceed(t, NoRequest)
    BY <1>5 DEF BeginTickAll, Publish
  <2>2. /\ all.at = "fan_out" /\ all.kind = "tick_all"
        /\ some.at = "fan_out" /\ some.kind = "market"
    BY DEF NoRequest
  <2> HIDE DEF all, some
  <2>3. InStep(all, accounts) /\ InStep(some, accounts)
    BY <2>2, LightInStep
  <2> QED
    BY <1>2, <2>1, <2>3, NoRequestInStep
<1>6. ASSUME NEW a \in Accounts, NEW status \in Statuses, BeginStatus(t, a, status)
      PROVE  Keeps(t)
  <2> DEFINE draft == [accounts[a] EXCEPT !.status = status]
             q == [NoRequest EXCEPT !.at = "set_status", !.kind = "status",
                                    !.acct = a, !.snap = accounts[a], !.draft = draft]
  <2>1. Proceed(t, q) \/ Proceed(t, NoRequest)
    BY <1>6 DEF BeginStatus
  <2> HIDE DEF draft
  <2>2. /\ q.snap = accounts[a] /\ q.acct = a /\ q.draft = draft
        /\ q.at = "set_status" /\ q.kind = "status"
    BY DEF NoRequest
  <2> HIDE DEF q
  <2>3. InStep(q, accounts)
    BY <2>2 DEF InStep, draft
  <2> QED
    BY <1>2, <2>1, <2>3, NoRequestInStep
<1> QED
  BY <1>3, <1>4, <1>5, <1>6

LEMMA RemovalsKeep ==
  ASSUME Background, NEW t \in Threads,
         (\E a \in Accounts : Delete(t, a)) \/ RollBack(t)
  PROVE  Keeps(t)
<1>1. PICK a \in Accounts : Store(a, NoAccount)
  BY BackgroundFacts DEF Delete, RollBack
<1>2. Proceed(t, NoRequest) /\ UNCHANGED log
  BY DEF Delete, RollBack
<1>3. Book!Close(a)
  BY <1>1, StoredRecord DEF Book!Close, Book!Becomes, Background
<1> QED
  BY <1>1, <1>2, <1>3, ChangingStore, NoRequestInStep DEF Background, Succeeds, HonestLogStep

LEMMA DecideUpdateKeeps ==
  ASSUME Background, NEW t \in Threads, DecideUpdate(t)
  PROVE  Keeps(t)
<1> DEFINE r == req[t]
           draft == Posted(r.snap, r.ref)
           q == [r EXCEPT !.at = "post", !.draft = draft]
<1>1. /\ r \in Request /\ r.at = "decide" /\ InStep(r, accounts) /\ ~IsProcessed(r.snap, r.ref)
      /\ market \in Valuations
  BY BackgroundFacts DEF DecideUpdate, At, Ready, ServiceInv, TypeOK
<1>2. \/ Proceed(t, NoRequest)
      \/ Proceed(t, q) /\ ~IsRefused(r.snap, r.ref, market)
  BY DEF DecideUpdate
<1>3. UNCHANGED <<accounts, log>>
  BY DEF DecideUpdate
<1> HIDE DEF r, draft
<1>4. /\ q.at = "post" /\ q.acct = r.acct /\ q.ref = r.ref /\ q.snap = r.snap
      /\ q.kind = r.kind /\ q.draft = draft
  BY <1>1 DEF Request
<1> HIDE DEF q
<1>5. ~IsRefused(r.snap, r.ref, market) => InStep(q, accounts)
  BY <1>1, <1>4 DEF InStep, draft
<1> QED
  BY <1>2, <1>3, <1>5, KeepingStore, NoRequestInStep DEF HonestLogStep

LEMMA PostUpdateKeeps ==
  ASSUME Background, NEW t \in Threads, PostUpdate(t)
  PROVE  Keeps(t)
<1> DEFINE r == req[t]
           a == r.acct
           q == [r EXCEPT !.at = "record"]
<1>1. /\ r \in Request /\ r.at = "post" /\ InStep(r, accounts)
      /\ r.snap \in Account /\ r.draft \in Account
      /\ a \in Accounts /\ r.ref \in References
  BY BackgroundFacts DEF PostUpdate, At, Ready
<1>2. /\ Store(a, r.draft) /\ UNCHANGED log
      /\ Proceed(t, q) \/ Proceed(t, NoRequest)
  BY DEF PostUpdate
<1>3. /\ accounts[a] = r.snap /\ r.draft = Posted(r.snap, r.ref)
      /\ ~IsProcessed(r.snap, r.ref) /\ \E v \in Valuations : ~IsRefused(r.snap, r.ref, v)
      /\ r.kind # "register"
  BY <1>1 DEF InStep
<1>4. accounts'[a] = r.draft /\ accounts' = [accounts EXCEPT ![a] = r.draft]
  BY <1>1, <1>2, StoredRecord DEF Background
<1>5. Book!Post(a)
  <2> DEFINE record == accounts[a]
  <2>1. /\ record # NoAccount /\ ~Book!IsProcessed(record, r.ref)
        /\ \E v \in Valuations : ~Book!IsRefused(record, r.ref, v)
        /\ accounts' = [accounts EXCEPT ![a] = Book!Posted(record, r.ref)]
    BY <1>1, <1>3, <1>4, BookRecords, NoAccountAssumption
  <2> QED
    BY <1>1, <2>1 DEF Book!Post, Book!Becomes, Book!Stored
<1>6. /\ r.draft.serial = r.snap.serial
      /\ r.draft.applied = [r.snap.applied EXCEPT ![r.ref] = @ + 1]
  <2> DEFINE posted == Posted(r.snap, r.ref)
  <2>1. /\ posted.serial = r.snap.serial
        /\ posted.applied = [r.snap.applied EXCEPT ![r.ref] = @ + 1]
    BY <1>1, PostedHistory, PostedRecord
  <2>2. r.draft = posted
    BY <1>3
  <2> QED
    BY <2>1, <2>2
<1>7. r.snap.applied \in [References -> Nat]
  BY <1>1 DEF Account
<1>8. /\ \A s \in References : r.draft.applied[s] >= r.snap.applied[s]
      /\ r.draft.applied[r.ref] > 0
  BY <1>1, <1>6, <1>7
<1>9. Succeeds(accounts[a], r.draft)
  BY <1>1, <1>3, <1>6, <1>8, NoAccountAssumption DEF Succeeds
<1> HIDE DEF r
<1>10. /\ q.at = "record" /\ q.acct = a /\ q.ref = r.ref /\ q.draft = r.draft
       /\ q.kind = r.kind
  BY <1>1 DEF Request
<1> HIDE DEF q
<1>11. InStep(q, accounts')
  BY <1>3, <1>4, <1>8, <1>10 DEF InStep
<1> QED
  BY <1>1, <1>2, <1>5, <1>9, <1>11, ChangingStore, NoRequestInStep DEF Background, HonestLogStep

LEMMA RecordUpdateKeeps ==
  ASSUME Background, NEW t \in Threads, RecordUpdate(t)
  PROVE  Keeps(t)
<1> DEFINE r == req[t]
           q == [r EXCEPT !.at = "evaluate", !.snap = NoAccount, !.draft = NoAccount]
           event == Notice("loan_balance_updated", r.draft, r.ref)
<1>1. /\ r \in Request /\ r.at = "record" /\ InStep(r, accounts)
      /\ r.draft \in Account /\ r.draft \in Records /\ r.acct \in Accounts /\ r.ref \in References
  BY BackgroundFacts DEF RecordUpdate, At, Ready
<1>2. /\ EmitOnce(r.acct, event) /\ UNCHANGED accounts
      /\ Proceed(t, q) \/ Proceed(t, NoRequest)
  BY DEF RecordUpdate
<1>3. event \in Event
  BY <1>1, NoticeType DEF EventTypes
<1>4. /\ accounts[r.acct] = r.draft /\ r.draft.applied[r.ref] > 0
      /\ r.kind # "register"
  BY <1>1 DEF InStep
<1>5. r.draft.serial <= issued'
  <2>1. r.draft.serial \in Nat /\ r.draft.serial <= issued
    BY <1>1 DEF Background, SerialsIssued, Account
  <2> QED
    BY <2>1 DEF Background
<1>6. Honest(event, accounts'[r.acct], issued')
  BY <1>1, <1>2, <1>4, <1>5 DEF Honest, Notice
<1> HIDE DEF event
<1>7. HonestLogStep
  BY <1>1, <1>2, <1>3, <1>6, EmitOnceHonest
<1> HIDE DEF r
<1>8. q.at = "evaluate" /\ q.kind = r.kind
  BY <1>1 DEF Request
<1> HIDE DEF q
<1>9. InStep(q, accounts)
  BY <1>4, <1>8, LightInStep
<1> QED
  BY <1>2, <1>7, <1>9, KeepingStore, NoRequestInStep

(* Evaluations: the record is read as it is, and assessed at an instant     *)
(* that is not before its last accrual.                                     *)
LEMMA BeginEvaluateKeeps ==
  ASSUME Background, NEW t \in Threads, BeginEvaluate(t)
  PROVE  Keeps(t)
<1> DEFINE r == req[t]
           a == r.acct
           q == [r EXCEPT !.at = "assess", !.snap = accounts[a]]
<1>1. r \in Request /\ r.at = "evaluate" /\ InStep(r, accounts)
  BY BackgroundFacts DEF BeginEvaluate, At
<1>2. /\ (Stored(a) /\ Proceed(t, q)) \/ Finish(t, FALSE)
      /\ UNCHANGED <<accounts, log>>
  BY DEF BeginEvaluate
<1>3. Finish(t, FALSE) => \E p : Proceed(t, p) /\ InStep(p, accounts)
  BY BackgroundFacts, FinishInStep
<1> HIDE DEF r
<1>4. /\ q.at = "assess" /\ q.acct = a /\ q.snap = accounts[a] /\ q.kind = r.kind
      /\ q.todo = r.todo
  BY <1>1 DEF Request
<1> HIDE DEF q
<1>5. InStep(q, accounts)
  BY <1>1, <1>4 DEF InStep
<1> QED
  BY <1>2, <1>3, <1>5, KeepingStore DEF HonestLogStep

LEMMA AssessKeeps ==
  ASSUME Background, NEW t \in Threads, Assess(t)
  PROVE  Keeps(t)
<1> DEFINE r == req[t]
           initial == Initial(t)
           draft == Assessed(r.snap, market, now, initial)
           q == [r EXCEPT !.at = "save", !.draft = draft]
           event == Notice("monitoring_error", r.snap, "none")
<1>1. /\ r \in Request /\ r.at = "assess" /\ InStep(r, accounts)
      /\ r.snap \in Account /\ r.snap \in Records /\ r.acct \in Accounts
  BY BackgroundFacts DEF Assess, At, Ready
<1>2. /\ \/ Proceed(t, q) /\ UNCHANGED log
         \/ EmitOnce(r.acct, event) /\ Finish(t, FALSE)
      /\ UNCHANGED accounts
  BY DEF Assess
<1>3. /\ market \in Valuations /\ now \in 0..MaxTime /\ initial \in BOOLEAN
      /\ now >= r.snap.accruedTo
  <2>1. ClockRuns(r.snap, now) /\ r.snap.accruedTo \in Nat
    BY <1>1 DEF Background, ClocksRun, Account
  <2>2. market \in Valuations /\ now \in 0..MaxTime /\ now \in Nat
    BY BoundsAssumption DEF Background, ServiceInv, TypeOK
  <2> QED
    BY <2>1, <2>2 DEF ClockRuns, Initial
<1>4. HonestLogStep
  <2>1. Honest(event, accounts'[r.acct], issued')
    BY <1>1, NoticeHonest DEF EventTypes, Background
  <2>2. event \in Event
    BY <1>1, NoticeType DEF EventTypes
  <2> HIDE DEF event
  <2>3. EmitOnce(r.acct, event) => HonestLogStep
    BY <1>1, <2>1, <2>2, EmitOnceHonest
  <2> QED
    BY <1>2, <2>3 DEF HonestLogStep
<1>5. Finish(t, FALSE) => \E p : Proceed(t, p) /\ InStep(p, accounts)
  BY BackgroundFacts, FinishInStep
<1>6. initial => r.kind = "register"
  BY DEF Initial
<1> HIDE DEF r, draft, initial, event
<1>7. /\ q.at = "save" /\ q.acct = r.acct /\ q.snap = r.snap /\ q.draft = draft
      /\ q.kind = r.kind /\ q.todo = r.todo
  BY <1>1 DEF Request
<1> HIDE DEF q
<1>8. r.snap = accounts[r.acct] /\ (initial => r.snap.last = "none")
  BY <1>1, <1>6, NoAccountAssumption DEF InStep
<1>9. InStep(q, accounts)
  BY <1>1, <1>3, <1>7, <1>8 DEF InStep, draft
<1> QED
  BY <1>2, <1>4, <1>5, <1>9, KeepingStore

LEMMA SaveAssessmentKeeps ==
  ASSUME Background, NEW t \in Threads, SaveAssessment(t)
  PROVE  Keeps(t)
<1> DEFINE r == req[t]
           a == r.acct
           q == [r EXCEPT !.at = "notify"]
           event == Notice("monitoring_error", r.snap, "none")
<1>1. /\ r \in Request /\ r.at = "save" /\ InStep(r, accounts)
      /\ r.snap \in Account /\ r.snap \in Records /\ r.draft \in Account /\ a \in Accounts
  BY BackgroundFacts DEF SaveAssessment, At, Ready
<1>2. /\ Store(a, r.draft)
      /\ \/ Proceed(t, q) /\ UNCHANGED log
         \/ EmitOnce(a, event) /\ Finish(t, FALSE)
  BY DEF SaveAssessment
<1>3. HonestLogStep
  <2>1. Honest(event, accounts'[a], issued')
    BY <1>1, NoticeHonest DEF EventTypes, Background
  <2>2. event \in Event
    BY <1>1, NoticeType DEF EventTypes
  <2> HIDE DEF event
  <2>3. EmitOnce(a, event) => HonestLogStep
    BY <1>1, <2>1, <2>2, EmitOnceHonest
  <2> QED
    BY <1>2, <2>3 DEF HonestLogStep
<1>4. Finish(t, FALSE) => \E p : Proceed(t, p) /\ InStep(p, accounts')
  BY BackgroundFacts, FinishInStep
<1>5. PICK v \in Valuations, at \in 0..MaxTime, initial \in BOOLEAN :
        /\ at >= r.snap.accruedTo /\ (initial => r.snap.last = "none")
        /\ r.draft = Assessed(r.snap, v, at, initial)
        /\ accounts[a] = r.snap
  BY <1>1 DEF InStep
<1>6. accounts'[a] = r.draft /\ accounts' = [accounts EXCEPT ![a] = r.draft]
  BY <1>1, <1>2, StoredRecord DEF Background
<1>7. Book!Reassess(a)
  <2> DEFINE record == accounts[a]
  <2>1. /\ record # NoAccount /\ at >= record.accruedTo /\ (initial => record.last = "none")
        /\ accounts' = [accounts EXCEPT ![a] = Book!Assessed(record, v, at, initial)]
    BY <1>1, <1>5, <1>6, BookRecords, NoAccountAssumption
  <2> QED
    BY <1>1, <2>1 DEF Book!Reassess, Book!Becomes, Book!Stored
<1>8. r.draft.serial = r.snap.serial /\ r.draft.applied = r.snap.applied
  <2> DEFINE assessed == Assessed(r.snap, v, at, initial)
  <2>1. assessed.serial = r.snap.serial /\ assessed.applied = r.snap.applied
    BY <1>1, AssessedHistory, AssessedRecord, BoundsAssumption
  <2>2. r.draft = assessed
    BY <1>5
  <2> QED
    BY <2>1, <2>2
<1>9. r.snap.applied \in [References -> Nat]
  BY <1>1 DEF Account
<1>10. Succeeds(accounts[a], r.draft)
  BY <1>1, <1>5, <1>8, <1>9, NoAccountAssumption DEF Succeeds
<1>11. r.kind = "register" => r.todo = {}
  BY BackgroundFacts
<1> HIDE DEF r
<1>12. q.at = "notify" /\ q.kind = r.kind /\ q.todo = r.todo
  BY <1>1 DEF Request
<1> HIDE DEF q
<1>13. InStep(q, accounts')
  BY <1>11, <1>12 DEF InStep
<1> QED
  BY <1>1, <1>2, <1>3, <1>4, <1>7, <1>10, <1>13, ChangingStore DEF Background

(* No event of an assessment reports an update.                             *)
LEMMA AssessmentEventsHonest ==
  ASSUME Background, NEW snap \in Account, NEW draft \in Records, NEW forced, NEW record,
         NEW i \in 1..Len(AssessmentEvents(snap, draft, forced))
  PROVE  Honest(AssessmentEvents(snap, draft, forced)[i], record, issued')
<1> DEFINE OfDraft == {e \in Event : Honest(e, record, issued')}
<1>1. draft \in Account
  BY DEF Records
<1>2. ASSUME NEW condition, NEW type \in EventTypes \ {"loan_balance_updated"}
      PROVE  When(condition, Notice(type, draft, "none")) \in Seq(OfDraft)
  <2>1. Notice(type, draft, "none") \in OfDraft
    BY <1>1, NoticeType, NoticeHonest DEF Background
  <2> HIDE DEF OfDraft
  <2> QED
    BY <2>1 DEF When
<1>3. {"monitoring_tick_completed", "risk_state_changed", "margin_call_triggered",
       "liquidation_triggered"} \subseteq EventTypes \ {"loan_balance_updated"}
  BY DEF EventTypes
<1> HIDE DEF OfDraft
<1>4. /\ When(forced, Notice("monitoring_tick_completed", draft, "none")) \in Seq(OfDraft)
      /\ When(snap.last # "none" /\ snap.last # draft.last,
              Notice("risk_state_changed", draft, "none")) \in Seq(OfDraft)
      /\ When(snap.last # "margin_call" /\ draft.last = "margin_call",
              Notice("margin_call_triggered", draft, "none")) \in Seq(OfDraft)
      /\ When(snap.last # "liquidation" /\ draft.last = "liquidation",
              Notice("liquidation_triggered", draft, "none")) \in Seq(OfDraft)
  BY <1>2, <1>3
<1>5. AssessmentEvents(snap, draft, forced) \in Seq(OfDraft)
  BY <1>4, ConcatProperties DEF AssessmentEvents
<1>6. AssessmentEvents(snap, draft, forced)[i] \in OfDraft
  BY <1>5, ElementOfSeq
<1> QED
  BY <1>6 DEF OfDraft

LEMMA NotifyKeeps ==
  ASSUME Background, NEW t \in Threads, Notify(t)
  PROVE  Keeps(t)
<1> DEFINE r == req[t]
           events == AssessmentEvents(r.snap, r.draft, r.kind # "tick_all")
           event == Notice("monitoring_error", r.snap, "none")
<1>1. /\ r.snap \in Account /\ r.draft \in Account /\ r.acct \in Accounts
      /\ r.snap \in Records /\ r.draft \in Records
  BY BackgroundFacts DEF Notify, At, Ready
<1>2. events \in Seq(Event) /\ event \in Event
  BY <1>1, AssessmentEventsType, NoticeType DEF EventTypes
<1>3. \A i \in 1..Len(events) : Honest(events[i], accounts'[r.acct], issued')
  BY <1>1, AssessmentEventsHonest
<1>4. Honest(event, accounts'[r.acct], issued')
  BY <1>1, NoticeHonest DEF EventTypes, Background
<1>5. /\ \/ Emit(r.acct, events) /\ Finish(t, TRUE)
         \/ /\ \E n \in 1..Len(events) : Emit(r.acct, Append(SubSeq(events, 1, n), event))
            /\ Finish(t, FALSE)
      /\ UNCHANGED accounts
  BY DEF Notify
<1>6. \A s \in BOOLEAN : Finish(t, s) => \E p : Proceed(t, p) /\ InStep(p, accounts)
  BY BackgroundFacts, FinishInStep
<1> HIDE DEF events, event, r
<1>7. ASSUME NEW n \in 1..Len(events)
      PROVE  LET some == Append(SubSeq(events, 1, n), event)
             IN  /\ some \in Seq(Event)
                 /\ \A i \in 1..Len(some) : Honest(some[i], accounts'[r.acct], issued')
  <2> DEFINE first == SubSeq(events, 1, n)
  <2>1. /\ first \in Seq(Event) /\ Len(first) = n
        /\ \A i \in 1..n : first[i] = events[i]
    BY <1>2, ElementOfSeq, SubSeqProperties, LenProperties
  <2> HIDE DEF first
  <2>2. /\ Append(first, event) \in Seq(Event) /\ Len(Append(first, event)) = n + 1
        /\ \A i \in 1..n : Append(first, event)[i] = events[i]
        /\ Append(first, event)[n + 1] = event
    BY <1>2, <2>1, AppendProperties
  <2>3. n \in Nat /\ n <= Len(events) /\ Len(events) \in Nat
    BY <1>2, LenProperties
  <2>4. \A i \in 1..(n + 1) : Honest(Append(first, event)[i], accounts'[r.acct], issued')
    BY <1>3, <1>4, <2>2, <2>3
  <2> QED
    BY <2>2, <2>4 DEF first
<1>8. HonestLogStep
  BY <1>1, <1>2, <1>3, <1>5, <1>7 DEF HonestLogStep
<1> QED
  BY <1>5, <1>6, <1>8, KeepingStore

LEMMA SaveStatusKeeps ==
  ASSUME Background, NEW t \in Threads, SaveStatus(t)
  PROVE  Keeps(t)
<1> DEFINE r == req[t]
           a == r.acct
<1>1. /\ r.at = "set_status" /\ InStep(r, accounts)
      /\ r.snap \in Account /\ r.draft \in Account /\ a \in Accounts
  BY BackgroundFacts DEF SaveStatus, At, Ready
<1>2. Store(a, r.draft) /\ Proceed(t, NoRequest) /\ UNCHANGED log
  BY DEF SaveStatus
<1>3. PICK status \in Statuses : r.draft = [accounts[a] EXCEPT !.status = status]
  BY <1>1 DEF InStep
<1>4. accounts[a] = r.snap
  BY <1>1 DEF InStep
<1>5. accounts' = [accounts EXCEPT ![a] = r.draft]
  BY <1>1, <1>2, StoredRecord DEF Background
<1>6. Book!SetStatus(a)
  BY <1>1, <1>3, <1>4, <1>5, BookRecords, NoAccountAssumption
     DEF Book!SetStatus, Book!Becomes, Book!Stored
<1>7. r.draft.serial = r.snap.serial /\ r.draft.applied = r.snap.applied
  BY <1>1, <1>3, <1>4 DEF Account
<1>8. r.snap.applied \in [References -> Nat]
  BY <1>1 DEF Account
<1>9. Succeeds(accounts[a], r.draft)
  BY <1>1, <1>4, <1>7, <1>8, NoAccountAssumption DEF Succeeds
<1> QED
  BY <1>1, <1>2, <1>6, <1>9, ChangingStore, NoRequestInStep DEF Background, HonestLogStep

LEMMA FanOutKeeps ==
  ASSUME Background, NEW t \in Threads, FanOut(t)
  PROVE  Keeps(t)
<1> DEFINE r == req[t]
           listed == {a \in Accounts : /\ Stored(a)
                                       /\ r.kind = "market" \/ accounts[a].status = "active"}
           rest(a) == listed \ {a}
           q(a) == [r EXCEPT !.at = "evaluate", !.acct = a, !.todo = rest(a)]
<1>1. r \in Request /\ r.kind # "register"
  BY BackgroundFacts DEF FanOut, At, InStep
<1>2. /\ Proceed(t, NoRequest) \/ \E a \in listed : Proceed(t, q(a))
      /\ UNCHANGED <<accounts, log>>
  BY DEF FanOut
<1>3. ASSUME NEW a \in listed
      PROVE  InStep(q(a), accounts)
  <2> DEFINE todo == rest(a)
             going == [r EXCEPT !.at = "evaluate", !.acct = a, !.todo = todo]
  <2> HIDE DEF todo, r
  <2>1. going.at = "evaluate" /\ going.kind = r.kind
    BY <1>1 DEF Request
  <2> HIDE DEF going
  <2>2. InStep(going, accounts)
    BY <1>1, <2>1, LightInStep
  <2> QED
    BY <2>2 DEF going, todo
<1> HIDE DEF listed, q
<1> QED
  BY <1>2, <1>3, KeepingStore, NoRequestInStep DEF HonestLogStep

LEMMA StepKeeps ==
  ASSUME ServiceInv, ClocksRun, SerialsIssued, OneAtATime, Next
  PROVE  (\E t \in Threads : Keeps(t)) \/ UNCHANGED <<accounts, log, req, issued>>
<1>1. Shape
  BY StepShape
<1>2. Background
  BY <1>1, BoundsAssumption DEF Background, Shape, EnvironmentStep, ServiceInv, TypeOK
<1>3. ASSUME NEW t \in Threads, Handler(t)
      PROVE  Keeps(t)
  BY <1>2, <1>3, RegisterKeeps, BeginningsKeep, RemovalsKeep DEF Handler
<1>4. ASSUME NEW t \in Threads, Continue(t)
      PROVE  Keeps(t)
  BY <1>2, <1>4, DecideUpdateKeeps, PostUpdateKeeps, RecordUpdateKeeps, BeginEvaluateKeeps,
     AssessKeeps, SaveAssessmentKeeps, NotifyKeeps, RemovalsKeep, SaveStatusKeeps, FanOutKeeps
     DEF Continue
<1>5. Advance \/ Done => UNCHANGED <<accounts, log, req, issued>>
  BY DEF Advance, Done, vars
<1> QED
  BY <1>3, <1>4, <1>5 DEF Next

OneClientInv ==
  ServiceInv /\ ClocksRun /\ SerialsIssued /\ OneAtATime /\ LogHonest

LEMMA OneClientInvariant ==
  ASSUME OneClient
  PROVE  Spec => []OneClientInv
<1>1. Init => OneClientInv
  <2> SUFFICES ASSUME Init
               PROVE  SerialsIssued /\ OneAtATime /\ LogHonest
    BY InitServiceInv, InitClocksRun DEF OneClientInv
  <2>1. SerialsIssued
    BY NoAccountAssumption, NoRequestType DEF Init, SerialsIssued, Records, Copies
  <2>2. OneAtATime
    BY NoRequestInStep DEF Init, OneAtATime
  <2>3. LogHonest
    BY DEF Init, LogHonest
  <2> QED
    BY <2>1, <2>2, <2>3
<1>2. OneClientInv /\ [Next]_vars => OneClientInv'
  <2> SUFFICES ASSUME OneClientInv, [Next]_vars
               PROVE  OneAtATime' /\ LogHonest'
    BY NextServiceInv, NextClocksRun, NextSerialsIssued DEF OneClientInv
  <2>1. ServiceInv' /\ issued \in Nat /\ issued' \in Nat /\ issued <= issued'
    <3>1. Shape
      BY StepShape DEF OneClientInv
    <3>2. ServiceInv'
      BY NextServiceInv DEF OneClientInv
    <3>3. issued \in Nat /\ issued' \in Nat
      BY <3>2, BoundsAssumption DEF OneClientInv, ServiceInv, TypeOK
    <3> QED
      BY <3>1, <3>2, <3>3 DEF Shape, EnvironmentStep
  <2>2. CASE UNCHANGED <<accounts, log, req, issued>>
    BY <2>2 DEF OneClientInv, OneAtATime, LogHonest
  <2>3. ASSUME NEW t \in Threads, Keeps(t)
        PROVE  OneAtATime' /\ LogHonest'
    <3>1. PICK q : Proceed(t, q) /\ InStep(q, accounts')
      BY <2>3 DEF Keeps
    <3>2. req'[t] = q
      BY <3>1 DEF Proceed, OneClientInv, ServiceInv, TypeOK
    <3>3. OneAtATime'
      BY <3>1, <3>2 DEF OneAtATime, OneClient
    <3>4. LogHonest'
      BY <2>1, <2>3, NextLogHonest DEF OneClientInv
    <3> QED
      BY <3>3, <3>4
  <2> QED
    BY <2>2, <2>3, StepKeeps DEF OneClientInv, vars
<1> QED
  BY <1>1, <1>2, PTL DEF Spec

(***************************************************************************)
(* Served one request at a time, the store is the book: however requests   *)
(* fail between two of their steps, an account is taken from its current   *)
(* record to the next by one whole operation.                              *)
(***************************************************************************)
THEOREM OneClientImplementsBook ==
  ASSUME OneClient
  PROVE  Spec => BookSpec
<1>1. Init => Book!Init
  BY DEF Init, Book!Init
<1>2. OneClientInv /\ [Next]_vars => [Book!Next]_accounts
  BY StepKeeps DEF OneClientInv, Keeps, vars
<1>3. Spec => []OneClientInv
  BY OneClientInvariant
<1> QED
  BY <1>1, <1>2, <1>3, PTL DEF Spec, BookSpec, Book!Spec

(***************************************************************************)
(* A client that waits for each answer and is told of a balance change     *)
(* finds it in the obligation, audit failures included.                    *)
(***************************************************************************)
THEOREM RecordedUpdatesAreApplied ==
  ASSUME OneClient
  PROVE  Spec => []RecordedUpdateIsApplied
<1>1. OneClientInv => RecordedUpdateIsApplied
  BY DEF OneClientInv, LogHonest, Honest, RecordedUpdateIsApplied, Stored
<1> QED
  BY <1>1, OneClientInvariant, PTL

(***************************************************************************)
(* The alerts among some events, in their order.  Alerts is a recursive    *)
(* function of the position in the log: appending an event leaves what     *)
(* was told before as it was and adds the event's state if it is an alert. *)
(***************************************************************************)
IsAlert(e) == e.type \in {"margin_call_triggered", "liquidation_triggered"}

AfterEvent(states, e) == IF IsAlert(e) THEN Append(states, e.state) ELSE states

States == Seq(MarginStates \cup {"none"})

LEMMA AfterEventTyped ==
  ASSUME NEW states \in States, NEW e \in Event
  PROVE  AfterEvent(states, e) \in States
<1>1. e.state \in MarginStates \cup {"none"}
  BY DEF Event
<1>. QED BY <1>1, AppendProperties DEF AfterEvent, States

LEMMA AlertsRecursion ==
  ASSUME NEW events \in Seq(Event)
  PROVE  \E told :
           /\ Alerts(events) = told[Len(events)]
           /\ told[0] = <<>>
           /\ \A n \in 0..Len(events) : told[n] \in States
           /\ \A n \in 1..Len(events) : told[n] = AfterEvent(told[n - 1], events[n])
<1> DEFINE N == Len(events)
           After(n, s) == IF events[n].type \in {"margin_call_triggered", "liquidation_triggered"}
                          THEN Append(s, events[n].state) ELSE s
           IsTold(f) == f = [n \in 0..N |-> IF n = 0 THEN <<>> ELSE After(n, f[n - 1])]
           told == CHOOSE f : IsTold(f)
           Telling(n) == [s \in States |-> AfterEvent(s, events[n])]
           step == [n \in 1..N |-> Telling(n)]
<1>0. \A n, s : After(n, s) = AfterEvent(s, events[n])
  BY DEF AfterEvent, IsAlert
<1>1. Alerts(events) = told[N]
  BY DEF Alerts
<1>2. N \in Nat /\ \A n \in 1..N : events[n] \in Event
  BY LenProperties, ElementOfSeq
<1>3. <<>> \in States
  BY EmptySeq DEF States
<1>4. ASSUME NEW n \in 1..N
      PROVE  /\ Telling(n) \in [States -> States]
             /\ \A s \in States : Telling(n)[s] = AfterEvent(s, events[n])
  <2>1. \A s \in States : AfterEvent(s, events[n]) \in States
    BY <1>2, AfterEventTyped
  <2>. QED BY <2>1
<1> HIDE DEF Telling, After
<1>5. \A n \in 1..N : step[n] = Telling(n)
  OBVIOUS
<1>6. Steps(step, N, States)
  BY <1>4 DEF Steps
<1> HIDE DEF step
<1>7. PICK f \in [0..N -> States] : Follows(f, N, <<>>, step)
  BY ONLY <1>2, <1>3, <1>6, RecursionExists
<1>8. IsTold(f)
  <2>1. \A n \in 1..N : f[n] = After(n, f[n - 1])
    <3> TAKE n \in 1..N
    <3>1. f[n - 1] \in States
      BY <1>7
    <3>. QED BY <1>0, <3>1, <1>4, <1>5, <1>7 DEF Follows
  <2>. QED BY <2>1, <1>7 DEF Follows
<1>9. IsTold(told)
  BY <1>8
<1> HIDE DEF told
<1>10. told[0] = <<>> /\ \A n \in 1..N : told[n] = AfterEvent(told[n - 1], events[n])
  BY <1>0, <1>2, <1>9
<1>11. \A n \in 0..N : told[n] \in States
  <2>1. \A n \in 1..N : told[n - 1] \in States => told[n] = step[n][told[n - 1]]
    BY <1>4, <1>5, <1>10
  <2>2. told[0] \in States
    BY <1>3, <1>10
  <2>. QED BY ONLY <1>2, <1>6, <2>1, <2>2, RecursionTyped
<1>. QED BY <1>1, <1>10, <1>11

LEMMA AlertsEmpty == Alerts(<<>>) = <<>>
<1>1. <<>> \in Seq(Event) /\ Len(<<>>) = 0
  BY EmptySeq
<1>. QED BY <1>1, AlertsRecursion

LEMMA AlertsAppend ==
  ASSUME NEW s \in Seq(Event), NEW e \in Event
  PROVE  Alerts(Append(s, e)) = AfterEvent(Alerts(s), e)
<1> DEFINE t == Append(s, e)
           N == Len(s)
<1>1. /\ t \in Seq(Event) /\ Len(t) = N + 1 /\ N \in Nat
      /\ \A n \in 1..N : t[n] = s[n]
      /\ t[N + 1] = e
  BY AppendProperties, LenProperties
<1> HIDE DEF t, N
<1>2. PICK u : /\ Alerts(s) = u[N] /\ u[0] = <<>>
               /\ \A n \in 1..N : u[n] = AfterEvent(u[n - 1], s[n])
  BY AlertsRecursion DEF N
<1>3. PICK v : /\ Alerts(t) = v[N + 1] /\ v[0] = <<>>
               /\ \A n \in 1..(N + 1) : v[n] = AfterEvent(v[n - 1], t[n])
  <2>1. \E v : /\ Alerts(t) = v[Len(t)] /\ v[0] = <<>>
               /\ \A n \in 1..Len(t) : v[n] = AfterEvent(v[n - 1], t[n])
    BY <1>1, AlertsRecursion
  <2>. QED BY <2>1, <1>1
<1> DEFINE Same == {n \in 0..N : u[n] = v[n]}
<1>4. 0 \in Same
  BY <1>1, <1>2, <1>3
<1>5. ASSUME NEW n \in 0..(N - 1), n \in Same
      PROVE  n + 1 \in Same
  <2>1. n + 1 \in 1..N /\ (n + 1) - 1 = n
    BY <1>1
  <2>2. u[n + 1] = AfterEvent(u[n], s[n + 1]) /\ v[n + 1] = AfterEvent(v[n], t[n + 1])
        /\ t[n + 1] = s[n + 1]
    BY <2>1, <1>1, <1>2, <1>3
  <2>. QED BY <2>1, <2>2, <1>5
<1> HIDE DEF Same
<1>6. 0..N \subseteq Same
  BY <1>1, <1>4, <1>5, PrefixInduction
<1>7. u[N] = v[N]
  BY <1>1, <1>6 DEF Same
<1>8. v[N + 1] = AfterEvent(v[N], e)
  BY <1>1, <1>3
<1>. QED BY <1>2, <1>3, <1>7, <1>8 DEF t

(* An event that is no alert tells of no state.                              *)
LEMMA NoAlertAppended ==
  ASSUME NEW s \in Seq(Event), NEW e \in Event, ~IsAlert(e)
  PROVE  Alerts(s \o <<e>>) = Alerts(s)
<1>1. s \o <<e>> = Append(s, e)
  OBVIOUS
<1>. QED BY <1>1, AlertsAppend DEF AfterEvent

(* The alarm a request has stored and not yet published.                     *)
Owing(q) ==
  /\ q.at = "notify"
  /\ q.draft.last \in AlarmStates
  /\ q.draft.last # q.snap.last

Owes(q, a) == q.acct = a /\ Owing(q)

AlarmsAccountedFor ==
  \A a \in Accounts :
    /\ (\A t \in Threads : ~Owes(req[t], a)) => entered[a] = Alerts(log[a])
    /\ \A t \in Threads :
         Owes(req[t], a) => entered[a] = Append(Alerts(log[a]), req[t].draft.last)

LEMMA NothingOwed ==
  ASSUME ServiceInv, OneClient, AlarmsAccountedFor, NEW t \in Threads, ~Owing(req[t])
  PROVE  \A a \in Accounts : entered[a] = Alerts(log[a])
BY DEF AlarmsAccountedFor, OneClient, Owes

LEMMA OneMovesOn ==
  ASSUME ServiceInv, OneClient, NEW t \in Threads, NEW q, Proceed(t, q)
  PROVE  \A u \in Threads : u = t /\ req'[u] = q
BY DEF ServiceInv, TypeOK, Proceed, OneClient

LEMMA NonAlert ==
  ASSUME ServiceInv, NEW a \in Accounts, NEW e \in Event, ~IsAlert(e), EmitOnce(a, e)
  PROVE  \A b \in Accounts : Alerts(log'[b]) = Alerts(log[b])
<1>1. log \in [Accounts -> Seq(Event)]
  BY DEF ServiceInv, TypeOK
<1>2. UNCHANGED log \/ log' = [log EXCEPT ![a] = @ \o <<e>>]
  BY DEF EmitOnce, Emit
<1>3. \A b \in Accounts : log'[b] = log[b] \/ (b = a /\ log'[b] = log[a] \o <<e>>)
  BY <1>1, <1>2
<1>4. Alerts(log[a] \o <<e>>) = Alerts(log[a])
  BY <1>1, NoAlertAppended
<1>. QED BY <1>3, <1>4

(* Steps that store no alarm and publish none.                               *)
LEMMA QuietStep ==
  ASSUME ServiceInv, OneClient, AlarmsAccountedFor, NEW t \in Threads, ~Owing(req[t]),
         NEW q, Proceed(t, q), ~Owing(q), UNCHANGED entered,
         \A a \in Accounts : Alerts(log'[a]) = Alerts(log[a])
  PROVE  AlarmsAccountedFor'
<1>1. \A a \in Accounts : entered'[a] = Alerts(log'[a])
  BY NothingOwed
<1>2. \A u \in Threads : req'[u] = q
  BY OneMovesOn
<1>. QED BY <1>1, <1>2 DEF AlarmsAccountedFor, Owes

LEMMA FinishOwesNothing ==
  ASSUME ServiceInv, NEW t \in Threads, NEW succeeded, Finish(t, succeeded)
  PROVE  \E q : Proceed(t, q) /\ ~Owing(q)
<1> DEFINE left == [req[t] EXCEPT !.snap = NoAccount, !.draft = NoAccount]
           back == [left EXCEPT !.at = "rollback"]
           on(a) == [left EXCEPT !.at = "evaluate", !.acct = a, !.todo = @ \ {a}]
<1>1. req[t] \in Request
  BY RequestTypes
<1>2. back.at = "rollback" /\ \A a : on(a).at = "evaluate"
  BY <1>1 DEF Request
<1>3. NoRequest.at = "idle"
  BY DEF NoRequest
<1>4. Proceed(t, back) \/ Proceed(t, NoRequest) \/ \E a : Proceed(t, on(a))
  BY DEF Finish
<1> HIDE DEF back, on
<1>5. ~Owing(back) /\ ~Owing(NoRequest) /\ \A a : ~Owing(on(a))
  BY <1>2, <1>3 DEF Owing
<1>. QED BY <1>4, <1>5

LEMMA NoticeIsNoAlert ==
  ASSUME NEW record \in Account, NEW ref \in References \cup {"none"},
         NEW type \in {"monitoring_error", "loan_balance_updated",
                       "monitoring_tick_completed", "risk_state_changed"}
  PROVE  Notice(type, record, ref) \in Event /\ ~IsAlert(Notice(type, record, ref))
<1>1. Notice(type, record, ref) \in Event
  BY NoticeType DEF EventTypes
<1>. QED BY <1>1 DEF Notice, IsAlert

(* A record with the margin state of the one it replaces enters no alarm.    *)
LEMMA SameLastEntersNothing ==
  ASSUME NEW a, NEW record, Store(a, record),
         LastOf(record) = "none" \/ LastOf(record) = LastOf(accounts[a])
  PROVE  UNCHANGED entered
BY DEF Store, AlarmStates

(* The requests that evaluate one account after another, and whether such a  *)
(* request is past its first step.                                           *)
Batches == {"market", "tick_all"}

Working(q) == q.kind \in Batches /\ q.at \notin {"idle", "fan_out"}

(* A handler begins no evaluation of a batch.                                *)
LEMMA HandlerBegins ==
  ASSUME NEW t \in Threads, Handler(t)
  PROVE  \E q : /\ Proceed(t, q)
                /\ q.at \in {"idle", "evaluate", "decide", "fan_out", "set_status"}
                /\ ~Working(q)
<1>1. NoRequest.at = "idle" /\ ~Working(NoRequest)
  BY DEF NoRequest, Working
<1>2. ASSUME NEW q, Proceed(t, q) \/ Proceed(t, NoRequest),
             q.at \in {"evaluate", "decide", "fan_out", "set_status"},
             q.kind \notin Batches \/ q.at = "fan_out"
      PROVE  \E p : /\ Proceed(t, p)
                    /\ p.at \in {"idle", "evaluate", "decide", "fan_out", "set_status"}
                    /\ ~Working(p)
  BY <1>1, <1>2 DEF Working
<1>3. CASE \E a \in Accounts : Register(t, a)
  <2>1. PICK a \in Accounts : Register(t, a)
    BY <1>3
  <2> DEFINE q == [NoRequest EXCEPT !.at = "evaluate", !.kind = "register",
                                    !.acct = a, !.force = TRUE, !.found = Stored(a)]
  <2>2. Proceed(t, q) \/ Proceed(t, NoRequest)
    BY <2>1 DEF Register
  <2>3. q.at = "evaluate" /\ q.kind \notin Batches
    BY DEF NoRequest, Batches
  <2> HIDE DEF q
  <2>. QED BY <1>2, <2>2, <2>3
<1>4. CASE \E a \in Accounts, r \in References : BeginUpdate(t, a, r)
  <2>1. PICK a \in Accounts, r \in References : BeginUpdate(t, a, r)
    BY <1>4
  <2> DEFINE q == [NoRequest EXCEPT !.at = "decide", !.kind = "update",
                                    !.acct = a, !.ref = r, !.snap = accounts[a]]
  <2>2. Proceed(t, q) \/ Proceed(t, NoRequest)
    BY <2>1 DEF BeginUpdate
  <2>3. q.at = "decide" /\ q.kind \notin Batches
    BY DEF NoRequest, Batches
  <2> HIDE DEF q
  <2>. QED BY <1>2, <2>2, <2>3
<1>5. CASE \E a \in Accounts, force \in BOOLEAN : BeginTick(t, a, force)
  <2>1. PICK a \in Accounts, force \in BOOLEAN : BeginTick(t, a, force)
    BY <1>5
  <2> DEFINE q == [NoRequest EXCEPT !.at = "evaluate", !.kind = "tick",
                                    !.acct = a, !.force = force]
  <2>2. Proceed(t, q)
    BY <2>1 DEF BeginTick
  <2>3. q.at = "evaluate" /\ q.kind \notin Batches
    BY DEF NoRequest, Batches
  <2> HIDE DEF q
  <2>. QED BY <1>2, <2>2, <2>3
<1>6. CASE BeginTickAll(t) \/ \E v \in Valuations, trigger \in BOOLEAN : Publish(t, v, trigger)
  <2> DEFINE q(kind) == [NoRequest EXCEPT !.at = "fan_out", !.kind = kind]
  <2>1. Proceed(t, q("tick_all")) \/ Proceed(t, q("market")) \/ Proceed(t, NoRequest)
    BY <1>6 DEF BeginTickAll, Publish
  <2>2. \A kind : q(kind).at = "fan_out"
    BY DEF NoRequest
  <2> HIDE DEF q
  <2>. QED BY <1>2, <2>1, <2>2
<1>7. CASE \E a \in Accounts, status \in Statuses : BeginStatus(t, a, status)
  <2>1. PICK a \in Accounts, status \in Statuses : BeginStatus(t, a, status)
    BY <1>7
  <2> DEFINE draft == [accounts[a] EXCEPT !.status = status]
             q == [NoRequest EXCEPT !.at = "set_status", !.kind = "status",
                                    !.acct = a, !.snap = accounts[a], !.draft = draft]
  <2>2. Proceed(t, q) \/ Proceed(t, NoRequest)
    BY <2>1 DEF BeginStatus
  <2> HIDE DEF draft
  <2>3. q.at = "set_status" /\ q.kind \notin Batches
    BY DEF NoRequest, Batches
  <2> HIDE DEF q
  <2>. QED BY <1>2, <2>2, <2>3
<1>8. CASE \E a \in Accounts : Delete(t, a)
  BY <1>1, <1>8 DEF Delete
<1>. QED BY <1>3, <1>4, <1>5, <1>6, <1>7, <1>8 DEF Handler

LEMMA HandlersAnnounce ==
  ASSUME Background, OneClient, AlarmsAccountedFor, NEW t \in Threads, Handler(t)
  PROVE  AlarmsAccountedFor'
<1>1. /\ req[t].at = "idle" /\ ServiceInv
      /\ UNCHANGED log
  BY DEF Background, Handler, Register, BeginUpdate, BeginTick, BeginTickAll, Publish,
         BeginStatus, Delete, Accept, At
<1>2. ~Owing(req[t])
  BY <1>1 DEF Owing
<1>3. UNCHANGED entered
  <2>1. ASSUME NEW a \in Accounts, Register(t, a)
        PROVE  UNCHANGED entered
    <3>1. PICK loan, status, serial : Store(a, Registered(loan, status, now, serial))
      BY <2>1 DEF Register
    <3> DEFINE record == Registered(loan, status, now, serial)
    <3>2. record.last = "none"
      BY DEF Registered
    <3> HIDE DEF record
    <3>3. LastOf(record) = "none"
      BY <3>2 DEF LastOf
    <3>. QED BY <3>1, <3>3, SameLastEntersNothing DEF record
  <2>2. ASSUME NEW a \in Accounts, Delete(t, a)
        PROVE  UNCHANGED entered
    BY <2>2, SameLastEntersNothing DEF Delete, LastOf
  <2>3. ASSUME ~\E a \in Accounts : Register(t, a) \/ Delete(t, a)
        PROVE  UNCHANGED entered
    BY <2>3 DEF Handler, BeginUpdate, BeginTick, BeginTickAll, Publish, BeginStatus
  <2>. QED BY <2>1, <2>2, <2>3
<1>4. \E q : Proceed(t, q) /\ q.at # "notify"
  BY HandlerBegins
<1>5. PICK q : Proceed(t, q) /\ ~Owing(q)
  BY <1>4 DEF Owing
<1>. QED BY <1>1, <1>2, <1>3, <1>5, QuietStep

LEMMA UpdatesAnnounce ==
  ASSUME Background, OneClient, AlarmsAccountedFor, NEW t \in Threads,
         DecideUpdate(t) \/ PostUpdate(t) \/ RecordUpdate(t)
  PROVE  AlarmsAccountedFor'
<1> DEFINE r == req[t]
<1>1. /\ r \in Request /\ Ready(r) /\ InStep(r, accounts) /\ ServiceInv
      /\ r.acct \in Accounts /\ r.ref \in References
  BY BackgroundFacts
<1>2. r.at \in {"decide", "post", "record"}
  BY DEF DecideUpdate, PostUpdate, RecordUpdate, At
<1>3. ~Owing(r)
  BY <1>2 DEF Owing
<1>4. UNCHANGED entered
  <2>1. ASSUME PostUpdate(t)
        PROVE  UNCHANGED entered
    <3>1. /\ Store(r.acct, r.draft) /\ r.draft = Posted(accounts[r.acct], r.ref)
          /\ r.snap = accounts[r.acct] /\ r.snap \in Account /\ r.draft \in Account
      BY <1>1, <2>1 DEF PostUpdate, At, InStep, Ready
    <3>2. r.draft.last = r.snap.last
      BY <3>1 DEF Posted, Account
    <3>3. LastOf(r.draft) = LastOf(accounts[r.acct])
      BY <3>1, <3>2, NoAccountAssumption DEF LastOf
    <3>. QED BY <3>1, <3>3, SameLastEntersNothing
  <2>. QED BY <2>1 DEF DecideUpdate, RecordUpdate
<1>5. \A a \in Accounts : Alerts(log'[a]) = Alerts(log[a])
  <2>1. ASSUME RecordUpdate(t)
        PROVE  \A a \in Accounts : Alerts(log'[a]) = Alerts(log[a])
    <3> DEFINE e == Notice("loan_balance_updated", r.draft, r.ref)
    <3>1. EmitOnce(r.acct, e) /\ r.draft \in Account
      BY <1>1, <2>1 DEF RecordUpdate, At, Ready
    <3>2. e \in Event /\ ~IsAlert(e)
      BY <1>1, <3>1, NoticeIsNoAlert
    <3>. QED BY <1>1, <3>1, <3>2, NonAlert
  <2>. QED BY <2>1 DEF DecideUpdate, PostUpdate
<1>6. \E q : Proceed(t, q) /\ q.at # "notify"
  <2> DEFINE draft == Posted(r.snap, r.ref)
             posted == [r EXCEPT !.at = "post", !.draft = draft]
             stored == [r EXCEPT !.at = "record"]
             told == [r EXCEPT !.at = "evaluate", !.snap = NoAccount, !.draft = NoAccount]
  <2>1. Proceed(t, NoRequest) \/ Proceed(t, posted) \/ Proceed(t, stored) \/ Proceed(t, told)
    BY DEF DecideUpdate, PostUpdate, RecordUpdate
  <2> HIDE DEF draft, r
  <2>2. /\ NoRequest.at = "idle" /\ posted.at = "post" /\ stored.at = "record"
        /\ told.at = "evaluate"
    BY <1>1 DEF NoRequest, Request
  <2>. QED BY <2>1, <2>2
<1>7. PICK q : Proceed(t, q) /\ ~Owing(q)
  BY <1>6 DEF Owing
<1>. QED BY <1>1, <1>3, <1>4, <1>5, <1>7, QuietStep

LEMMA EvaluationsAnnounce ==
  ASSUME Background, OneClient, AlarmsAccountedFor, NEW t \in Threads,
         BeginEvaluate(t) \/ Assess(t) \/ FanOut(t) \/ RollBack(t) \/ SaveStatus(t)
  PROVE  AlarmsAccountedFor'
<1> DEFINE r == req[t]
<1>1. /\ r \in Request /\ Ready(r) /\ InStep(r, accounts) /\ ServiceInv
      /\ r.acct \in Accounts
  BY BackgroundFacts
<1>2. r.at \in {"evaluate", "assess", "fan_out", "rollback", "set_status"}
  BY DEF BeginEvaluate, Assess, FanOut, RollBack, SaveStatus, At
<1>3. ~Owing(r)
  BY <1>2 DEF Owing
<1>4. UNCHANGED entered
  <2>1. ASSUME SaveStatus(t)
        PROVE  UNCHANGED entered
    <3>1. PICK status \in Statuses :
            /\ Store(r.acct, r.draft) /\ r.draft = [accounts[r.acct] EXCEPT !.status = status]
            /\ r.snap = accounts[r.acct] /\ r.snap \in Account /\ r.draft \in Account
      BY <1>1, <2>1 DEF SaveStatus, At, InStep, Ready
    <3>2. r.draft.last = r.snap.last
      BY <3>1 DEF Account
    <3>3. LastOf(r.draft) = LastOf(accounts[r.acct])
      BY <3>1, <3>2, NoAccountAssumption DEF LastOf
    <3>. QED BY <3>1, <3>3, SameLastEntersNothing
  <2>2. ASSUME RollBack(t)
        PROVE  UNCHANGED entered
    BY <2>2, SameLastEntersNothing DEF RollBack, LastOf
  <2>. QED BY <2>1, <2>2 DEF BeginEvaluate, Assess, FanOut
<1>5. \A a \in Accounts : Alerts(log'[a]) = Alerts(log[a])
  <2>1. ASSUME Assess(t)
        PROVE  \A a \in Accounts : Alerts(log'[a]) = Alerts(log[a])
    <3> DEFINE e == Notice("monitoring_error", r.snap, "none")
    <3>1. (UNCHANGED log \/ EmitOnce(r.acct, e)) /\ r.snap \in Account
      BY <1>1, <2>1 DEF Assess, At, Ready
    <3>2. e \in Event /\ ~IsAlert(e)
      BY <1>1, <3>1, NoticeIsNoAlert
    <3> HIDE DEF e
    <3>3. EmitOnce(r.acct, e) => \A a \in Accounts : Alerts(log'[a]) = Alerts(log[a])
      BY <1>1, <3>2, NonAlert
    <3>. QED BY <3>1, <3>3
  <2>. QED BY <2>1 DEF BeginEvaluate, FanOut, RollBack, SaveStatus
<1>6. \E q : Proceed(t, q) /\ ~Owing(q)
  <2> DEFINE draft == Assessed(r.snap, market, now, Initial(t))
             begun == [r EXCEPT !.at = "assess", !.snap = accounts[r.acct]]
             assessed == [r EXCEPT !.at = "save", !.draft = draft]
             onward(a, rest) == [r EXCEPT !.at = "evaluate", !.acct = a, !.todo = rest]
  <2>1. \/ Proceed(t, NoRequest) \/ Proceed(t, begun) \/ Proceed(t, assessed)
        \/ Finish(t, FALSE)
        \/ \E a, rest : Proceed(t, onward(a, rest))
    BY DEF BeginEvaluate, Assess, FanOut, RollBack, SaveStatus
  <2> HIDE DEF draft, r
  <2>2. /\ NoRequest.at = "idle" /\ begun.at = "assess" /\ assessed.at = "save"
        /\ \A a, rest : onward(a, rest).at = "evaluate"
    BY <1>1 DEF NoRequest, Request
  <2> HIDE DEF begun, assessed, onward
  <2>3. /\ ~Owing(NoRequest) /\ ~Owing(begun) /\ ~Owing(assessed)
        /\ \A a, rest : ~Owing(onward(a, rest))
    BY <2>2 DEF Owing
  <2>4. Finish(t, FALSE) => \E q : Proceed(t, q) /\ ~Owing(q)
    BY <1>1, FinishOwesNothing
  <2>. QED BY <2>1, <2>3, <2>4
<1>7. PICK q : Proceed(t, q) /\ ~Owing(q)
  BY <1>6
<1>. QED BY <1>1, <1>3, <1>4, <1>5, <1>7, QuietStep

(* Storing an assessment enters the very alarm that is left to publish.      *)
LEMMA SavingOwes ==
  ASSUME Background, OneClient, ~AuditCanFail, AlarmsAccountedFor, NEW t \in Threads,
         SaveAssessment(t)
  PROVE  AlarmsAccountedFor'
<1> DEFINE r == req[t]
           b == r.acct
           q == [r EXCEPT !.at = "notify"]
<1>1. /\ r \in Request /\ r.at = "save" /\ r.snap = accounts[b] /\ ServiceInv
      /\ r.snap \in Account /\ r.draft \in Account /\ b \in Accounts
      /\ Store(b, r.draft) /\ Proceed(t, q) /\ UNCHANGED log
  BY BackgroundFacts DEF SaveAssessment, At, Ready, InStep
<1>2. ~Owing(r)
  BY <1>1 DEF Owing
<1>3. /\ \A a \in Accounts : entered[a] = Alerts(log[a])
      /\ entered \in [Accounts -> Seq(AlarmStates)]
  BY <1>1, <1>2, NothingOwed DEF ServiceInv, TypeOK
<1>4. LastOf(r.draft) = r.draft.last /\ LastOf(accounts[b]) = r.snap.last
  BY <1>1, NoAccountAssumption DEF LastOf
<1> HIDE DEF r
<1>5. q.at = "notify" /\ q.acct = b /\ q.snap = r.snap /\ q.draft = r.draft
  BY <1>1 DEF Request
<1> HIDE DEF q
<1>6. Owing(q) <=> r.draft.last \in AlarmStates /\ r.draft.last # r.snap.last
  BY <1>5 DEF Owing
<1>7. \A a \in Accounts :
        entered'[a] = IF a = b /\ Owing(q) THEN Append(entered[a], q.draft.last) ELSE entered[a]
  BY <1>1, <1>3, <1>4, <1>5, <1>6 DEF Store
<1>8. \A u \in Threads : u = t /\ req'[u] = q
  BY <1>1, OneMovesOn
<1>9. \A a \in Accounts : /\ ~Owes(q, a) => entered'[a] = Alerts(log'[a])
                          /\ Owes(q, a) => entered'[a] = Append(Alerts(log'[a]), q.draft.last)
  BY <1>1, <1>3, <1>5, <1>7 DEF Owes
<1>10. ASSUME NEW a \in Accounts
       PROVE  /\ (\A u \in Threads : ~Owes(req'[u], a)) => entered'[a] = Alerts(log'[a])
              /\ \A u \in Threads :
                   Owes(req'[u], a) => entered'[a] = Append(Alerts(log'[a]), req'[u].draft.last)
  <2>1. \A u \in Threads : req'[u] = q
    BY <1>8
  <2>2. CASE Owes(q, a)
    BY <2>1, <2>2, <1>9 DEF Owes, Owing
  <2>3. CASE ~Owes(q, a)
    BY <2>1, <2>3, <1>9 DEF Owes, Owing
  <2>. QED BY <2>2, <2>3
<1> HIDE DEF b
<1>. QED BY ONLY <1>10 DEF AlarmsAccountedFor, Owes, Owing

(* The alerts among the events of an assessment tell of the alarm it        *)
(* entered, once.                                                            *)
LEMMA WhenAppended ==
  ASSUME NEW s \in Seq(Event), NEW w \in Seq(Event), NEW e \in Event,
         NEW condition \in BOOLEAN
  PROVE  /\ w \o When(condition, e) \in Seq(Event)
         /\ Alerts(s \o (w \o When(condition, e)))
              = IF condition THEN AfterEvent(Alerts(s \o w), e) ELSE Alerts(s \o w)
<1>1. w \o When(condition, e) = IF condition THEN Append(w, e) ELSE w
  BY DEF When
<1>2. Append(w, e) \in Seq(Event) /\ s \o w \in Seq(Event)
  BY AppendProperties, ConcatProperties
<1>3. s \o Append(w, e) = Append(s \o w, e)
  OBVIOUS
<1>4. Alerts(Append(s \o w, e)) = AfterEvent(Alerts(s \o w), e)
  BY <1>2, AlertsAppend
<1>. QED BY <1>1, <1>2, <1>3, <1>4

LEMMA AssessmentAlerts ==
  ASSUME NEW s \in Seq(Event), NEW snap \in Account, NEW draft \in Account,
         NEW forced \in BOOLEAN
  PROVE  Alerts(s \o AssessmentEvents(snap, draft, forced)) =
           IF draft.last \in AlarmStates /\ draft.last # snap.last
           THEN Append(Alerts(s), draft.last) ELSE Alerts(s)
<1> DEFINE tick == Notice("monitoring_tick_completed", draft, "none")
           change == Notice("risk_state_changed", draft, "none")
           margin == Notice("margin_call_triggered", draft, "none")
           liquidation == Notice("liquidation_triggered", draft, "none")
           changed == snap.last # "none" /\ snap.last # draft.last
           called == snap.last # "margin_call" /\ draft.last = "margin_call"
           liquidated == snap.last # "liquidation" /\ draft.last = "liquidation"
           w1 == When(forced, tick)
           w2 == w1 \o When(changed, change)
           w3 == w2 \o When(called, margin)
           w4 == w3 \o When(liquidated, liquidation)
<1>1. /\ tick \in Event /\ ~IsAlert(tick)
      /\ change \in Event /\ ~IsAlert(change)
  BY NoticeIsNoAlert
<1>2. /\ margin \in Event /\ liquidation \in Event
  BY NoticeType DEF EventTypes
<1>3. /\ IsAlert(margin) /\ margin.state = draft.last
      /\ IsAlert(liquidation) /\ liquidation.state = draft.last
  BY DEF Notice, IsAlert
<1>4. changed \in BOOLEAN /\ called \in BOOLEAN /\ liquidated \in BOOLEAN
  OBVIOUS
<1>5. AssessmentEvents(snap, draft, forced) = w4
  BY DEF AssessmentEvents
<1> HIDE DEF tick, change, margin, liquidation, changed, called, liquidated
<1>6. w1 \in Seq(Event) /\ Alerts(s \o w1) = Alerts(s)
  <2>1. CASE forced
    <3>1. w1 = <<tick>>
      BY <2>1 DEF When
    <3>. QED BY <1>1, <3>1, NoAlertAppended
  <2>2. CASE ~forced
    <3>1. w1 = <<>> /\ s \o <<>> = s
      BY <2>2, ConcatEmptySeq DEF When
    <3>. QED BY <3>1, EmptySeq
  <2>. QED BY <2>1, <2>2
<1> HIDE DEF w1
<1>7. w2 \in Seq(Event) /\ Alerts(s \o w2) = Alerts(s)
  BY <1>1, <1>4, <1>6, WhenAppended DEF AfterEvent
<1> HIDE DEF w2
<1>8. w3 \in Seq(Event) /\ Alerts(s \o w3) = IF called THEN AfterEvent(Alerts(s), margin)
                                             ELSE Alerts(s)
  BY <1>2, <1>4, <1>7, WhenAppended
<1> HIDE DEF w3
<1>9. Alerts(s \o w4) = IF liquidated THEN AfterEvent(Alerts(s \o w3), liquidation)
                        ELSE Alerts(s \o w3)
  BY <1>2, <1>4, <1>8, WhenAppended
<1> HIDE DEF w4
<1>10. \A states : /\ AfterEvent(states, margin) = Append(states, draft.last)
                   /\ AfterEvent(states, liquidation) = Append(states, draft.last)
  BY <1>3 DEF AfterEvent
<1>11. ~(called /\ liquidated)
       /\ (called \/ liquidated <=> draft.last \in AlarmStates /\ draft.last # snap.last)
  BY DEF called, liquidated, AlarmStates
<1>12. Alerts(s \o w4) = IF called \/ liquidated THEN Append(Alerts(s), draft.last)
                         ELSE Alerts(s)
  BY <1>4, <1>8, <1>9, <1>10, <1>11
<1>. QED BY <1>5, <1>11, <1>12

LEMMA NotifyingAnnounces ==
  ASSUME Background, OneClient, ~AuditCanFail, AlarmsAccountedFor, NEW t \in Threads,
         Notify(t)
  PROVE  AlarmsAccountedFor'
<1> DEFINE r == req[t]
           b == r.acct
           forced == r.kind # "tick_all"
           events == AssessmentEvents(r.snap, r.draft, forced)
<1>1. /\ r \in Request /\ r.at = "notify" /\ ServiceInv
      /\ r.snap \in Account /\ r.draft \in Account /\ b \in Accounts
      /\ Emit(b, events) /\ Finish(t, TRUE) /\ UNCHANGED entered
  BY BackgroundFacts DEF Notify, At, Ready
<1>2. log \in [Accounts -> Seq(Event)]
  BY <1>1 DEF ServiceInv, TypeOK
<1>3. PICK q : Proceed(t, q) /\ ~Owing(q)
  BY <1>1, FinishOwesNothing
<1>4. \A u \in Threads : u = t /\ req'[u] = q
  BY <1>1, <1>3, OneMovesOn
<1>5. Alerts(log[b] \o events)
        = IF r.draft.last \in AlarmStates /\ r.draft.last # r.snap.last
          THEN Append(Alerts(log[b]), r.draft.last) ELSE Alerts(log[b])
  BY <1>1, <1>2, AssessmentAlerts
<1> HIDE DEF events, forced
<1>6. \A a \in Accounts : log'[a] = IF a = b THEN log[b] \o events ELSE log[a]
  BY <1>1, <1>2 DEF Emit
<1>7. \A a \in Accounts : entered[a] = Alerts(log'[a])
  <2> TAKE a \in Accounts
  <2>1. CASE Owes(r, a)
    <3>1. entered[a] = Append(Alerts(log[a]), r.draft.last) /\ a = b
      BY <2>1 DEF AlarmsAccountedFor, Owes
    <3>. QED BY <2>1, <3>1, <1>5, <1>6 DEF Owes, Owing
  <2>2. CASE ~Owes(r, a)
    <3>1. entered[a] = Alerts(log[a])
      BY <2>2, <1>4 DEF AlarmsAccountedFor
    <3>. QED BY <1>1, <2>2, <3>1, <1>5, <1>6 DEF Owes, Owing
  <2>. QED BY <2>1, <2>2
<1>. QED BY <1>1, <1>3, <1>4, <1>7 DEF AlarmsAccountedFor, Owes

LEMMA NextAccountsForAlarms ==
  ASSUME OneClient, ~AuditCanFail
  PROVE  OneClientInv /\ AlarmsAccountedFor /\ [Next]_vars => AlarmsAccountedFor'
<1> SUFFICES ASSUME OneClientInv, AlarmsAccountedFor, [Next]_vars
             PROVE  AlarmsAccountedFor'
  OBVIOUS
<1>1. CASE UNCHANGED vars
  BY <1>1 DEF AlarmsAccountedFor, vars
<1>2. CASE Advance \/ Done
  BY <1>2 DEF AlarmsAccountedFor, vars, Advance, Done
<1>3. ASSUME NEW t \in Threads, Handler(t) \/ Continue(t)
      PROVE  AlarmsAccountedFor'
  <2>1. Background
    <3>1. Next
      BY <1>3 DEF Next
    <3>2. Shape
      BY <3>1, StepShape DEF OneClientInv
    <3>. QED BY <3>2, BoundsAssumption
             DEF Background, OneClientInv, Shape, EnvironmentStep, ServiceInv, TypeOK
  <2>. QED BY <1>3, <2>1, HandlersAnnounce, UpdatesAnnounce, EvaluationsAnnounce, SavingOwes,
              NotifyingAnnounces DEF Continue
<1>. QED BY <1>1, <1>2, <1>3 DEF Next

(***************************************************************************)
(* Served one request at a time, with an audit file that can be written,   *)
(* an account's alerts are the alarm states its stored record entered, in  *)
(* the same order and none twice, whenever every request is answered: of a *)
(* transition that a failed, repeated or batched evaluation made, no       *)
(* request ends with only the announcement or only the stored record.      *)
(***************************************************************************)
THEOREM AlarmsAnnouncedInOrder ==
  ASSUME OneClient, ~AuditCanFail
  PROVE  Spec => []AlarmsAreAnnounced
<1>1. Init => AlarmsAccountedFor
  BY AlertsEmpty DEF Init, AlarmsAccountedFor, Owes, Owing, NoRequest
<1>2. AlarmsAccountedFor => AlarmsAreAnnounced
  BY DEF AlarmsAccountedFor, AlarmsAreAnnounced, Owes, Owing, Quiet, At
<1>. QED BY <1>1, <1>2, OneClientInvariant, NextAccountsForAlarms, PTL DEF Spec

-----------------------------------------------------------------------------
(***************************************************************************)
(* Loans in whole cents stay so: interest is rounded when it is charged    *)
(* and draws when they are booked, so a loan is only in cents if what      *)
(* clients report is.                                                      *)
(***************************************************************************)
InCents(loan) == IsCents(loan.principal) /\ IsCents(loan.interest) /\ IsCents(loan.fees)

ReportedInCents ==
  /\ \A loan \in Openings : InCents(loan)
  /\ \A r \in References :
       IsCents(Payload[r].interest) /\ IsCents(Payload[r].fee) /\ IsCents(Payload[r].repay)

LEMMA RoundLoanInCents ==
  ASSUME NEW loan \in Loan
  PROVE  InCents(RoundLoan(loan))
<1>1. \A n \in Nat : IsCents(RoundMoney(n))
  BY RoundedIsCents DEF RoundMoney
<1>. QED BY <1>1 DEF RoundLoan, InCents, Loan

LEMMA RepaidInCents ==
  ASSUME NEW loan, InCents(loan), NEW amount, IsCents(amount)
  PROVE  InCents(ApplyRepayment(loan, amount))
<1> DEFINE afterFees     == Excess(amount, loan.fees)
           afterInterest == Excess(afterFees, loan.interest)
<1>1. IsCents(afterFees) /\ IsCents(Excess(loan.fees, amount))
  BY CentsAdd DEF InCents
<1>2. IsCents(afterInterest) /\ IsCents(Excess(loan.interest, afterFees))
  BY <1>1, CentsAdd DEF InCents
<1>3. IsCents(Excess(loan.principal, afterInterest))
  BY <1>2, CentsAdd DEF InCents
<1>4. ApplyRepayment(loan, amount) =
        [principal |-> Excess(loan.principal, afterInterest),
         interest  |-> Excess(loan.interest, afterFees),
         fees      |-> Excess(loan.fees, amount)]
  BY DEF ApplyRepayment
<1> HIDE DEF afterFees, afterInterest
<1>. QED BY <1>1, <1>2, <1>3, <1>4 DEF InCents

(* Nothing left after accrual and rounding means that nothing was owed.      *)
LEMMA NothingAccruedOnNothing ==
  ASSUME NEW account \in Account, InCents(account.loan), NEW at \in Nat, NEW initial,
         Balance(AccruedLoan(account, at, initial)) = 0
  PROVE  Balance(account.loan) = 0
<1> DEFINE loan == account.loan
           spent == Elapsed(account, at)
           due == InterestDue(loan, spent)
           after == AccrueInterest(loan, spent)
<1>1. /\ loan \in Loan /\ loan.principal \in Nat /\ loan.interest \in Nat /\ loan.fees \in Nat
      /\ account.accruedTo \in Nat
  BY DEF Account, Loan
<1>2. spent \in Nat
  BY <1>1, ExcessNat DEF Elapsed
<1>3. due \in Nat /\ after \in Loan
  BY <1>1, <1>2, InterestDueNat, AccrueInterestType
<1>4. CASE AccruedLoan(account, at, initial) = loan
  BY <1>4
<1>5. CASE AccruedLoan(account, at, initial) = RoundLoan(after)
  <2>1. ASSUME NEW n \in Nat, RoundMoney(n) = 0, NEW x, IsCents(x), x <= n
        PROVE  x = 0
    <3>1. 2 * n <= Cent /\ Cent \in Nat \ {0} /\ x \in Nat
      BY <2>1, HalfACent, CentsStay, CentAssumption
    <3>2. IsCents(0)
      BY CentAssumption DEF IsCents
    <3>3. x < 0 + Cent
      BY <2>1, <3>1
    <3>4. x <= 0
      BY <2>1, <3>2, <3>3, CentsInOrder
    <3>. QED BY <3>1, <3>4
  <2>2. /\ after.principal \in Nat /\ after.interest \in Nat /\ after.fees \in Nat
        /\ after.fees = loan.fees /\ loan.principal <= after.principal
        /\ \/ loan.interest <= after.interest
           \/ loan.interest + loan.principal <= after.principal
    <3>1. after.principal \in Nat /\ after.interest \in Nat /\ after.fees \in Nat
      BY <1>3 DEF Loan
    <3> HIDE DEF due
    <3>2. CASE AccrualMode = "engine_calculated" /\ Compounding = "compound"
      <4>1. after = [loan EXCEPT !.principal = @ + loan.interest + due, !.interest = 0]
        BY <3>2 DEF AccrueInterest, due
      <4> HIDE DEF after
      <4>2. /\ after.principal = loan.principal + loan.interest + due
            /\ after.fees = loan.fees
        BY <1>1, <4>1 DEF Loan
      <4>. QED BY <1>1, <1>3, <3>1, <4>2
    <3>3. CASE ~(AccrualMode = "engine_calculated" /\ Compounding = "compound")
      <4>1. after = [loan EXCEPT !.interest = @ + due]
        BY <3>3 DEF AccrueInterest, due
      <4> HIDE DEF after
      <4>2. /\ after.interest = loan.interest + due
            /\ after.principal = loan.principal /\ after.fees = loan.fees
        BY <1>1, <4>1 DEF Loan
      <4>. QED BY <1>1, <1>3, <3>1, <4>2
    <3>. QED BY <3>2, <3>3
  <2> DEFINE p == RoundMoney(after.principal)
             i == RoundMoney(after.interest)
             f == RoundMoney(after.fees)
  <2>3. p \in Nat /\ i \in Nat /\ f \in Nat
    BY <2>2, RoundMoneyNat
  <2>4. p + i + f = 0
    BY <1>5 DEF RoundLoan, Balance
  <2>5. p = 0 /\ i = 0 /\ f = 0
    <3> HIDE DEF p, i, f
    <3>. QED BY <2>3, <2>4
  <2>6. IsCents(loan.principal) /\ IsCents(loan.interest) /\ IsCents(loan.fees)
        /\ IsCents(loan.interest + loan.principal)
    BY CentsAdd DEF InCents
  <2> HIDE DEF after, loan
  <2>7. loan.principal = 0 /\ loan.fees = 0
    <3>1. loan.fees <= after.fees
      BY <1>1, <2>2
    <3>. QED BY <2>1, <2>2, <2>5, <2>6, <3>1
  <2>8. loan.interest = 0
    <3>1. CASE loan.interest <= after.interest
      BY <2>1, <2>2, <2>5, <2>6, <3>1
    <3>2. CASE loan.interest + loan.principal <= after.principal
      <4>1. loan.interest + loan.principal = 0
        BY <2>1, <2>2, <2>5, <2>6, <3>2
      <4>. QED BY <1>1, <2>7, <4>1
    <3>. QED BY <2>2, <3>1, <3>2
  <2>9. Balance(loan) = 0
    BY <2>7, <2>8 DEF Balance
  <2>. QED BY <2>9 DEF loan
<1>. QED BY <1>4, <1>5 DEF AccruedLoan

(* Each operation keeps a record in cents.                                   *)
LEMMA PostedInCents ==
  ASSUME ReportedInCents, NEW account \in Account, InCents(account.loan),
         NEW r \in References
  PROVE  InCents(Posted(account, r).loan)
<1> DEFINE loan == account.loan
           update == Payload[r]
           owed == [principal |-> loan.principal,
                    interest  |-> loan.interest + update.interest,
                    fees      |-> loan.fees + update.fee]
           settled == SettledLoan(account, r)
<1>1. update \in [draw: Nat, repay: Nat, interest: Nat, fee: Nat, tick: BOOLEAN]
  BY PayloadAssumption DEF Update
<1>2. loan \in Loan
  BY DEF Account
<1>3. settled = ApplyRepayment(owed, update.repay) /\ settled \in Loan
  BY <1>1, <1>2, SettleType DEF SettledLoan, Settle
<1>4. InCents(owed)
  BY CentsAdd DEF InCents, ReportedInCents
<1>5. InCents(settled)
  BY <1>3, <1>4, RepaidInCents DEF ReportedInCents
<1>6. InCents(ProjectedLoan(settled, update.draw, 0))
  <2> DEFINE rest == AfterRepayment(settled, 0)
             sum == rest.principal + RoundMoney(update.draw)
  <2>1. rest \in Loan /\ InCents(rest)
    BY <1>3, RoundMoneyNat, ApplyRepaymentType, RoundLoanInCents, RoundLoanType
       DEF AfterRepayment
  <2>2. sum \in Nat
    BY <1>1, <2>1, RoundMoneyNat DEF Loan
  <2>3. IsCents(RoundMoney(sum))
    BY <2>2, RoundedIsCents DEF RoundMoney
  <2>4. ProjectedLoan(settled, update.draw, 0) = [rest EXCEPT !.principal = RoundMoney(sum)]
    BY DEF ProjectedLoan
  <2> HIDE DEF rest, sum
  <2>. QED BY <2>1, <2>3, <2>4 DEF InCents, Loan
<1>7. InCents(UpdatedLoan(account, r))
  BY <1>5, <1>6 DEF UpdatedLoan
<1>8. Posted(account, r).loan = UpdatedLoan(account, r)
  <2> DEFINE new == UpdatedLoan(account, r)
             processed == Remember(account.processed, r)
             applied == [account.applied EXCEPT ![r] = @ + 1]
  <2>1. Posted(account, r)
          = [account EXCEPT !.loan = new, !.processed = processed, !.applied = applied]
    BY DEF Posted, Account
  <2> HIDE DEF new, processed, applied
  <2>2. Posted(account, r).loan = new
    BY <2>1 DEF Account
  <2>. QED BY <2>2 DEF new
<1>. QED BY <1>7, <1>8

LEMMA AssessedLoan ==
  ASSUME NEW account \in Account, NEW v, NEW at \in Nat, NEW initial \in BOOLEAN
  PROVE  /\ Assessed(account, v, at, initial).loan = AccruedLoan(account, at, initial)
         /\ Assessed(account, v, at, initial).last
              = MarginState(v, Balance(AccruedLoan(account, at, initial)))
<1> DEFINE loan == AccruedLoan(account, at, initial)
           state == MarginState(v, Balance(loan))
           from == IF initial THEN at ELSE account.runsFrom
           charged == IF initial THEN 0 ELSE account.charged + Elapsed(account, at)
<1>1. Assessed(account, v, at, initial)
        = [account EXCEPT !.loan = loan, !.accruedTo = at, !.last = state,
                          !.runsFrom = from, !.charged = charged]
  BY DEF Assessed
<1> HIDE DEF loan, state, from, charged
<1>2. /\ Assessed(account, v, at, initial).loan = loan
      /\ Assessed(account, v, at, initial).last = state
  BY <1>1 DEF Account
<1>. QED BY <1>2 DEF loan, state

LEMMA AssessedInCents ==
  ASSUME NEW account \in Account, InCents(account.loan), NEW v, NEW at \in Nat,
         NEW initial \in BOOLEAN
  PROVE  InCents(Assessed(account, v, at, initial).loan)
<1>1. account.loan \in Loan /\ account.accruedTo \in Nat
  BY DEF Account
<1>2. Elapsed(account, at) \in Nat
  BY <1>1, ExcessNat DEF Elapsed
<1>3. InCents(RoundLoan(AccrueInterest(account.loan, Elapsed(account, at))))
  BY <1>1, <1>2, AccrueInterestType, RoundLoanInCents
<1>4. InCents(AccruedLoan(account, at, initial))
  BY <1>3 DEF AccruedLoan
<1>. QED BY <1>4, AssessedLoan

AllInCents == \A record \in Records : InCents(record.loan)

LEMMA InitAllInCents == Init => AllInCents
BY NoAccountAssumption, NoRequestType DEF Init, AllInCents, Records, Copies

LEMMA NextAllInCents ==
  ASSUME ReportedInCents
  PROVE  ServiceInv /\ AllInCents /\ [Next]_vars => AllInCents'
<1> SUFFICES ASSUME ServiceInv, AllInCents, [Next]_vars,
                    NEW record \in Records'
             PROVE  InCents(record.loan)
  BY DEF AllInCents
<1>1. Shape
  BY StepShape
<1>2. now \in Nat
  BY BoundsAssumption DEF ServiceInv, TypeOK
<1>3. record \in Account /\ Arises(record)
  BY <1>1, CopiesArise DEF Records
<1>4. ASSUME NEW source \in Records
      PROVE  source \in Account /\ InCents(source.loan)
  BY DEF AllInCents, Records
<1>5. CASE record \in Records
  BY <1>5, <1>4
<1>6. ASSUME NEW loan \in Openings, NEW status \in Statuses, NEW serial \in 0..issued',
             record = Registered(loan, status, now, serial)
      PROVE  InCents(record.loan)
  <2>1. record.loan = loan
    BY <1>6 DEF Registered
  <2>. QED BY <2>1 DEF ReportedInCents
<1>7. ASSUME NEW source \in Records, NEW r \in References, record = Posted(source, r)
      PROVE  InCents(record.loan)
  BY <1>4, <1>7, PostedInCents
<1>8. ASSUME NEW source \in Records, NEW v \in Valuations, NEW initial \in BOOLEAN,
             record = Assessed(source, v, now, initial)
      PROVE  InCents(record.loan)
  BY <1>2, <1>4, <1>8, AssessedInCents
<1>9. ASSUME NEW source \in Records, NEW status \in Statuses,
             record = [source EXCEPT !.status = status]
      PROVE  InCents(record.loan)
  <2>1. record.loan = source.loan
    BY <1>4, <1>9 DEF Account
  <2>. QED BY <1>4, <2>1
<1>. QED BY <1>3, <1>5, <1>6, <1>7, <1>8, <1>9, NoAccountAssumption DEF Arises

-----------------------------------------------------------------------------
(***************************************************************************)
(* Batches.  An account is served when the batch has nothing left to do    *)
(* for it: it is inactive, cannot be assessed, or is at the margin state   *)
(* of its loan.                                                            *)
(***************************************************************************)
Served(record, v) ==
  /\ record # NoAccount
  /\ record.status = "active"
  /\ ~Unassessable(v, Balance(record.loan))
  => record.last = MarginState(v, Balance(record.loan))

(* The accounts a batch has yet to evaluate, the current one included.       *)
Left(q) == q.todo \cup (IF q.at = "notify" THEN {} ELSE {q.acct})

BatchServes(q, held, v) ==
  Working(q) =>
    /\ q.at \in {"evaluate", "assess", "save", "notify"}
    /\ q.at = "save" => q.draft.last = MarginState(v, Balance(q.draft.loan))
    /\ \A a \in Accounts \ Left(q) : Served(held[a], v)

BatchesServe == \A t \in Threads : BatchServes(req[t], accounts, market)

(* What may follow in a request: the batch goes on with every account not    *)
(* yet evaluated among those left, or is answered with every account served. *)
Onward(t, held) ==
  \E q : /\ Proceed(t, q) /\ BatchServes(q, held, market)
         /\ q.at = "idle" => \A a \in Accounts : Served(held[a], market)

(* The end of one evaluation: everything but the rest of the batch is served. *)
LEMMA FinishServes ==
  ASSUME ServiceInv, NEW t \in Threads, NEW succeeded, Finish(t, succeeded),
         req[t].kind \in Batches, NEW held,
         \A a \in Accounts \ req[t].todo : Served(held[a], market)
  PROVE  Onward(t, held)
<1> DEFINE r == req[t]
           left == [r EXCEPT !.snap = NoAccount, !.draft = NoAccount]
           next(a, rest) == [left EXCEPT !.at = "evaluate", !.acct = a, !.todo = rest]
<1>1. r \in Request /\ r.todo \in SUBSET Accounts
  BY RequestTypes
<1>2. left \in Request /\ left.todo = r.todo /\ left.kind = r.kind
  BY <1>1 DEF Request
<1>3. \/ r.todo = {} /\ Proceed(t, NoRequest)
      \/ \E a \in r.todo : Proceed(t, next(a, left.todo \ {a}))
  BY DEF Finish, Batches
<1>4. ASSUME r.todo = {}, Proceed(t, NoRequest)
      PROVE  Onward(t, held)
  <2>1. BatchServes(NoRequest, held, market)
    BY DEF BatchServes, Working, NoRequest
  <2>. QED BY <1>4, <2>1 DEF Onward
<1> HIDE DEF left
<1>5. ASSUME NEW a \in r.todo, Proceed(t, next(a, r.todo \ {a}))
      PROVE  Onward(t, held)
  <2> DEFINE rest == r.todo \ {a}
             q == next(a, rest)
  <2> HIDE DEF rest
  <2>1. q.at = "evaluate" /\ q.acct = a /\ q.todo = rest
    BY <1>2 DEF Request
  <2> HIDE DEF q
  <2>2. Left(q) = r.todo
    BY <2>1 DEF Left, rest
  <2>3. BatchServes(q, held, market)
    BY <2>1, <2>2 DEF BatchServes
  <2>4. Proceed(t, q)
    BY <1>5 DEF q, rest
  <2>. QED BY <2>1, <2>3, <2>4 DEF Onward
<1>. QED BY <1>2, <1>3, <1>4, <1>5

LEMMA FanOutServes ==
  ASSUME ServiceInv, NEW t \in Threads, req[t].kind \in Batches, FanOut(t)
  PROVE  Onward(t, accounts')
<1> DEFINE r == req[t]
           listed == {a \in Accounts : /\ Stored(a)
                                       /\ r.kind = "market" \/ accounts[a].status = "active"}
<1>1. r \in Request /\ accounts' = accounts
  BY RequestTypes DEF FanOut
<1>2. \A a \in Accounts \ listed : Served(accounts[a], market)
  BY DEF Served, Stored
<1>3. \/ listed = {} /\ Proceed(t, NoRequest)
      \/ \E a \in listed :
           Proceed(t, [r EXCEPT !.at = "evaluate", !.acct = a, !.todo = listed \ {a}])
  BY DEF FanOut
<1> HIDE DEF r, listed
<1>4. ASSUME listed = {}, Proceed(t, NoRequest)
      PROVE  Onward(t, accounts')
  <2>1. BatchServes(NoRequest, accounts', market)
    BY DEF BatchServes, Working, NoRequest
  <2>. QED BY <1>1, <1>2, <1>4, <2>1 DEF Onward
<1>5. ASSUME NEW a \in listed,
             Proceed(t, [r EXCEPT !.at = "evaluate", !.acct = a, !.todo = listed \ {a}])
      PROVE  Onward(t, accounts')
  <2> DEFINE rest == listed \ {a}
             q == [r EXCEPT !.at = "evaluate", !.acct = a, !.todo = rest]
  <2> HIDE DEF rest
  <2>1. q.at = "evaluate" /\ q.acct = a /\ q.todo = rest
    BY <1>1 DEF Request
  <2> HIDE DEF q
  <2>2. Left(q) = listed
    BY <2>1 DEF Left, rest
  <2>3. BatchServes(q, accounts', market)
    BY <1>1, <1>2, <2>1, <2>2 DEF BatchServes
  <2>4. Proceed(t, q)
    BY <1>5 DEF q, rest
  <2>. QED BY <2>1, <2>3, <2>4 DEF Onward
<1>. QED BY <1>3, <1>4, <1>5

LEMMA BeginEvaluateServes ==
  ASSUME ServiceInv, NEW t \in Threads, req[t].kind \in Batches,
         BatchServes(req[t], accounts, market), BeginEvaluate(t)
  PROVE  Onward(t, accounts')
<1> DEFINE r == req[t]
           b == r.acct
           q == [r EXCEPT !.at = "assess", !.snap = accounts[b]]
<1>1. /\ r \in Request /\ b \in Accounts /\ accounts' = accounts /\ r.at = "evaluate"
      /\ r.todo \in SUBSET Accounts
  BY RequestTypes DEF BeginEvaluate, At
<1>2. \/ Proceed(t, q)
      \/ (~Stored(b) \/ accounts[b].status # "active") /\ Finish(t, FALSE)
  BY DEF BeginEvaluate
<1>3. Left(r) = r.todo \cup {b} /\ \A a \in Accounts \ Left(r) : Served(accounts[a], market)
  BY <1>1 DEF Left, BatchServes, Working
<1>4. ASSUME ~Stored(b) \/ accounts[b].status # "active", Finish(t, FALSE)
      PROVE  Onward(t, accounts')
  <2>1. Served(accounts[b], market)
    BY <1>4 DEF Served, Stored
  <2>2. \A a \in Accounts \ r.todo : Served(accounts'[a], market)
    BY <1>1, <1>3, <2>1
  <2>. QED BY <1>4, <2>2, FinishServes
<1>5. ASSUME Proceed(t, q)
      PROVE  Onward(t, accounts')
  <2> DEFINE record == accounts[b]
  <2>1. q.at = "assess" /\ q.acct = b /\ q.todo = r.todo
    BY <1>1 DEF Request
  <2> HIDE DEF q
  <2>2. Left(q) = Left(r)
    BY <1>3, <2>1 DEF Left
  <2>3. BatchServes(q, accounts', market)
    BY <1>1, <1>3, <2>1, <2>2 DEF BatchServes
  <2>. QED BY <1>5, <2>1, <2>3 DEF Onward
<1>. QED BY <1>2, <1>4, <1>5

(* An evaluation that raises leaves a record that nothing is owed on and     *)
(* nothing priced for.                                                       *)
LEMMA AssessServes ==
  ASSUME ServiceInv, AllInCents, ~AuditCanFail, NEW t \in Threads, req[t].kind \in Batches,
         InStep(req[t], accounts), BatchServes(req[t], accounts, market), Assess(t)
  PROVE  Onward(t, accounts')
<1> DEFINE r == req[t]
           b == r.acct
           initial == Initial(t)
           draft == Assessed(r.snap, market, now, initial)
           q == [r EXCEPT !.at = "save", !.draft = draft]
<1>1. /\ r \in Request /\ b \in Accounts /\ accounts' = accounts /\ r.at = "assess"
      /\ r.todo \in SUBSET Accounts /\ Ready(r)
  BY RequestTypes DEF Assess, At
<1>2. r.snap = accounts[b] /\ r.snap \in Account /\ InCents(r.snap.loan)
  BY <1>1, RequestTypes DEF InStep, Ready, AllInCents
<1>3. now \in Nat /\ initial \in BOOLEAN
  BY BoundsAssumption DEF ServiceInv, TypeOK, Initial
<1>4. \/ Proceed(t, q)
      \/ Unassessable(market, Balance(draft.loan)) /\ Finish(t, FALSE)
  BY DEF Assess
<1>5. /\ draft.loan = AccruedLoan(r.snap, now, initial)
      /\ draft.last = MarginState(market, Balance(draft.loan))
  BY <1>2, <1>3, AssessedLoan
<1>6. Left(r) = r.todo \cup {b} /\ \A a \in Accounts \ Left(r) : Served(accounts[a], market)
  BY <1>1 DEF Left, BatchServes, Working
<1>7. ASSUME Unassessable(market, Balance(draft.loan)), Finish(t, FALSE)
      PROVE  Onward(t, accounts')
  <2>1. Balance(r.snap.loan) = 0
    BY <1>2, <1>3, <1>5, <1>7, NothingAccruedOnNothing DEF Unassessable
  <2>2. Served(accounts[b], market)
    BY <1>2, <1>7, <2>1 DEF Served, Unassessable
  <2>3. \A a \in Accounts \ r.todo : Served(accounts'[a], market)
    BY <1>1, <1>6, <2>2
  <2>. QED BY <1>7, <2>3, FinishServes
<1>8. ASSUME Proceed(t, q)
      PROVE  Onward(t, accounts')
  <2> HIDE DEF draft, r
  <2>1. q.at = "save" /\ q.acct = b /\ q.todo = r.todo /\ q.draft = draft
    BY <1>1 DEF Request
  <2> HIDE DEF q
  <2>2. Left(q) = Left(r)
    BY <1>6, <2>1 DEF Left
  <2>3. BatchServes(q, accounts', market)
    BY <1>1, <1>5, <1>6, <2>1, <2>2 DEF BatchServes
  <2>. QED BY <1>8, <2>1, <2>3 DEF Onward
<1>. QED BY <1>4, <1>7, <1>8

LEMMA SaveServes ==
  ASSUME ServiceInv, ~AuditCanFail, NEW t \in Threads, req[t].kind \in Batches,
         BatchServes(req[t], accounts, market), SaveAssessment(t)
  PROVE  Onward(t, accounts')
<1> DEFINE r == req[t]
           b == r.acct
           q == [r EXCEPT !.at = "notify"]
<1>1. /\ r \in Request /\ b \in Accounts /\ r.at = "save" /\ r.todo \in SUBSET Accounts
      /\ Store(b, r.draft) /\ Proceed(t, q)
  BY RequestTypes DEF SaveAssessment, At
<1>2. accounts' = [accounts EXCEPT ![b] = r.draft]
      /\ accounts \in [Accounts -> Account \cup {NoAccount}]
  BY <1>1 DEF Store, ServiceInv, TypeOK
<1>3. /\ Left(r) = r.todo \cup {b} /\ \A a \in Accounts \ Left(r) : Served(accounts[a], market)
      /\ r.draft.last = MarginState(market, Balance(r.draft.loan))
  BY <1>1 DEF Left, BatchServes, Working
<1>4. Served(accounts'[b], market)
  BY <1>1, <1>2, <1>3 DEF Served
<1>5. \A a \in Accounts \ r.todo : Served(accounts'[a], market)
  BY <1>1, <1>2, <1>3, <1>4
<1> HIDE DEF r
<1>6. q.at = "notify" /\ q.todo = r.todo
  BY <1>1 DEF Request
<1> HIDE DEF q
<1>7. Left(q) = r.todo
  BY <1>6 DEF Left
<1>8. BatchServes(q, accounts', market)
  BY <1>5, <1>6, <1>7 DEF BatchServes
<1>. QED BY <1>1, <1>6, <1>8 DEF Onward

LEMMA NotifyServes ==
  ASSUME ServiceInv, NEW t \in Threads, req[t].kind \in Batches,
         BatchServes(req[t], accounts, market), Notify(t)
  PROVE  Onward(t, accounts')
<1>1. /\ accounts' = accounts /\ req[t].at = "notify"
      /\ Finish(t, TRUE) \/ Finish(t, FALSE)
  BY DEF Notify, At
<1>2. \A a \in Accounts \ req[t].todo : Served(accounts'[a], market)
  BY <1>1 DEF BatchServes, Working, Left
<1>. QED BY <1>1, <1>2, FinishServes

(* Every step of a batch.                                                    *)
LEMMA BatchStep ==
  ASSUME ServiceInv, AllInCents, ~AuditCanFail, NEW t \in Threads, req[t].kind \in Batches,
         InStep(req[t], accounts), BatchServes(req[t], accounts, market), Continue(t)
  PROVE  Onward(t, accounts') /\ market' = market
<1>1. market' = market
  BY DEF Continue, DecideUpdate, PostUpdate, RecordUpdate, BeginEvaluate, Assess,
         SaveAssessment, Notify, RollBack, SaveStatus, FanOut
<1>2. ~(DecideUpdate(t) \/ PostUpdate(t) \/ RecordUpdate(t) \/ RollBack(t) \/ SaveStatus(t))
  BY DEF DecideUpdate, PostUpdate, RecordUpdate, RollBack, SaveStatus, At, BatchServes, Working
<1>. QED BY <1>1, <1>2, FanOutServes, BeginEvaluateServes, AssessServes, SaveServes,
            NotifyServes DEF Continue

(* No other request becomes a batch.                                         *)
LEMMA OtherStep ==
  ASSUME ServiceInv, NEW t \in Threads, req[t].kind \notin Batches, Continue(t)
  PROVE  \E q : Proceed(t, q) /\ ~Working(q)
<1> DEFINE r == req[t]
           posted == Posted(r.snap, r.ref)
           assessed == Assessed(r.snap, market, now, Initial(t))
           record == accounts[r.acct]
           decided == [r EXCEPT !.at = "post", !.draft = posted]
           stored == [r EXCEPT !.at = "record"]
           told == [r EXCEPT !.at = "evaluate", !.snap = NoAccount, !.draft = NoAccount]
           begun == [r EXCEPT !.at = "assess", !.snap = record]
           drafted == [r EXCEPT !.at = "save", !.draft = assessed]
           saved == [r EXCEPT !.at = "notify"]
           onward(a, rest) == [r EXCEPT !.at = "evaluate", !.acct = a, !.todo = rest]
           back == [[r EXCEPT !.snap = NoAccount, !.draft = NoAccount] EXCEPT !.at = "rollback"]
           on(a, rest) == [[r EXCEPT !.snap = NoAccount, !.draft = NoAccount]
                             EXCEPT !.at = "evaluate", !.acct = a, !.todo = rest]
<1>1. r \in Request
  BY RequestTypes
<1>2. \A s : Finish(t, s) => \/ Proceed(t, NoRequest) \/ Proceed(t, back)
                             \/ \E a, rest : Proceed(t, on(a, rest))
  BY DEF Finish
<1>3. \/ Proceed(t, NoRequest) \/ Proceed(t, decided) \/ Proceed(t, stored)
      \/ Proceed(t, told) \/ Proceed(t, begun) \/ Proceed(t, drafted) \/ Proceed(t, saved)
      \/ (\E a, rest : Proceed(t, onward(a, rest))) \/ Proceed(t, back)
      \/ \E a, rest : Proceed(t, on(a, rest))
  <2>1. \/ Proceed(t, NoRequest) \/ Proceed(t, decided) \/ Proceed(t, stored)
        \/ Proceed(t, told) \/ Proceed(t, begun) \/ Proceed(t, drafted) \/ Proceed(t, saved)
        \/ (\E a, rest : Proceed(t, onward(a, rest)))
        \/ Finish(t, TRUE) \/ Finish(t, FALSE)
    BY DEF Continue, DecideUpdate, PostUpdate, RecordUpdate, BeginEvaluate, Assess,
           SaveAssessment, Notify, RollBack, SaveStatus, FanOut
  <2> HIDE DEF decided, stored, told, begun, drafted, saved, onward, back, on
  <2>. QED BY <1>2, <2>1
<1> HIDE DEF posted, assessed, record, r
<1>4. /\ decided.kind = r.kind /\ stored.kind = r.kind /\ told.kind = r.kind
      /\ begun.kind = r.kind /\ drafted.kind = r.kind /\ saved.kind = r.kind
      /\ back.kind = r.kind
      /\ \A a, rest : onward(a, rest).kind = r.kind /\ on(a, rest).kind = r.kind
  BY <1>1 DEF Request
<1>5. r.kind \notin Batches /\ NoRequest.at = "idle"
  BY DEF r, NoRequest
<1> HIDE DEF decided, stored, told, begun, drafted, saved, onward, back, on
<1>. QED BY <1>3, <1>4, <1>5 DEF Working

(* The invariant: what a batch is no longer to evaluate is served.           *)
BatchInv == OneClientInv /\ AllInCents /\ BatchesServe

LEMMA NextBatchesServe ==
  ASSUME OneClient, ~AuditCanFail
  PROVE  BatchInv /\ [Next]_vars => BatchesServe'
<1> SUFFICES ASSUME BatchInv, [Next]_vars PROVE BatchesServe'
  OBVIOUS
<1>1. ServiceInv /\ OneAtATime /\ AllInCents /\ BatchesServe
  BY DEF BatchInv, OneClientInv
<1>2. CASE UNCHANGED vars \/ Advance \/ Done
  BY <1>1, <1>2 DEF BatchesServe, vars, Advance, Done
<1>3. ASSUME NEW t \in Threads, NEW q, Proceed(t, q), BatchServes(q, accounts', market')
      PROVE  BatchesServe'
  BY <1>1, <1>3, OneMovesOn DEF BatchesServe
<1>4. ASSUME NEW t \in Threads, Handler(t)
      PROVE  BatchesServe'
  BY <1>3, <1>4, HandlerBegins DEF BatchServes
<1>5. ASSUME NEW t \in Threads, Continue(t)
      PROVE  BatchesServe'
  <2>1. CASE req[t].kind \in Batches
    <3>1. Onward(t, accounts') /\ market' = market
      BY <1>1, <1>5, <2>1, BatchStep DEF OneAtATime, BatchesServe
    <3>. QED BY <1>3, <3>1 DEF Onward
  <2>2. CASE req[t].kind \notin Batches
    BY <1>1, <1>3, <1>5, <2>2, OtherStep DEF BatchServes
  <2>. QED BY <2>1, <2>2
<1>. QED BY <1>2, <1>4, <1>5 DEF Next

LeavesNoStaleState ==
  \A t \in Threads :
    req[t].kind \in {"market", "tick_all"} /\ ~At(t, "idle") /\ req'[t].at = "idle"
      => \A a \in Accounts :
           /\ accounts'[a] # NoAccount
           /\ accounts'[a].status = "active"
           /\ ~Unassessable(market, Balance(accounts'[a].loan))
           => accounts'[a].last = MarginState(market, Balance(accounts'[a].loan))

(***************************************************************************)
(* Served one request at a time, with an audit file that can be written    *)
(* and amounts reported in whole cents, a tick of all accounts or a market *)
(* update that ticks ends with every active account it can assess at the   *)
(* margin state of its loan and the market: an account that raises does    *)
(* not keep the batch from those after it.                                 *)
(***************************************************************************)
THEOREM BatchesLeaveNoStaleState ==
  ASSUME OneClient, ~AuditCanFail, ReportedInCents
  PROVE  Spec => BatchLeavesNoStaleState
<1>1. Init => BatchesServe
  BY DEF Init, BatchesServe, BatchServes, Working, NoRequest
<1>2. Spec => []BatchInv
  <2>1. OneClientInv /\ AllInCents /\ [Next]_vars => AllInCents'
    BY NextAllInCents DEF OneClientInv
  <2>2. BatchInv <=> OneClientInv /\ AllInCents /\ BatchesServe
    BY DEF BatchInv
  <2>. QED BY <1>1, <2>1, <2>2, OneClientInvariant, InitAllInCents, NextBatchesServe, PTL
           DEF Spec
<1>3. BatchInv /\ [Next]_vars => [LeavesNoStaleState]_vars
  <2> SUFFICES ASSUME BatchInv, Next, NEW t \in Threads,
                      req[t].kind \in Batches, req[t].at # "idle", req'[t].at = "idle",
                      NEW a \in Accounts
               PROVE  Served(accounts'[a], market)
    BY DEF LeavesNoStaleState, Served, Batches, At
  <2>1. ServiceInv /\ OneAtATime /\ AllInCents /\ BatchesServe
    BY DEF BatchInv, OneClientInv
  <2>2. ~Handler(t)
    BY DEF Handler, Register, BeginUpdate, BeginTick, BeginTickAll, Publish, BeginStatus,
           Delete, Accept, At
  <2>3. Continue(t)
    BY <2>2 DEF Next, OneClient, Advance, Done, vars
  <2>4. Onward(t, accounts')
    BY <2>1, <2>3, BatchStep DEF OneAtATime, BatchesServe
  <2>5. PICK q : Proceed(t, q) /\ (q.at = "idle" => \A b \in Accounts : Served(accounts'[b], market))
    BY <2>4 DEF Onward
  <2>6. req'[t] = q
    BY <2>1, <2>5 DEF Proceed, ServiceInv, TypeOK
  <2>. QED BY <2>5, <2>6
<1>4. [][LeavesNoStaleState]_vars <=> BatchLeavesNoStaleState
  BY DEF LeavesNoStaleState, BatchLeavesNoStaleState
<1>. QED BY <1>2, <1>3, <1>4, PTL DEF Spec
=============================================================================
