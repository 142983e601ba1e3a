----------------------- MODULE HistoricalReplayProofs -----------------------
(***************************************************************************)
(* What holds in every replay, for any price history, scenario and policy: *)
(* of the loop that drives the episode first; then of the money, from what *)
(* the sales raise to what is taken off the loan; then that a replay       *)
(* follows the recovery protocol; and last that what it settles is closed. *)
(***************************************************************************)
EXTENDS HistoricalReplay, CollateralRiskProofs, SequenceTheorems

(***************************************************************************)
(* Alarms and the status of an episode                                     *)
(***************************************************************************)

(* An episode keeps its fields: what EXCEPT changes is there.                *)
IsEpisode == DOMAIN episode = DOMAIN NoEpisode

(* From the trigger to the end of the observation, an alarm has an episode.  *)
AlarmHasEpisode == phase \in {"act", "feed"} /\ Alarmed => episode.status # "none"

Granted == Larger(1, policy.attempts)

(* The status tells the truth: settling means that the target was raised,    *)
(* executing and failed that it was not, failed that every attempt granted   *)
(* was made, and no episode makes more.                                      *)
StatusIsTrue ==
  /\ episode.status \in {"none", "scheduled"} => episode.attempts = 0
  /\ episode.status = "settling" => Reached(episode.net)
  /\ episode.status \in {"executing", "failed"} => ~Reached(episode.net)
  /\ episode.status = "executing" => episode.attempts < Granted
  /\ episode.status = "failed" => episode.attempts = Granted
  /\ episode.attempts \in 0..Granted

ReplayInv ==
  /\ scenario \in Scenarios
  /\ IsEpisode
  /\ AlarmHasEpisode
  /\ StatusIsTrue

LEMMA GrantedIsPositive ==
  ASSUME scenario \in Scenarios
  PROVE  policy.attempts \in Nat /\ Granted \in Nat \ {0} /\ policy.attempts <= Granted
                                 /\ (Granted # 1 => Granted = policy.attempts)
<1>1. scenario.policy \in ExecutionPolicy
  BY ScenariosAssumption
<1>2. policy.attempts \in Nat
  BY <1>1 DEF ExecutionPolicy, policy
<1>. QED BY <1>2 DEF Granted, Larger

LEMMA ReplayInitInv == Init => ReplayInv
<1> SUFFICES ASSUME Init PROVE ReplayInv
  OBVIOUS
<1>1. scenario \in Scenarios /\ phase = "assess" /\ episode = NoEpisode
  BY DEF Init
<1>2. Granted \in Nat
  BY <1>1, GrantedIsPositive
<1>. QED BY <1>1, <1>2 DEF ReplayInv, IsEpisode, AlarmHasEpisode, StatusIsTrue, NoEpisode

(* The cleared episode is as good as none.                                   *)
LEMMA ClearedIsTrue ==
  ASSUME ReplayInv, UNCHANGED scenario, episode' = NoEpisode
  PROVE  IsEpisode' /\ StatusIsTrue'
<1>1. Granted \in Nat /\ Granted' = Granted
  BY GrantedIsPositive DEF ReplayInv, Granted, policy
<1>. QED BY <1>1 DEF IsEpisode, StatusIsTrue, NoEpisode

(* A step that touches neither money nor status of the episode.              *)
SameEpisode ==
  /\ DOMAIN episode' = DOMAIN episode
  /\ episode'.status = episode.status
  /\ episode'.attempts = episode.attempts
  /\ episode'.net = episode.net
  /\ episode'.target = episode.target

LEMMA SameIsTrue ==
  ASSUME ReplayInv, UNCHANGED scenario, SameEpisode
  PROVE  IsEpisode' /\ StatusIsTrue'
<1>1. Granted' = Granted
  BY DEF Granted, policy
<1>. QED BY <1>1 DEF ReplayInv, IsEpisode, StatusIsTrue, SameEpisode, Reached

(* The bars, the interest and the settlements of an observation.             *)
LEMMA FeedKeeps ==
  ASSUME ReplayInv, Observe \/ SettlePending
  PROVE  ReplayInv'
<1>1. phase' \in {"settle", "assess"} /\ UNCHANGED scenario
  BY DEF Observe, SettlePending
<1>2. SameEpisode
  <2>1. CASE Observe
    BY <2>1 DEF Observe, SameEpisode, ReplayInv, IsEpisode, NoEpisode
  <2>2. CASE SettlePending
    BY <2>2 DEF SettlePending, SameEpisode, ReplayInv, IsEpisode, NoEpisode
  <2>. QED BY <2>1, <2>2
<1>3. AlarmHasEpisode'
  BY <1>1 DEF AlarmHasEpisode
<1>. QED BY <1>1, <1>2, <1>3, SameIsTrue DEF ReplayInv

(* The assessment completes the episode or leaves it.                        *)
LEMMA AssessKeeps ==
  ASSUME ReplayInv, Assess
  PROVE  ReplayInv'
<1>1. phase' = "trigger" /\ UNCHANGED scenario /\ (episode' = NoEpisode \/ UNCHANGED episode)
  BY DEF Assess
<1>2. AlarmHasEpisode'
  BY <1>1 DEF AlarmHasEpisode
<1>3. CASE episode' = NoEpisode
  BY <1>1, <1>2, <1>3, ClearedIsTrue DEF ReplayInv
<1>4. CASE UNCHANGED episode
  BY <1>1, <1>2, <1>4, SameIsTrue DEF ReplayInv, SameEpisode
<1>. QED BY <1>1, <1>3, <1>4

(* The trigger opens an episode for an alarm that has none.                  *)
LEMMA TriggerKeeps ==
  ASSUME ReplayInv, TriggerEpisode
  PROVE  ReplayInv'
<1>1. UNCHANGED <<scenario, loan, state>> /\ (Alarmed' <=> Alarmed)
  BY DEF TriggerEpisode, Alarmed
<1>2. CASE episode.status = "none" /\ Alarmed
  <2>1. PICK target : episode' = NewEpisode(target)
    BY <1>2 DEF TriggerEpisode
  <2>2. /\ episode'.status = "scheduled" /\ episode'.attempts = 0
        /\ DOMAIN episode' = DOMAIN NoEpisode
    BY <2>1 DEF NewEpisode, NoEpisode
  <2>3. Granted' \in Nat
    BY <1>1, GrantedIsPositive DEF ReplayInv, Granted, policy
  <2>. QED BY <1>1, <2>2, <2>3 DEF ReplayInv, IsEpisode, AlarmHasEpisode, StatusIsTrue
<1>3. CASE ~(episode.status = "none" /\ Alarmed)
  <2>1. UNCHANGED episode
    BY <1>3 DEF TriggerEpisode
  <2>2. AlarmHasEpisode'
    BY <1>1, <1>3, <2>1 DEF AlarmHasEpisode
  <2>. QED BY <1>1, <2>1, <2>2, SameIsTrue DEF ReplayInv, SameEpisode
<1>. QED BY <1>2, <1>3

(* A call is cancelled only when the alarm is over.                          *)
LEMMA CancelKeeps ==
  ASSUME ReplayInv, CancelEpisode
  PROVE  ReplayInv'
<1>1. UNCHANGED <<scenario, loan, state>> /\ episode' = NoEpisode /\ state \notin AlarmStates
  BY DEF CancelEpisode, Cancelled
<1>2. ~Alarmed'
  BY <1>1 DEF Alarmed
<1>. QED BY <1>1, <1>2, ClearedIsTrue DEF ReplayInv, AlarmHasEpisode

(* An attempt counts, and the status that follows is that of its proceeds.   *)
LEMMA ExecuteKeeps ==
  ASSUME ReplayInv, ExecuteEpisode
  PROVE  ReplayInv'
<1>1. UNCHANGED scenario /\ episode.status \in {"scheduled", "executing"}
  BY DEF ExecuteEpisode, Due
<1>2. PICK net : /\ episode'.attempts = episode.attempts + 1
                 /\ episode'.net = net
                 /\ episode'.target = episode.target
                 /\ episode'.status = NextStatus(net)
                 /\ DOMAIN episode' = DOMAIN episode
  BY DEF ExecuteEpisode, ReplayInv, IsEpisode, NoEpisode
<1>3. Granted' = Granted /\ policy.attempts \in Nat /\ Granted \in Nat \ {0}
      /\ policy.attempts <= Granted /\ (Granted # 1 => Granted = policy.attempts)
  BY <1>1, GrantedIsPositive DEF ReplayInv, Granted, policy
<1>4. episode.attempts \in Nat /\ episode.attempts < Granted
  BY <1>1, <1>3 DEF ReplayInv, StatusIsTrue
<1>5. Reached(episode.net)' <=> Reached(net)
  BY <1>2 DEF Reached
<1>6. StatusIsTrue'
  BY <1>2, <1>3, <1>4, <1>5 DEF StatusIsTrue, NextStatus
<1>7. IsEpisode' /\ AlarmHasEpisode'
  BY <1>2 DEF ReplayInv, IsEpisode, AlarmHasEpisode, NextStatus
<1>. QED BY <1>1, <1>6, <1>7 DEF ReplayInv

(* Waiting changes nothing; the end of the history leaves an open episode    *)
(* unresolved, and there is no observation left to answer.                   *)
LEMMA OthersKeep ==
  ASSUME ReplayInv, Wait \/ EndReplay \/ UNCHANGED vars
  PROVE  ReplayInv'
<1>1. CASE Wait
  <2>1. UNCHANGED <<scenario, loan, state, episode>> /\ phase = "act"
    BY <1>1 DEF Wait
  <2>2. AlarmHasEpisode'
    BY <2>1 DEF ReplayInv, AlarmHasEpisode, Alarmed
  <2>. QED BY <2>1, <2>2, SameIsTrue DEF ReplayInv, SameEpisode
<1>2. CASE EndReplay
  <2>1. UNCHANGED scenario /\ phase' = "done"
    BY <1>2 DEF EndReplay
  <2>2. AlarmHasEpisode'
    BY <2>1 DEF AlarmHasEpisode
  <2>3. CASE episode.status \in Unresolved
    <3>1. /\ episode'.status = "unresolved_at_replay_end"
          /\ episode'.attempts = episode.attempts
          /\ DOMAIN episode' = DOMAIN episode
      BY <1>2, <2>3 DEF EndReplay, ReplayInv, IsEpisode, NoEpisode
    <3>2. Granted' = Granted
      BY <2>1 DEF Granted, policy
    <3>. QED BY <2>1, <2>2, <3>1, <3>2 DEF ReplayInv, IsEpisode, StatusIsTrue
  <2>4. CASE episode.status \notin Unresolved
    <3>1. UNCHANGED episode
      BY <1>2, <2>4 DEF EndReplay
    <3>. QED BY <2>1, <2>2, <3>1, SameIsTrue DEF ReplayInv, SameEpisode
  <2>. QED BY <2>3, <2>4
<1>3. CASE UNCHANGED vars
  <2>1. UNCHANGED <<scenario, phase, loan, state, episode>>
    BY <1>3 DEF vars
  <2>2. AlarmHasEpisode'
    BY <2>1 DEF ReplayInv, AlarmHasEpisode, Alarmed
  <2>. QED BY <2>1, <2>2, SameIsTrue DEF ReplayInv, SameEpisode
<1>. QED BY <1>1, <1>2, <1>3

LEMMA ReplayInductive == ReplayInv /\ [Next]_vars => ReplayInv'
BY FeedKeeps, AssessKeeps, TriggerKeeps, CancelKeeps, ExecuteKeeps, OthersKeep DEF Next

(* No alarm goes unanswered: no price history, stress or policy leaves an    *)
(* obligation in alarm without an episode when its observation is over.      *)
THEOREM AlarmsAreAnswered == Spec => []AlarmIsAnswered
<1>1. ReplayInv => AlarmIsAnswered
  BY DEF ReplayInv, AlarmHasEpisode, AlarmIsAnswered, Alarmed
<1>. QED BY <1>1, ReplayInitInv, ReplayInductive, PTL DEF Spec

(* The status of an episode is never wrong about what was raised, and no     *)
(* more attempts are made than the policy grants, whatever the sales bring.  *)
THEOREM StatusTellsTheTruth == Spec => []StatusIsTrue
<1>1. ReplayInv => StatusIsTrue
  BY DEF ReplayInv
<1>. QED BY <1>1, ReplayInitInv, ReplayInductive, PTL DEF Spec

(***************************************************************************)
(* The end of the replay                                                   *)
(***************************************************************************)
(* When the loop has ended, no episode is open; and there are no more        *)
(* observations than the history has.                                        *)
EndInv ==
  /\ phase \in Phases
  /\ index \in 0..MaxObservations
  /\ phase = "done" => episode.status \notin Unresolved

(* Steps left before the phase returns to an observation.                    *)
StepsToday ==
  CASE phase = "settle"  -> 5
    [] phase = "assess"  -> 4
    [] phase = "trigger" -> 3
    [] phase = "act"     -> 2
    [] phase = "feed"    -> 1
    [] OTHER             -> 0

StepsLeft == 5 * (MaxObservations - index) + StepsToday

(* A step of the loop leaves fewer of them.                                  *)
ComesCloser == StepsLeft' < StepsLeft /\ StepsLeft' \in Nat

LEMMA EndStarts == Init => EndInv
BY HistoryAssumption DEF Init, EndInv, Phases

LEMMA EndKept == ReplayInv /\ EndInv /\ [Next]_vars => EndInv'
<1> SUFFICES ASSUME ReplayInv, EndInv, [Next]_vars PROVE EndInv'
  OBVIOUS
<1>1. CASE Observe
  BY <1>1, HistoryAssumption DEF Observe, EndInv, Phases
<1>2. CASE SettlePending \/ Assess \/ TriggerEpisode \/ CancelEpisode \/ ExecuteEpisode \/ Wait
  <2>1. phase' \in Phases /\ phase' # "done" /\ UNCHANGED index
    BY <1>2 DEF SettlePending, Assess, TriggerEpisode, CancelEpisode, ExecuteEpisode, Wait, Phases
  <2>. QED BY <2>1 DEF EndInv
<1>3. CASE EndReplay
  <2>1. episode'.status \notin Unresolved
    BY <1>3 DEF EndReplay, ReplayInv, IsEpisode, NoEpisode, Unresolved
  <2>2. phase' = "done" /\ UNCHANGED index
    BY <1>3 DEF EndReplay
  <2>. QED BY <2>1, <2>2 DEF EndInv, Phases
<1>4. CASE UNCHANGED vars
  BY <1>4 DEF vars, EndInv
<1>. QED BY <1>1, <1>2, <1>3, <1>4 DEF Next

LEMMA StepComesCloser == EndInv /\ Next => ComesCloser
<1> SUFFICES ASSUME EndInv, Next PROVE ComesCloser
  OBVIOUS
<1>1. index \in Nat /\ MaxObservations \in Nat /\ index <= MaxObservations
  BY HistoryAssumption DEF EndInv
<1>2. CASE Observe
  <2>1. /\ index < MaxObservations /\ index' = index + 1
        /\ phase = "feed" /\ phase' = "settle"
    BY <1>2 DEF Observe
  <2>2. StepsToday = 1 /\ StepsToday' = 5
    BY <2>1 DEF StepsToday
  <2>. QED BY <1>1, <2>1, <2>2 DEF ComesCloser, StepsLeft
<1>3. CASE ~Observe
  <2>1. UNCHANGED index
    BY <1>3 DEF Next, SettlePending, Assess, TriggerEpisode, CancelEpisode, ExecuteEpisode,
                Wait, EndReplay
  <2>2. \/ phase = "settle"  /\ phase' = "assess"
        \/ phase = "assess"  /\ phase' = "trigger"
        \/ phase = "trigger" /\ phase' = "act"
        \/ phase = "act"     /\ phase' = "feed"
        \/ phase = "feed"    /\ phase' = "done"
    BY <1>3 DEF Next, SettlePending, Assess, TriggerEpisode, CancelEpisode, ExecuteEpisode,
                Wait, EndReplay
  <2>3. StepsToday \in Nat /\ StepsToday' = StepsToday - 1
    BY <2>2 DEF StepsToday
  <2>4. StepsToday' \in Nat
    BY <2>2 DEF StepsToday
  <2>. QED BY <1>1, <2>1, <2>3, <2>4 DEF ComesCloser, StepsLeft
<1>. QED BY <1>2, <1>3

(* The part of EveryEpisodeIsClosed that needs no fairness: each step of the *)
(* loop leaves fewer to take, and a replay that has ended has no open        *)
(* episode, whatever the history, the policy and the sales.                  *)
THEOREM NoEpisodeOutlivesTheReplay ==
  Spec => /\ [](phase = "done" => episode.status \notin Unresolved)
          /\ [][ComesCloser]_vars
<1>1. EndInv => (phase = "done" => episode.status \notin Unresolved)
  BY DEF EndInv
<1>2. EndInv /\ [Next]_vars => [ComesCloser]_vars
  BY StepComesCloser
<1>. QED BY <1>1, <1>2, ReplayInitInv, ReplayInductive, EndStarts, EndKept, PTL DEF Spec

(***************************************************************************)
(* Totals                                                                  *)
(***************************************************************************)

(* The sums of the prefixes of a sequence of numbers.                        *)
LEMMA TotalRecursion ==
  ASSUME NEW s \in Seq(Nat)
  PROVE  \E sum : /\ Total(s) = sum[Len(s)]
                  /\ sum[0] = 0
                  /\ \A n \in 1..Len(s) : sum[n] = sum[n - 1] + s[n]
                  /\ \A n \in 0..Len(s) : sum[n] \in Nat
<1> DEFINE N == Len(s)
           IsSum(f) == f = [n \in 0..N |-> IF n = 0 THEN 0 ELSE f[n - 1] + s[n]]
           sum == CHOOSE f : IsSum(f)
           Adding(n) == [x \in Nat |-> x + s[n]]
           step == [n \in 1..N |-> Adding(n)]
<1>1. N \in Nat /\ \A n \in 1..N : s[n] \in Nat
  BY LenProperties, ElementOfSeq
<1>2. Total(s) = sum[N]
  BY DEF Total
<1> HIDE DEF N
<1>3. Steps(step, N, Nat)
  <2>1. \A n \in 1..N : Adding(n) \in [Nat -> Nat]
    BY <1>1
  <2> HIDE DEF Adding
  <2>. QED BY <2>1 DEF Steps
<1>4. \A n \in 1..N, x \in Nat : step[n][x] = x + s[n]
  OBVIOUS
<1> HIDE DEF step
<1>5. PICK f \in [0..N -> Nat] : Follows(f, N, 0, step)
  <2>1. N \in Nat /\ 0 \in Nat
    BY <1>1
  <2>. QED BY ONLY <1>3, <2>1, RecursionExists
<1>6. IsSum(f)
  <2>1. \A n \in 1..N : f[n] = f[n - 1] + s[n]
    <3> TAKE n \in 1..N
    <3>1. f[n - 1] \in Nat
      BY <1>1
    <3>. QED BY <3>1, <1>4, <1>5 DEF Follows
  <2>. QED BY <2>1, <1>1, <1>5 DEF Follows
<1>7. IsSum(sum)
  BY <1>6
<1> HIDE DEF sum
<1>8. sum[0] = 0 /\ \A n \in 1..N : sum[n] = sum[n - 1] + s[n]
  BY <1>1, <1>7
<1>9. \A n \in 0..N : sum[n] \in Nat
  <2>1. \A n \in 1..N : sum[n - 1] \in Nat => sum[n] = step[n][sum[n - 1]]
    BY <1>4, <1>8
  <2>2. sum[0] \in Nat
    BY <1>8
  <2>. QED BY ONLY <1>1, <1>3, <2>1, <2>2, RecursionTyped
<1>. QED BY <1>2, <1>8, <1>9 DEF N

(* A total of natural numbers is one.                                        *)
LEMMA TotalNat ==
  ASSUME NEW s \in Seq(Nat)
  PROVE  Total(s) \in Nat
<1>1. Len(s) \in Nat
  BY LenProperties
<1>. QED BY <1>1, TotalRecursion

(* Nothing totals nothing.                                                   *)
LEMMA TotalEmpty == Total(<<>>) = 0
<1>1. <<>> \in Seq(Nat) /\ Len(<<>>) = 0
  BY EmptySeq
<1>. QED BY <1>1, TotalRecursion

(* Sequences that agree so far have the same sum so far.                     *)
LEMMA TotalAppend ==
  ASSUME NEW s \in Seq(Nat), NEW x \in Nat
  PROVE  Total(Append(s, x)) = Total(s) + x
<1> DEFINE t == Append(s, x)
           N == Len(s)
<1>1. /\ t \in Seq(Nat) /\ Len(t) = N + 1 /\ N \in Nat
      /\ \A n \in 1..N : t[n] = s[n]
      /\ t[N + 1] = x
  BY AppendProperties, LenProperties
<1> HIDE DEF t, N
<1>2. PICK u : /\ Total(s) = u[N] /\ u[0] = 0
               /\ \A n \in 1..N : u[n] = u[n - 1] + s[n]
  BY TotalRecursion DEF N
<1>3. PICK v : /\ Total(t) = v[N + 1] /\ v[0] = 0
               /\ \A n \in 1..(N + 1) : v[n] = v[n - 1] + t[n]
  <2>1. \E v : /\ Total(t) = v[Len(t)] /\ v[0] = 0
               /\ \A n \in 1..Len(t) : v[n] = v[n - 1] + t[n]
    BY <1>1, TotalRecursion
  <2>. QED BY <2>1, <1>1
<1> DEFINE Same == {n \in 0..N : u[n] = v[n]}
<1>4. 0 \in Same
  BY <1>1, <1>2, <1>3
<1>5. ASSUME NEW n \in 0..(N - 1), n \in Same
      PROVE  n + 1 \in Same
  <2>1. n + 1 \in 1..N /\ (n + 1) - 1 = n
    BY <1>1
  <2>2. u[n + 1] = u[n] + s[n + 1] /\ v[n + 1] = v[n] + t[n + 1] /\ t[n + 1] = s[n + 1]
    BY <2>1, <1>1, <1>2, <1>3
  <2>. QED BY <2>1, <2>2, <1>5
<1> HIDE DEF Same
<1>6. 0..N \subseteq Same
  BY <1>1, <1>4, <1>5, PrefixInduction
<1>7. u[N] = v[N]
  BY <1>1, <1>6 DEF Same
<1>8. v[N + 1] = v[N] + x
  BY <1>1, <1>3
<1>. QED BY <1>2, <1>3, <1>7, <1>8 DEF t

(* Totals add up, place by place.                                            *)
LEMMA TotalAdds ==
  ASSUME NEW s \in Seq(Nat), NEW t \in Seq(Nat), NEW w \in Seq(Nat),
         Len(s) = Len(w), Len(t) = Len(w), \A n \in 1..Len(w) : w[n] = s[n] + t[n]
  PROVE  Total(w) = Total(s) + Total(t)
<1> DEFINE N == Len(w)
<1>1. N \in Nat /\ \A n \in 1..N : s[n] \in Nat /\ t[n] \in Nat
  BY LenProperties, ElementOfSeq
<1>2. PICK a : /\ Total(s) = a[N] /\ a[0] = 0
               /\ \A n \in 1..N : a[n] = a[n - 1] + s[n]
               /\ \A n \in 0..N : a[n] \in Nat
  <2>1. \E a : /\ Total(s) = a[Len(s)] /\ a[0] = 0
               /\ \A n \in 1..Len(s) : a[n] = a[n - 1] + s[n]
               /\ \A n \in 0..Len(s) : a[n] \in Nat
    BY ONLY TotalRecursion, s \in Seq(Nat)
  <2>2. Len(s) = N
    OBVIOUS
  <2> HIDE DEF N
  <2>. QED BY ONLY <2>1, <2>2
<1>3. PICK b : /\ Total(t) = b[N] /\ b[0] = 0
               /\ \A n \in 1..N : b[n] = b[n - 1] + t[n]
               /\ \A n \in 0..N : b[n] \in Nat
  <2>1. \E b : /\ Total(t) = b[Len(t)] /\ b[0] = 0
               /\ \A n \in 1..Len(t) : b[n] = b[n - 1] + t[n]
               /\ \A n \in 0..Len(t) : b[n] \in Nat
    BY ONLY TotalRecursion, t \in Seq(Nat)
  <2>2. Len(t) = N
    OBVIOUS
  <2> HIDE DEF N
  <2>. QED BY ONLY <2>1, <2>2
<1>4. PICK c : /\ Total(w) = c[N] /\ c[0] = 0
               /\ \A n \in 1..N : c[n] = c[n - 1] + w[n]
  BY TotalRecursion
<1> HIDE DEF N
<1> DEFINE Same == {n \in 0..N : c[n] = a[n] + b[n]}
<1>5. 0 \in Same
  BY <1>1, <1>2, <1>3, <1>4
<1>6. ASSUME NEW n \in 0..(N - 1), n \in Same
      PROVE  n + 1 \in Same
  <2>1. n + 1 \in 1..N /\ (n + 1) - 1 = n /\ n \in 0..N
    BY <1>1
  <2>2. /\ a[n + 1] = a[n] + s[n + 1]
        /\ b[n + 1] = b[n] + t[n + 1]
        /\ c[n + 1] = c[n] + (s[n + 1] + t[n + 1])
    BY <2>1, <1>2, <1>3, <1>4 DEF N
  <2>3. /\ a[n] \in Nat /\ b[n] \in Nat /\ s[n + 1] \in Nat /\ t[n + 1] \in Nat
    BY <2>1, <1>1, <1>2, <1>3
  <2>4. c[n] = a[n] + b[n]
    BY <1>6
  <2>5. PICK p \in Nat, q \in Nat, x \in Nat, y \in Nat :
          p = a[n] /\ q = b[n] /\ x = s[n + 1] /\ y = t[n + 1]
    BY <2>3
  <2>6. (p + q) + (x + y) = (p + x) + (q + y)
    OBVIOUS
  <2>7. c[n + 1] = a[n + 1] + b[n + 1]
    BY <2>2, <2>4, <2>5, <2>6
  <2>. QED BY <2>1, <2>7
<1> HIDE DEF Same
<1>7. 0..N \subseteq Same
  BY <1>1, <1>5, <1>6, PrefixInduction
<1>. QED BY <1>1, <1>2, <1>3, <1>4, <1>7 DEF Same

(* A sum is at least any of its amounts, and so zero only if all are.        *)
LEMMA TotalAtLeast ==
  ASSUME NEW s \in Seq(Nat), NEW i \in 1..Len(s)
  PROVE  s[i] <= Total(s)
<1> DEFINE N == Len(s)
<1>1. N \in Nat /\ \A n \in 1..N : s[n] \in Nat
  BY LenProperties, ElementOfSeq
<1>2. PICK a : /\ Total(s) = a[N] /\ a[0] = 0
               /\ \A n \in 1..N : a[n] = a[n - 1] + s[n]
               /\ \A n \in 0..N : a[n] \in Nat
  BY TotalRecursion
<1> HIDE DEF N
<1> DEFINE Above == {n \in 0..N : n >= i => s[i] <= a[n]}
<1>0. i \in 1..N
  BY DEF N
<1>3. 0 \in Above
  BY <1>0, <1>1
<1>4. ASSUME NEW n \in 0..(N - 1), n \in Above
      PROVE  n + 1 \in Above
  <2>1. n + 1 \in 1..N /\ (n + 1) - 1 = n /\ n \in 0..N
    BY <1>1
  <2>2. /\ a[n + 1] = a[n] + s[n + 1]
        /\ a[n] \in Nat /\ s[n + 1] \in Nat /\ s[i] \in Nat
    BY <2>1, <1>0, <1>1, <1>2
  <2>3. n >= i \/ n + 1 = i \/ ~(n + 1 >= i)
    BY <1>0, <2>1
  <2>. QED BY <2>1, <2>2, <2>3, <1>4
<1> HIDE DEF Above
<1>5. 0..N \subseteq Above
  BY <1>1, <1>3, <1>4, PrefixInduction
<1>6. N \in 0..N /\ N >= i
  BY <1>0, <1>1
<1>. QED BY <1>2, <1>5, <1>6 DEF Above

(* Zeros total nothing.                                                      *)
LEMMA TotalOfZeros ==
  ASSUME NEW s \in Seq(Nat), \A n \in 1..Len(s) : s[n] = 0
  PROVE  Total(s) = 0
<1>1. Total(s) = Total(s) + Total(s)
  BY TotalAdds
<1>. QED BY <1>1, TotalNat

(* Whole cents add up to whole cents.                                        *)
LEMMA TotalIsCents ==
  ASSUME NEW s \in Seq(Nat), \A n \in 1..Len(s) : IsCents(s[n])
  PROVE  IsCents(Total(s))
<1> DEFINE N == Len(s)
<1>1. N \in Nat
  BY LenProperties
<1>2. PICK a : /\ Total(s) = a[N] /\ a[0] = 0
               /\ \A n \in 1..N : a[n] = a[n - 1] + s[n]
  BY TotalRecursion
<1> HIDE DEF N
<1> DEFINE Good == {n \in 0..N : IsCents(a[n])}
<1>3. 0 \in Good
  BY <1>1, <1>2, CentAssumption DEF IsCents
<1>4. ASSUME NEW n \in 0..(N - 1), n \in Good
      PROVE  n + 1 \in Good
  <2>1. n + 1 \in 1..N /\ (n + 1) - 1 = n
    BY <1>1
  <2>2. a[n + 1] = a[n] + s[n + 1] /\ IsCents(s[n + 1]) /\ IsCents(a[n])
    BY <2>1, <1>2, <1>4 DEF N
  <2>. QED BY <2>1, <2>2, CentsAdd
<1> HIDE DEF Good
<1>5. 0..N \subseteq Good
  BY <1>1, <1>3, <1>4, PrefixInduction
<1>. QED BY <1>1, <1>2, <1>5 DEF Good

(***************************************************************************)
(* The market, as the evaluator sees it                                    *)
(***************************************************************************)

(* A function on 1..n is a sequence of length n.                             *)
LEMMA FunctionIsSeq ==
  ASSUME NEW n \in Nat, NEW S, NEW f \in [1..n -> S]
  PROVE  f \in Seq(S) /\ Len(f) = n
<1>1. f \in Seq(S)
  BY SeqDef
<1>2. DOMAIN f = 1..Len(f) /\ Len(f) \in Nat
  BY <1>1, LenProperties
<1>. QED BY <1>1, <1>2

(* The listing names every asset, at some place.                             *)
LEMMA ListingFacts ==
  /\ Len(Listing) \in Nat
  /\ DOMAIN Listing = 1..Len(Listing)
  /\ \A i \in 1..Len(Listing) : Listing[i] \in Assets
  /\ \A a \in Assets : \E i \in 1..Len(Listing) : a = Listing[i]
<1>1. Listing \in Seq(Assets)
  BY ListingAssumption
<1>2. Len(Listing) \in Nat /\ DOMAIN Listing = 1..Len(Listing)
  BY <1>1, LenProperties
<1>. QED BY <1>2 DEF Assets, ToSet

(* The quotes a replay works with.                                           *)
BarsTyped == bars \in [Assets -> [price: Nat, volume: Nat, age: Nat]]

Lots == [Assets -> Nat]

(* The quotes of an observation are quotes, under any stress.                *)
LEMMA QuotesType ==
  ASSUME BarsTyped
  PROVE  Quotes \in [Assets -> Quote]
<1> SUFFICES ASSUME NEW a \in Assets
             PROVE  [price  |-> ConvertedPrice(a),
                     volume |-> bars[a].volume,
                     age    |-> bars[a].age + (IF Stress = "stale" THEN 10 ELSE 0),
                     halted |-> Stress = "halt"] \in Quote
  BY DEF Quotes
<1>1. bars[a] \in [price: Nat, volume: Nat, age: Nat]
  BY DEF BarsTyped
<1>2. ConvertedPrice(a) \in Nat /\ bars[a].volume \in Nat
  BY <1>1 DEF ConvertedPrice
<1>3. bars[a].age + (IF Stress = "stale" THEN 10 ELSE 0) \in Nat
  BY <1>1
<1>. QED BY <1>2, <1>3 DEF Quote

(* Lots have a natural value.                                                *)
LEMMA MarketValueNat ==
  ASSUME BarsTyped, NEW lots \in Lots
  PROVE  MarketValue(lots) \in Nat
<1> DEFINE worth == [i \in DOMAIN Listing |-> lots[Listing[i]] * Quotes[Listing[i]].price]
           N == Len(Listing)
<1>1. ASSUME NEW i \in 1..N
      PROVE  lots[Listing[i]] * Quotes[Listing[i]].price \in Nat
  <2>1. Listing[i] \in Assets
    BY ListingFacts
  <2>2. lots[Listing[i]] \in Nat
    BY <2>1 DEF Lots
  <2>3. Quotes[Listing[i]].price \in Nat
    BY <2>1, QuotesType DEF Quote
  <2>. QED BY <2>2, <2>3
<1>2. N \in Nat /\ worth \in [1..N -> Nat]
  BY <1>1, ListingFacts
<1>3. worth \in Seq(Nat)
  BY <1>2, FunctionIsSeq
<1>. QED BY <1>3, TotalNat DEF MarketValue

(* A share of an amount, in percent, is one.                                 *)
LEMMA ShareNat ==
  ASSUME NEW x \in Nat, NEW share \in Nat
  PROVE  (x * share) \div 100 \in Nat
<1>1. x * share \in Nat
  OBVIOUS
<1>. QED BY <1>1

(* What the evaluator sees is a valuation.                                   *)
LEMMA ValuationTyped ==
  ASSUME BarsTyped, condition \in Conditions, NEW lots \in Lots
  PROVE  ValuationOf(lots) \in Valuation
<1> DEFINE value == MarketValue(lots)
           usable == IF \E a \in Assets : Quotes[a].halted THEN 0 ELSE value
<1>1. condition.ltv \in Nat /\ condition.recovery \in Nat /\ condition.score \in 0..100
  BY ConditionsAssumption
<1>2. value \in Nat
  BY MarketValueNat
<1>3. usable \in Nat
  BY <1>2
<1>4. ValuationOf(lots) = [value    |-> value,
                           approved |-> (usable * condition.ltv) \div 100,
                           stressed |-> (usable * condition.recovery) \div 100,
                           score    |-> condition.score]
  BY DEF ValuationOf
<1> HIDE DEF value, usable
<1>5. (usable * condition.ltv) \div 100 \in Nat /\ (usable * condition.recovery) \div 100 \in Nat
  BY <1>1, <1>3, ShareNat
<1>. QED BY <1>1, <1>2, <1>4, <1>5 DEF Valuation

(* The limit of any holdings is an amount.                                   *)
LEMMA LimitNat ==
  ASSUME BarsTyped, condition \in Conditions, NEW lots \in Lots
  PROVE  LimitOf(lots) \in Nat
<1> DEFINE v == ValuationOf(lots)
<1>1. v \in Valuation
  BY ValuationTyped
<1>2. LimitOf(lots) \in {0, SafeCreditLimit(v)}
  BY DEF LimitOf, Once
<1> HIDE DEF v
<1>. QED BY <1>1, <1>2, SafeCreditLimitNat

(* So is the repayment that cures an obligation.                             *)
LEMMA CureNat ==
  ASSUME BarsTyped, condition \in Conditions, NEW lots \in Lots, NEW owed \in Nat
  PROVE  CureOf(lots, owed) \in Nat
<1> DEFINE v == ValuationOf(lots)
<1>1. v \in Valuation
  BY ValuationTyped
<1>2. CureOf(lots, owed) \in {0, RepaymentOnlyCure(v, owed)}
  BY DEF CureOf, Once
<1> HIDE DEF v
<1>. QED BY <1>1, <1>2, RepaymentOnlyCureNat

(* An assessment has one of the margin states.                               *)
LEMMA StateTyped ==
  ASSUME NEW lots, NEW owed
  PROVE  StateOf(lots, owed) \in MarginStates
<1> DEFINE v == ValuationOf(lots)
           assessed == IF Unassessable(v, owed) THEN "liquidation" ELSE MarginState(v, owed)
<1>1. StateOf(lots, owed) \in {"safe", "liquidation", assessed}
  BY DEF StateOf, Once
<1>2. assessed \in MarginStates
  BY MarginStateType DEF MarginStates
<1> HIDE DEF assessed
<1>. QED BY <1>1, <1>2 DEF MarginStates

(* The buffer for interest is an amount.                                     *)
LEMMA BufferNat ==
  ASSUME NEW l \in Loan, NEW n \in Nat
  PROVE  ProjectedInterestBuffer(l, n) \in Nat /\ (l.principal \div Cent) * Rate * n \in Nat
<1>1. l.principal \div Cent \in Nat
  BY CentAssumption DEF Loan
<1>2. (l.principal \div Cent) * Rate \in Nat
  BY <1>1, RateAssumption
<1>3. (l.principal \div Cent) * Rate * n \in Nat
  BY <1>2
<1>. QED BY <1>3, RoundMoneyNat DEF ProjectedInterestBuffer

(***************************************************************************)
(* Interest, day by day                                                    *)
(***************************************************************************)

(* What the whole cents of the principal earn in some days.                  *)
Earned(l, days) == (l.principal \div Cent) * Rate * days

(* What is earned is an amount, and each day adds the same to it.            *)
LEMMA EarnedNat ==
  ASSUME NEW l \in Loan
  PROVE  /\ \A n \in Nat : Earned(l, n) \in Nat
         /\ Earned(l, 0) = 0
         /\ \A n \in Nat : Earned(l, n + 1) = Earned(l, n) + Earned(l, 1)
<1> DEFINE rate == (l.principal \div Cent) * Rate
<1>1. l.principal \div Cent \in Nat
  BY CentAssumption DEF Loan
<1>2. rate \in Nat
  BY <1>1, RateAssumption
<1> HIDE DEF rate
<1>3. \A n \in Nat : rate * n \in Nat /\ rate * (n + 1) = rate * n + rate * 1
  BY <1>2
<1>4. rate * 0 = 0
  BY <1>2
<1>. QED BY <1>3, <1>4 DEF Earned, rate

(* A larger principal earns no less.                                         *)
LEMMA EarnedMonotone ==
  ASSUME NEW l \in Loan, NEW m \in Loan, NEW n \in Nat, l.principal <= m.principal
  PROVE  Earned(l, n) <= Earned(m, n)
<1>1. l.principal \in Nat /\ m.principal \in Nat
  BY DEF Loan
<1> DEFINE p == l.principal \div Cent
           q == m.principal \div Cent
<1>2. p \in Nat /\ q \in Nat /\ p <= q
  BY <1>1, CentAssumption, QuotientMonotone
<1> HIDE DEF p, q
<1>3. Rate * p <= Rate * q /\ Rate * p \in Nat /\ Rate * q \in Nat
  BY <1>2, RateAssumption, ProductMonotone
<1>4. n * (Rate * p) <= n * (Rate * q)
  BY <1>3, ProductMonotone
<1>5. n * (Rate * p) = p * Rate * n /\ n * (Rate * q) = q * Rate * n
  BY <1>2, RateAssumption
<1>. QED BY <1>4, <1>5 DEF Earned, p, q

(* A day's interest is added to the obligation, none to one that is paid.    *)
LEMMA AccruedDay ==
  ASSUME NEW l \in Loan
  PROVE  /\ AccrueInterest(l, 1) \in Loan
         /\ Balance(l) <= Balance(AccrueInterest(l, 1))
         /\ l.principal <= AccrueInterest(l, 1).principal
         /\ Balance(l) = 0 => Balance(AccrueInterest(l, 1)) = 0
         /\ AccrualMode = "engine_calculated"
              => Balance(l) + Earned(l, 1) <= Balance(AccrueInterest(l, 1))
<1> DEFINE due == InterestDue(l, 1)
           base == IF Compounding = "simple" THEN l.principal ELSE l.principal + l.interest
<1>1. /\ l.principal \in Nat /\ l.interest \in Nat /\ l.fees \in Nat
      /\ DOMAIN l = {"principal", "interest", "fees"}
  BY DEF Loan
<1>2. due \in Nat
  BY InterestDueNat
<1>3. due = IF AccrualMode = "client_supplied" THEN 0 ELSE (base \div Cent) * Rate * 1
  BY DEF InterestDue
<1>4. base \in Nat /\ l.principal <= base
  BY <1>1
<1>5. AccrualMode = "engine_calculated" => Earned(l, 1) <= due
  <2>1. l.principal \div Cent \in Nat /\ base \div Cent \in Nat
        /\ l.principal \div Cent <= base \div Cent
    BY <1>1, <1>4, CentAssumption, QuotientMonotone
  <2> HIDE DEF base
  <2>2. Rate * (l.principal \div Cent) <= Rate * (base \div Cent)
    BY <2>1, RateAssumption, ProductMonotone
  <2>3. /\ Rate * (l.principal \div Cent) = (l.principal \div Cent) * Rate * 1
        /\ Rate * (base \div Cent) = (base \div Cent) * Rate * 1
    BY <2>1, RateAssumption
  <2>. QED BY <2>2, <2>3, <1>3 DEF Earned
<1>6. Balance(l) = 0 => due = 0
  <2> SUFFICES ASSUME Balance(l) = 0 PROVE due = 0
    OBVIOUS
  <2>1. base = 0
    BY <1>1 DEF Balance
  <2>2. base \div Cent = 0
    BY <2>1, CentAssumption
  <2>. QED BY <2>2, <1>3, RateAssumption
<1> HIDE DEF due
<1>7. AccrueInterest(l, 1) =
        IF AccrualMode = "engine_calculated" /\ Compounding = "compound"
        THEN [principal |-> l.principal + l.interest + due, interest |-> 0, fees |-> l.fees]
        ELSE [principal |-> l.principal, interest |-> l.interest + due, fees |-> l.fees]
  <2>1. l = [principal |-> l.principal, interest |-> l.interest, fees |-> l.fees]
    BY DEF Loan
  <2>2. PICK p, i, f : l = [principal |-> p, interest |-> i, fees |-> f]
    BY <2>1
  <2>3. AccrueInterest(l, 1) =
          IF AccrualMode = "engine_calculated" /\ Compounding = "compound"
          THEN [l EXCEPT !.principal = @ + l.interest + due, !.interest = 0]
          ELSE [l EXCEPT !.interest = @ + due]
    BY DEF AccrueInterest, due
  <2>. QED BY <2>2, <2>3
<1>8. Balance(AccrueInterest(l, 1)) = Balance(l) + due /\ l.principal <= AccrueInterest(l, 1).principal
  BY <1>1, <1>2, <1>7 DEF Balance
<1>9. Balance(l) \in Nat /\ Earned(l, 1) \in Nat
  BY BalanceNat, EarnedNat
<1>. QED BY <1>2, <1>5, <1>6, <1>8, <1>9, AccrueInterestType

(* The loan, day by day.                                                     *)
LEMMA AccrueRecursion ==
  ASSUME NEW start \in Loan, NEW N \in Nat
  PROVE  \E after : /\ AccrueDays(start, N) = after[N]
                    /\ after[0] = start
                    /\ \A n \in 1..N : after[n] = AccrueInterest(after[n - 1], 1)
                    /\ \A n \in 0..N : after[n] \in Loan
<1> DEFINE IsAfter(f) == f = [n \in 0..N |->
                                IF n = 0 THEN start
                                ELSE CHOOSE y \in {AccrueInterest(l, 1) : l \in {f[n - 1]}} : TRUE]
           after == CHOOSE f : IsAfter(f)
           Day == [l \in Loan |-> AccrueInterest(l, 1)]
           step == [n \in 1..N |-> Day]
<1>1. AccrueDays(start, N) = after[N]
  BY DEF AccrueDays, Once
<1>2. \A l : (CHOOSE y \in {AccrueInterest(x, 1) : x \in {l}} : TRUE) = AccrueInterest(l, 1)
  OBVIOUS
<1>3. Steps(step, N, Loan)
  <2>1. Day \in [Loan -> Loan]
    BY AccrueInterestType
  <2> HIDE DEF Day
  <2>. QED BY <2>1 DEF Steps
<1>4. \A n \in 1..N, l \in Loan : step[n][l] = AccrueInterest(l, 1)
  OBVIOUS
<1> HIDE DEF step
<1>5. PICK f \in [0..N -> Loan] : Follows(f, N, start, step)
  BY ONLY <1>3, start \in Loan, N \in Nat, RecursionExists
<1>6. IsAfter(f)
  <2>1. \A n \in 1..N : f[n] = AccrueInterest(f[n - 1], 1)
    <3> TAKE n \in 1..N
    <3>1. f[n - 1] \in Loan
      BY <1>5
    <3>. QED BY <3>1, <1>4, <1>5 DEF Follows
  <2>. QED BY <2>1, <1>2, <1>5 DEF Follows
<1>7. IsAfter(after)
  BY <1>6
<1> HIDE DEF after
<1>8. after[0] = start /\ \A n \in 1..N : after[n] = AccrueInterest(after[n - 1], 1)
  BY <1>2, <1>7
<1>9. \A n \in 0..N : after[n] \in Loan
  <2>1. \A n \in 1..N : after[n - 1] \in Loan => after[n] = step[n][after[n - 1]]
    BY <1>4, <1>8
  <2>2. after[0] \in Loan
    BY <1>8
  <2>. QED BY ONLY N \in Nat, <1>3, <2>1, <2>2, RecursionTyped
<1>. QED BY <1>1, <1>8, <1>9

(* Interest of some days: an obligation never shrinks by it, one that is     *)
(* paid off stays paid off, and if the engine calculates it, it is no less   *)
(* than simple interest on the principal of the first day.                   *)
LEMMA AccruedDays ==
  ASSUME NEW l \in Loan, NEW days \in Nat
  PROVE  /\ AccrueDays(l, days) \in Loan
         /\ Balance(l) <= Balance(AccrueDays(l, days))
         /\ l.principal <= AccrueDays(l, days).principal
         /\ Balance(l) = 0 => Balance(AccrueDays(l, days)) = 0
         /\ AccrualMode = "engine_calculated"
              => Balance(l) + Earned(l, days) <= Balance(AccrueDays(l, days))
<1>1. PICK after : /\ AccrueDays(l, days) = after[days]
                   /\ after[0] = l
                   /\ \A n \in 1..days : after[n] = AccrueInterest(after[n - 1], 1)
                   /\ \A n \in 0..days : after[n] \in Loan
  BY AccrueRecursion
<1> DEFINE Grown(n) ==
             /\ Balance(l) <= Balance(after[n])
             /\ l.principal <= after[n].principal
             /\ Balance(l) = 0 => Balance(after[n]) = 0
             /\ AccrualMode = "engine_calculated"
                  => Balance(l) + Earned(l, n) <= Balance(after[n])
           Good == {n \in 0..days : Grown(n)}
<1>2. 0 \in Good
  <2>1. Balance(l) \in Nat /\ l.principal \in Nat /\ Earned(l, 0) = 0
    BY BalanceNat, EarnedNat DEF Loan
  <2>2. Grown(0)
    BY <1>1, <2>1
  <2>. QED BY <2>2
<1>3. ASSUME NEW n \in 0..(days - 1), n \in Good
      PROVE  n + 1 \in Good
  <2>1. n + 1 \in 1..days /\ (n + 1) - 1 = n /\ n \in 0..days /\ n \in Nat
    OBVIOUS
  <2>2. PICK a : a = after[n]
    OBVIOUS
  <2>3. a \in Loan /\ after[n + 1] = AccrueInterest(a, 1)
    BY <1>1, <2>1, <2>2
  <2>4. PICK b : b = AccrueInterest(a, 1)
    OBVIOUS
  <2>5. /\ b \in Loan /\ Balance(a) <= Balance(b) /\ a.principal <= b.principal
        /\ Balance(a) = 0 => Balance(b) = 0
        /\ AccrualMode = "engine_calculated" => Balance(a) + Earned(a, 1) <= Balance(b)
    BY <2>3, <2>4, AccruedDay
  <2>6. /\ Balance(l) <= Balance(a) /\ l.principal <= a.principal
        /\ Balance(l) = 0 => Balance(a) = 0
        /\ AccrualMode = "engine_calculated" => Balance(l) + Earned(l, n) <= Balance(a)
    BY <1>3, <2>2
  <2>7. /\ Balance(l) \in Nat /\ Balance(a) \in Nat /\ Balance(b) \in Nat
        /\ l.principal \in Nat /\ a.principal \in Nat /\ b.principal \in Nat
    BY <2>3, <2>5, BalanceNat DEF Loan
  <2>8. Earned(l, 1) <= Earned(a, 1)
    BY <2>3, <2>6, EarnedMonotone
  <2>9. Earned(l, n) \in Nat /\ Earned(l, 1) \in Nat /\ Earned(a, 1) \in Nat
        /\ Earned(l, n + 1) = Earned(l, n) + Earned(l, 1)
    BY <2>1, <2>3, EarnedNat
  <2>10. /\ Balance(l) <= Balance(b) /\ l.principal <= b.principal
         /\ Balance(l) = 0 => Balance(b) = 0
    BY <2>5, <2>6, <2>7
  <2>11. AccrualMode = "engine_calculated" => Balance(l) + Earned(l, n + 1) <= Balance(b)
    BY <2>5, <2>6, <2>7, <2>8, <2>9
  <2>. QED BY <2>1, <2>3, <2>4, <2>10, <2>11
<1> HIDE DEF Good
<1>4. 0..days \subseteq Good
  BY <1>2, <1>3, PrefixInduction
<1>5. days \in 0..days
  OBVIOUS
<1>. QED BY <1>1, <1>4, <1>5 DEF Good

(***************************************************************************)
(* The order in which assets are sold                                      *)
(***************************************************************************)

(* Any keys can be sorted, largest first and ties in their order.            *)
Before(key, i, j) == key[i] > key[j] \/ (key[i] = key[j] /\ i < j)

(* A non-empty set of natural numbers has a least.                           *)
LEMMA LeastElement ==
  ASSUME NEW T, T \subseteq Nat, T # {}
  PROVE  \E n \in T : \A m \in T : n <= m
<1> DEFINE Less == OpToRel(<, Nat)
<1>1. IsWellFoundedOn(Less, Nat)
  BY NatLessThanWellFounded
<1> HIDE DEF Less
<1>2. PICK n \in T : \A m \in T : ~(<<m, n>> \in Less)
  BY <1>1, WFMin
<1>3. \A m \in T : ~(m < n)
  BY <1>2 DEF Less, OpToRel
<1>. QED BY <1>3

(* r lists the first n positions of a key from the largest on.               *)
Ranks(r, n, key) ==
  /\ r \in [1..n -> 1..n]
  /\ \A j, k \in 1..n : j < k => Before(key, r[j], r[k])

(* Where a new position belongs among those ranked already.                  *)
LEMMA InsertionPlace ==
  ASSUME NEW n \in Nat, NEW key, NEW r
  PROVE  \E k \in 1..(n + 1) :
           /\ k = n + 1 \/ Before(key, n + 1, r[k])
           /\ \A i \in 1..(n + 1) : i < k => i # n + 1 /\ ~Before(key, n + 1, r[i])
<1> DEFINE Places == {k \in 1..(n + 1) : k = n + 1 \/ Before(key, n + 1, r[k])}
<1>1. n + 1 \in 1..(n + 1) /\ 1..(n + 1) \subseteq Nat
  OBVIOUS
<1>2. Places \subseteq Nat /\ Places # {}
  BY <1>1
<1> HIDE DEF Places
<1>3. PICK k \in Places : \A m \in Places : k <= m
  BY ONLY <1>2, LeastElement
<1>4. k \in 1..(n + 1) /\ (k = n + 1 \/ Before(key, n + 1, r[k]))
  BY Zenon DEF Places
<1>5. ASSUME NEW i \in 1..(n + 1), i < k
      PROVE  i # n + 1 /\ ~Before(key, n + 1, r[i])
  <2>1. i \notin Places
    <3>1. \A m \in Places : k <= m
      BY <1>3
    <3>2. ~(k <= i)
      BY ONLY <1>4, <1>5, n \in Nat
    <3>. QED BY <3>1, <3>2
  <2>. QED BY <2>1, Zenon DEF Places
<1>. QED BY <1>4, <1>5, Zenon

(* A ranking of some places extends to one place more.                       *)
LEMMA RankInserted ==
  ASSUME NEW n \in Nat, NEW key, NEW r, Ranks(r, n, key),
         \A i \in 1..(n + 1) : key[i] \in Nat
  PROVE  \E q : Ranks(q, n + 1, key)
<1>1. PICK k \in 1..(n + 1) :
        /\ k = n + 1 \/ Before(key, n + 1, r[k])
        /\ \A i \in 1..(n + 1) : i < k => i # n + 1 /\ ~Before(key, n + 1, r[i])
  BY ONLY InsertionPlace, n \in Nat
<1> DEFINE q == [i \in 1..(n + 1) |-> IF i < k THEN r[i] ELSE IF i = k THEN n + 1 ELSE r[i - 1]]
<1>2. \A i \in 1..n : r[i] \in 1..n
  BY DEF Ranks
<1>3. \A i \in 1..(n + 1) : i < k => q[i] = r[i] /\ i \in 1..n
  OBVIOUS
<1>4. q[k] = n + 1
  OBVIOUS
<1>5. \A i \in 1..(n + 1) : i > k => q[i] = r[i - 1] /\ i - 1 \in 1..n
  OBVIOUS
<1>6. q = [i \in 1..(n + 1) |-> q[i]]
  OBVIOUS
<1> HIDE DEF q
<1>7. \A i \in 1..(n + 1) : q[i] \in 1..(n + 1)
  <2> TAKE i \in 1..(n + 1)
  <2>1. CASE i < k
    BY <2>1, <1>2, <1>3
  <2>2. CASE i = k
    BY <2>2, <1>4
  <2>3. CASE i > k
    BY <2>3, <1>2, <1>5
  <2>. QED BY <2>1, <2>2, <2>3
<1>8. q \in [1..(n + 1) -> 1..(n + 1)]
  BY ONLY <1>6, <1>7
<1>9. ASSUME NEW i \in 1..n, ~Before(key, n + 1, r[i])
      PROVE  Before(key, r[i], n + 1)
  <2>1. r[i] \in 1..n
    BY <1>2
  <2>2. key[n + 1] \in Nat /\ key[r[i]] \in Nat /\ r[i] < n + 1
    BY <2>1
  <2>. QED BY <2>2, <1>9 DEF Before
<1>10. ASSUME NEW i \in 1..(n + 1), NEW j \in 1..(n + 1), i < j
       PROVE  Before(key, q[i], q[j])
  <2>1. \A a, b \in 1..n : a < b => Before(key, r[a], r[b])
    BY DEF Ranks
  <2>2. CASE j < k
    <3>1. i < k /\ i \in 1..n /\ j \in 1..n
      BY ONLY <1>10, <2>2, k \in 1..(n + 1), n \in Nat
    <3>2. q[i] = r[i] /\ q[j] = r[j]
      BY <3>1, <2>2, <1>3
    <3>. QED BY <3>1, <3>2, <2>1, <1>10
  <2>3. CASE j = k
    <3>1. q[i] = r[i] /\ i \in 1..n /\ q[j] = n + 1
      BY <2>3, <1>10, <1>3, <1>4
    <3>2. ~Before(key, n + 1, r[i])
      BY <2>3, <1>10, <1>1
    <3>3. Before(key, r[i], n + 1)
      BY <3>1, <3>2, <1>9
    <3>. QED BY <3>1, <3>3
  <2>4. CASE i < k /\ k < j
    <3>1. q[i] = r[i] /\ i \in 1..n /\ q[j] = r[j - 1] /\ j - 1 \in 1..n
      BY <2>4, <1>3, <1>5
    <3>2. i < j - 1
      BY ONLY <2>4, i \in 1..(n + 1), j \in 1..(n + 1), k \in 1..(n + 1), n \in Nat
    <3>3. Before(key, r[i], r[j - 1])
      BY <3>1, <3>2, <2>1
    <3>. QED BY <3>1, <3>3
  <2>5. CASE i = k
    <3>1. q[i] = n + 1 /\ q[j] = r[j - 1] /\ j - 1 \in 1..n
      BY <2>5, <1>10, <1>4, <1>5
    <3>2. k \in 1..n /\ k <= j - 1 /\ k # n + 1
      BY ONLY <2>5, <1>10, i \in 1..(n + 1), j \in 1..(n + 1), k \in 1..(n + 1), n \in Nat
    <3>3. Before(key, n + 1, r[k])
      BY <3>2, <1>1
    <3>4. CASE k = j - 1
      BY <3>1, <3>3, <3>4
    <3>5. CASE k < j - 1
      <4>1. Before(key, r[k], r[j - 1])
        BY <3>1, <3>2, <3>5, <2>1
      <4>2. key[n + 1] \in Nat /\ key[r[k]] \in Nat /\ key[r[j - 1]] \in Nat
            /\ r[k] \in 1..n /\ r[j - 1] \in 1..n
        BY <3>1, <3>2, <1>2
      <4>3. Before(key, n + 1, r[j - 1])
        BY ONLY <4>1, <4>2, <3>3, n \in Nat DEF Before
      <4>. QED BY <3>1, <4>3
    <3>. QED BY ONLY <3>2, <3>4, <3>5, k \in 1..(n + 1), j \in 1..(n + 1), n \in Nat
  <2>6. CASE k < i
    <3>1. q[i] = r[i - 1] /\ i - 1 \in 1..n
      BY <2>6, <1>5
    <3>2. k < j
      BY ONLY <2>6, <1>10, i \in 1..(n + 1), j \in 1..(n + 1), k \in 1..(n + 1), n \in Nat
    <3>3. q[j] = r[j - 1] /\ j - 1 \in 1..n
      BY <3>2, <1>5
    <3>4. i - 1 < j - 1
      BY ONLY <1>10, i \in 1..(n + 1), j \in 1..(n + 1), n \in Nat
    <3>5. Before(key, r[i - 1], r[j - 1])
      BY <3>1, <3>3, <3>4, <2>1
    <3>. QED BY <3>1, <3>3, <3>5
  <2>. QED BY ONLY <2>2, <2>3, <2>4, <2>5, <2>6, i \in 1..(n + 1), j \in 1..(n + 1), k \in 1..(n + 1), n \in Nat
<1>11. Ranks(q, n + 1, key)
  BY <1>8, <1>10 DEF Ranks
<1>. QED BY <1>11

(* Any keys can be ranked.                                                   *)
LEMMA RankingExists ==
  ASSUME NEW N \in Nat, NEW key \in [1..N -> Nat]
  PROVE  \E r : Ranks(r, N, key)
<1> DEFINE Good == {n \in 0..N : \E r : Ranks(r, n, key)}
<1>1. 0 \in Good
  <2> DEFINE r == [i \in 1..0 |-> i]
  <2>1. 1..0 = {}
    OBVIOUS
  <2>2. r \in [1..0 -> 1..0]
    OBVIOUS
  <2>3. \A j, k \in 1..0 : j < k => Before(key, r[j], r[k])
    BY <2>1
  <2> HIDE DEF r
  <2>4. Ranks(r, 0, key)
    BY <2>2, <2>3 DEF Ranks
  <2>. QED BY <2>4
<1>2. ASSUME NEW n \in 0..(N - 1), n \in Good
      PROVE  n + 1 \in Good
  <2>1. PICK r : Ranks(r, n, key)
    BY <1>2
  <2>2. n \in Nat /\ n + 1 \in 0..N /\ \A i \in 1..(n + 1) : i \in 1..N
    OBVIOUS
  <2>3. \A i \in 1..(n + 1) : key[i] \in Nat
    BY <2>2
  <2>4. \E q : Ranks(q, n + 1, key)
    BY ONLY <2>1, <2>2, <2>3, RankInserted
  <2>. QED BY <2>2, <2>4
<1> HIDE DEF Good
<1>3. 0..N \subseteq Good
  BY <1>1, <1>2, PrefixInduction
<1>4. N \in Good
  BY <1>3
<1>. QED BY <1>4 DEF Good

(* The assets by liquidity are the assets, each once.                        *)
LEMMA ByLiquidityTyped ==
  ASSUME NEW quotes \in [Assets -> Quote]
  PROVE  \A k \in 1..Len(Listing) : ByLiquidity(quotes)[k] \in Assets
<1> DEFINE D == DOMAIN Listing
           N == Len(Listing)
           turnover(i) == quotes[Listing[i]].volume * quotes[Listing[i]].price
           before(i, j) == turnover(i) > turnover(j) \/ (turnover(i) = turnover(j) /\ i < j)
           ranks == CHOOSE r \in [D -> D] : \A j, k \in D : j < k => before(r[j], r[k])
           key == [i \in 1..N |-> turnover(i)]
<1>1. N \in Nat /\ D = 1..N /\ \A i \in 1..N : Listing[i] \in Assets
  BY ListingFacts
<1>2. ByLiquidity(quotes) = [k \in D |-> Listing[ranks[k]]]
  BY DEF ByLiquidity
<1>3. \A i \in 1..N : turnover(i) \in Nat
  <2> TAKE i \in 1..N
  <2>1. quotes[Listing[i]] \in Quote
    BY <1>1
  <2>. QED BY <2>1 DEF Quote
<1> HIDE DEF turnover
<1>4. key \in [1..N -> Nat] /\ \A i \in 1..N : key[i] = turnover(i)
  BY <1>3
<1> HIDE DEF key
<1>5. PICK r : Ranks(r, N, key)
  BY <1>1, <1>4, RankingExists
<1>6. r \in [D -> D] /\ \A j, k \in D : j < k => before(r[j], r[k])
  <2>1. r \in [1..N -> 1..N]
    BY <1>5 DEF Ranks
  <2>2. ASSUME NEW j \in 1..N, NEW k \in 1..N, j < k
        PROVE  before(r[j], r[k])
    <3>1. Before(key, r[j], r[k])
      BY <1>5, <2>2 DEF Ranks
    <3>2. r[j] \in 1..N /\ r[k] \in 1..N
      BY <2>1
    <3>. QED BY <3>1, <3>2, <1>4 DEF Before
  <2>. QED BY <2>1, <2>2, <1>1
<1>7. ranks \in [D -> D]
  BY <1>6, Zenon
<1> HIDE DEF ranks
<1>8. \A k \in 1..N : ranks[k] \in 1..N
  BY <1>1, <1>7
<1>. QED BY <1>1, <1>2, <1>8

(***************************************************************************)
(* The advisory                                                            *)
(***************************************************************************)
LEMMA NetBidNat ==
  ASSUME NEW quote \in Quote, NEW terms \in ExecutionPolicy
  PROVE  /\ Bid(quote) \in Nat
         /\ NetBid(quote, terms) \in Nat
         /\ NetBid(quote, terms) # 0 => terms.cost < 100
         /\ terms.cost < 100 /\ Bid(quote) > 0 => NetBid(quote, terms) > 0
<1> DEFINE b == Bid(quote)
           c == terms.cost
           fee == (b * c) \div 100
<1>1. b \in Nat
  BY HalfSpreadAssumption DEF Bid, Larger, Quote
<1>2. c \in 0..100
  BY DEF ExecutionPolicy
<1>3. NetBid(quote, terms) = b - fee
  BY DEF NetBid
<1> HIDE DEF b, c
<1>4. b * c \in Nat /\ fee \in Nat /\ 100 * fee <= b * c /\ b * c < 100 * fee + 100
  BY <1>1, <1>2, DivisionBounds
<1>5. b * c <= b * 100
  BY <1>1, <1>2, ProductMonotone
<1>6. c = 100 => b * c = b * 100
  OBVIOUS
<1>7. c < 100 /\ b > 0 => b * c < b * 100
  <2> SUFFICES ASSUME c < 100, b > 0 PROVE b * c < b * 100
    OBVIOUS
  <2>1. b * (c + 1) <= b * 100
    BY <1>1, <1>2, ProductMonotone
  <2>2. b * (c + 1) = b * c + b
    BY <1>1, <1>2
  <2>. QED BY <1>1, <1>4, <2>1, <2>2
<1> HIDE DEF fee
<1>. QED BY <1>1, <1>2, <1>3, <1>4, <1>5, <1>6, <1>7 DEF b, c

(* The limit of an order is a price.                                         *)
LEMMA LimitPriceNat ==
  ASSUME NEW quote \in Quote, NEW terms \in ExecutionPolicy
  PROVE  LimitPrice(quote, terms) \in Nat
<1>1. Bid(quote) \in Nat /\ 100 - terms.slippage \in Nat
  BY NetBidNat DEF ExecutionPolicy
<1>. QED BY <1>1, ShareNat DEF LimitPrice

Plan == [remaining: Nat, orders: Seq(Order)]

(* Each step of an advisory adds one order at most, that brings something.   *)
LEMMA ProposeTyped ==
  ASSUME NEW plan \in Plan, NEW asset \in Assets, NEW lots \in Lots,
         NEW quotes \in [Assets -> Quote], NEW terms \in ExecutionPolicy
  PROVE  LET next == Propose(plan, asset, lots, quotes, terms)
         IN  /\ next \in Plan
             /\ Len(next.orders) <= Len(plan.orders) + 1
             /\ next.orders # <<>> => plan.orders # <<>> \/ terms.cost < 100
<1> DEFINE quote == quotes[asset]
           price == NetBid(quote, terms)
           quantity == Least(lots[asset], plan.remaining \div price)
           order == [asset |-> asset, quantity |-> quantity, limit |-> LimitPrice(quote, terms)]
           next == [remaining |-> plan.remaining - quantity * price,
                    orders |-> Append(plan.orders, order)]
<1>1. /\ plan.remaining \in Nat /\ plan.orders \in Seq(Order)
      /\ lots[asset] \in Nat /\ quote \in Quote
      /\ Len(plan.orders) \in Nat
  BY LenProperties DEF Plan, Lots
<1>2. price \in Nat /\ (price # 0 => terms.cost < 100) /\ LimitPrice(quote, terms) \in Nat
  BY <1>1, NetBidNat, LimitPriceNat
<1>3. Propose(plan, asset, lots, quotes, terms) = plan
      \/ (Propose(plan, asset, lots, quotes, terms) = next /\ price # 0)
  BY DEF Propose
<1>4. ASSUME price # 0
      PROVE  next \in Plan /\ Len(next.orders) = Len(plan.orders) + 1
  <2>1. plan.remaining \div price \in Nat /\ price * (plan.remaining \div price) <= plan.remaining
    BY <1>1, <1>2, <1>4, DivisionBounds
  <2>2. quantity \in Nat /\ quantity <= plan.remaining \div price
    BY <1>1, <2>1 DEF Least
  <2>3. order \in Order
    BY <1>2, <2>2 DEF Order
  <2> HIDE DEF price, quantity, order
  <2>4. price * quantity <= price * (plan.remaining \div price)
    BY <1>2, <2>1, <2>2, ProductMonotone
  <2>5. quantity * price = price * quantity /\ price * quantity \in Nat
        /\ price * (plan.remaining \div price) \in Nat
    BY <1>2, <2>1, <2>2
  <2>6. plan.remaining - quantity * price \in Nat
    BY <1>1, <2>1, <2>4, <2>5
  <2>7. Append(plan.orders, order) \in Seq(Order)
        /\ Len(Append(plan.orders, order)) = Len(plan.orders) + 1
    BY <1>1, <2>3, AppendProperties
  <2>. QED BY <2>6, <2>7 DEF Plan
<1> HIDE DEF next
<1>. QED BY <1>1, <1>2, <1>3, <1>4

(* The orders of an advisory: at most one for each asset, and none if the    *)
(* costs would eat up what they raise.                                       *)
LEMMA AdvisoryTyped ==
  ASSUME NEW lots \in Lots, NEW quotes \in [Assets -> Quote], NEW target \in Nat,
         NEW terms \in ExecutionPolicy
  PROVE  LET orders == BuildRecoveryAdvisory(lots, quotes, target, terms)
         IN  /\ orders \in Seq(Order)
             /\ Len(orders) <= Len(Listing)
             /\ orders # <<>> => terms.cost < 100
<1> DEFINE N == Len(Listing)
           candidates == ByLiquidity(quotes)
           start == [remaining |-> target, orders |-> <<>>]
           IsPlan(f) == f = [n \in 0..N |->
                               IF n = 0 THEN start
                               ELSE CHOOSE y \in {Propose(p, candidates[n], lots, quotes, terms) :
                                                    p \in {f[n - 1]}} : TRUE]
           plan == CHOOSE f : IsPlan(f)
           Proposing(n) == [p \in Plan |-> Propose(p, candidates[n], lots, quotes, terms)]
           step == [n \in 1..N |-> Proposing(n)]
<1>1. BuildRecoveryAdvisory(lots, quotes, target, terms) = plan[N].orders
  BY DEF BuildRecoveryAdvisory, Once
<1>2. \A n \in 1..N : candidates[n] \in Assets
  BY ByLiquidityTyped
<1> HIDE DEF candidates
<1>3. N \in Nat /\ start \in Plan /\ start.orders = <<>> /\ Len(start.orders) = 0
  BY ListingFacts, EmptySeq DEF Plan
<1> HIDE DEF start
<1>4. \A n, p : (CHOOSE y \in {Propose(x, candidates[n], lots, quotes, terms) : x \in {p}} : TRUE)
                  = Propose(p, candidates[n], lots, quotes, terms)
  OBVIOUS
<1>5. ASSUME NEW n \in 1..N
      PROVE  /\ Proposing(n) \in [Plan -> Plan]
             /\ \A p \in Plan : Proposing(n)[p] = Propose(p, candidates[n], lots, quotes, terms)
  <2>1. candidates[n] \in Assets
    BY <1>2
  <2>2. \A p \in Plan : Propose(p, candidates[n], lots, quotes, terms) \in Plan
    BY <2>1, ProposeTyped
  <2>. QED BY <2>2
<1> HIDE DEF Proposing
<1>6. \A n \in 1..N : step[n] = Proposing(n)
  OBVIOUS
<1>7. Steps(step, N, Plan)
  BY <1>5 DEF Steps
<1> HIDE DEF step
<1>8. PICK f \in [0..N -> Plan] : Follows(f, N, start, step)
  BY ONLY <1>3, <1>7, RecursionExists
<1>9. IsPlan(f)
  <2>1. \A n \in 1..N : f[n] = Propose(f[n - 1], candidates[n], lots, quotes, terms)
    <3> TAKE n \in 1..N
    <3>1. f[n - 1] \in Plan
      BY <1>8
    <3>. QED BY <3>1, <1>5, <1>6, <1>8 DEF Follows
  <2>. QED BY <2>1, <1>4, <1>8 DEF Follows
<1>10. IsPlan(plan)
  BY <1>9
<1> HIDE DEF plan
<1>11. plan[0] = start
       /\ \A n \in 1..N : plan[n] = Propose(plan[n - 1], candidates[n], lots, quotes, terms)
  BY <1>3, <1>4, <1>10
<1>12. \A n \in 0..N : plan[n] \in Plan
  <2>1. \A n \in 1..N : plan[n - 1] \in Plan => plan[n] = step[n][plan[n - 1]]
    BY <1>5, <1>6, <1>11
  <2>2. plan[0] \in Plan
    BY <1>3, <1>11
  <2>. QED BY ONLY <1>3, <1>7, <2>1, <2>2, RecursionTyped
<1> DEFINE Good == {n \in 0..N : /\ Len(plan[n].orders) <= n
                                 /\ plan[n].orders # <<>> => terms.cost < 100}
<1>13. 0 \in Good
  BY <1>3, <1>11
<1>14. ASSUME NEW n \in 0..(N - 1), n \in Good
       PROVE  n + 1 \in Good
  <2>1. n + 1 \in 1..N /\ (n + 1) - 1 = n /\ n \in 0..N /\ n \in Nat
    BY <1>3
  <2>2. PICK p : p = plan[n]
    OBVIOUS
  <2>3. p \in Plan /\ candidates[n + 1] \in Assets
        /\ plan[n + 1] = Propose(p, candidates[n + 1], lots, quotes, terms)
    BY <1>2, <1>11, <1>12, <2>1, <2>2
  <2>4. /\ plan[n + 1] \in Plan
        /\ Len(plan[n + 1].orders) <= Len(p.orders) + 1
        /\ plan[n + 1].orders # <<>> => p.orders # <<>> \/ terms.cost < 100
    BY <2>3, ProposeTyped
  <2>5. Len(p.orders) <= n /\ (p.orders # <<>> => terms.cost < 100)
    BY <1>14, <2>2
  <2>6. Len(p.orders) \in Nat /\ Len(plan[n + 1].orders) \in Nat
    BY <2>3, <2>4, LenProperties DEF Plan
  <2>. QED BY <2>1, <2>4, <2>5, <2>6
<1> HIDE DEF Good
<1>15. 0..N \subseteq Good
  BY <1>3, <1>13, <1>14, PrefixInduction
<1>16. N \in 0..N
  BY <1>3
<1>. QED BY <1>1, <1>12, <1>15, <1>16 DEF Good, Plan

(***************************************************************************)
(* One attempt                                                             *)
(***************************************************************************)
Attempt == [holdings: Lots, target: Nat, proceeds: Nat]

(* A fill sells no more than there is, and raises whole cents, up to what is *)
(* left and half a cent.                                                     *)
LEMMA FillTyped ==
  ASSUME NEW attempt \in Attempt, NEW order \in Order, NEW quotes \in [Assets -> Quote],
         NEW terms \in ExecutionPolicy, terms.cost < 100
  PROVE  LET next == Fill(attempt, order, quotes, terms)
         IN  /\ next \in Attempt
             /\ next.target <= attempt.target
             /\ next.proceeds = attempt.proceeds + RoundMoney(attempt.target - next.target)
<1> DEFINE quote == quotes[order.asset]
           price == NetBid(quote, terms)
           lots == FilledLots(order, attempt.holdings, quotes, attempt.target, terms)
           net == lots * price
           left == [attempt.holdings EXCEPT ![order.asset] = @ - lots]
           next == [holdings |-> left,
                    target   |-> attempt.target - net,
                    proceeds |-> attempt.proceeds + RoundMoney(net)]
<1>1. /\ order.asset \in Assets /\ order.quantity \in Nat
      /\ attempt.target \in Nat /\ attempt.proceeds \in Nat /\ attempt.holdings \in Lots
      /\ attempt.holdings[order.asset] \in Nat
      /\ quote \in Quote
  BY DEF Order, Attempt, Lots
<1>2. \/ Fill(attempt, order, quotes, terms) = attempt
      \/ Fill(attempt, order, quotes, terms) = next /\ Executable(quote)
  BY DEF Fill, Fillable
<1>3. CASE Fill(attempt, order, quotes, terms) = attempt
  <2>1. IsCents(0)
    <3>1. 0 = Cent * 0
      BY CentAssumption
    <3>. QED BY <3>1 DEF IsCents
  <2>2. RoundMoney(0) = 0
    BY <2>1, CentsStay
  <2>. QED BY <1>1, <1>3, <2>2
<1>4. CASE Fill(attempt, order, quotes, terms) = next /\ Executable(quote)
  <2>1. price \in Nat \ {0}
    BY <1>1, <1>4, NetBidNat DEF Executable
  <2>2. quote.volume \in Nat
    BY <1>1 DEF Quote
  <2> DEFINE most == attempt.target \div price
  <2>3. most \in Nat /\ price * most <= attempt.target
    BY <1>1, <2>1, DivisionBounds
  <2>4. lots \in Nat /\ lots <= attempt.holdings[order.asset] /\ lots <= most
    <3>1. lots = Least(Least(attempt.holdings[order.asset], order.quantity),
                       Least(quote.volume, most))
      BY DEF FilledLots
    <3> HIDE DEF lots, most, quote
    <3>. QED BY <1>1, <2>2, <2>3, <3>1 DEF Least
  <2> HIDE DEF lots, price, most
  <2>5. price * lots <= price * most
    BY <2>1, <2>3, <2>4, ProductMonotone
  <2>6. net = price * lots /\ net \in Nat /\ price * most \in Nat
    BY <2>1, <2>3, <2>4
  <2>7. left \in Lots
    <3>1. attempt.holdings[order.asset] - lots \in Nat
      BY <1>1, <2>4
    <3>. QED BY <1>1, <3>1 DEF Lots
  <2> HIDE DEF net, left
  <2>8. attempt.target - net \in Nat /\ attempt.target - (attempt.target - net) = net
    BY <1>1, <2>3, <2>5, <2>6
  <2>9. RoundMoney(net) \in Nat
    BY <2>6, RoundMoneyNat
  <2>10. /\ next \in Attempt /\ next.target = attempt.target - net
         /\ next.proceeds = attempt.proceeds + RoundMoney(net)
    BY <1>1, <2>7, <2>8, <2>9 DEF Attempt
  <2> HIDE DEF next
  <2>. QED BY <1>1, <1>4, <2>6, <2>8, <2>10
<1>. QED BY <1>2, <1>3, <1>4

(* The attempt, order by order.                                              *)
LEMMA ExecuteRecursion ==
  ASSUME NEW lots \in Lots, NEW quotes \in [Assets -> Quote], NEW target \in Nat,
         NEW terms \in ExecutionPolicy, NEW orders \in Seq(Order),
         orders # <<>> => terms.cost < 100
  PROVE  \E attempt :
           /\ ExecuteRecoveryAdvisory(lots, quotes, orders, target, terms) = attempt[Len(orders)]
           /\ attempt[0] = [holdings |-> lots, target |-> target, proceeds |-> 0]
           /\ \A n \in 0..Len(orders) : attempt[n] \in Attempt
           /\ \A n \in 1..Len(orders) :
                /\ attempt[n].target <= attempt[n - 1].target
                /\ attempt[n].proceeds = attempt[n - 1].proceeds
                     + RoundMoney(attempt[n - 1].target - attempt[n].target)
<1> DEFINE N == Len(orders)
           start == [holdings |-> lots, target |-> target, proceeds |-> 0]
           IsAttempt(f) == f = [n \in 0..N |->
                                  IF n = 0 THEN start
                                  ELSE CHOOSE y \in {Fill(a, orders[n], quotes, terms) :
                                                       a \in {f[n - 1]}} : TRUE]
           attempt == CHOOSE f : IsAttempt(f)
           Filling(n) == [a \in Attempt |-> Fill(a, orders[n], quotes, terms)]
           step == [n \in 1..N |-> Filling(n)]
<1>1. ExecuteRecoveryAdvisory(lots, quotes, orders, target, terms) = attempt[N]
  BY DEF ExecuteRecoveryAdvisory, Once
<1>2. N \in Nat /\ \A n \in 1..N : orders[n] \in Order /\ terms.cost < 100
  <2>1. N \in Nat /\ \A n \in 1..N : orders[n] \in Order
    BY LenProperties, ElementOfSeq
  <2>2. ASSUME NEW n \in 1..N PROVE orders # <<>>
    BY <2>1, EmptySeq
  <2>. QED BY <2>1, <2>2
<1>3. start \in Attempt
  BY DEF Attempt
<1> HIDE DEF start
<1>4. \A n, a : (CHOOSE y \in {Fill(x, orders[n], quotes, terms) : x \in {a}} : TRUE)
                  = Fill(a, orders[n], quotes, terms)
  OBVIOUS
<1>5. ASSUME NEW n \in 1..N
      PROVE  /\ Filling(n) \in [Attempt -> Attempt]
             /\ \A a \in Attempt : Filling(n)[a] = Fill(a, orders[n], quotes, terms)
  <2>1. orders[n] \in Order /\ terms.cost < 100
    BY <1>2
  <2>2. \A a \in Attempt : Fill(a, orders[n], quotes, terms) \in Attempt
    BY <2>1, FillTyped
  <2>. QED BY <2>2
<1> HIDE DEF Filling
<1>6. \A n \in 1..N : step[n] = Filling(n)
  OBVIOUS
<1>7. Steps(step, N, Attempt)
  BY <1>5 DEF Steps
<1> HIDE DEF step
<1>8. PICK f \in [0..N -> Attempt] : Follows(f, N, start, step)
  BY ONLY <1>2, <1>3, <1>7, RecursionExists
<1>9. IsAttempt(f)
  <2>1. \A n \in 1..N : f[n] = Fill(f[n - 1], orders[n], quotes, terms)
    <3> TAKE n \in 1..N
    <3>1. f[n - 1] \in Attempt
      BY <1>8
    <3>. QED BY <3>1, <1>5, <1>6, <1>8 DEF Follows
  <2>. QED BY <2>1, <1>4, <1>8 DEF Follows
<1>10. IsAttempt(attempt)
  BY <1>9
<1> HIDE DEF attempt
<1>11. attempt[0] = start
       /\ \A n \in 1..N : attempt[n] = Fill(attempt[n - 1], orders[n], quotes, terms)
  BY <1>2, <1>4, <1>10
<1>12. \A n \in 0..N : attempt[n] \in Attempt
  <2>1. \A n \in 1..N : attempt[n - 1] \in Attempt => attempt[n] = step[n][attempt[n - 1]]
    BY <1>5, <1>6, <1>11
  <2>2. attempt[0] \in Attempt
    BY <1>3, <1>11
  <2>. QED BY ONLY <1>2, <1>7, <2>1, <2>2, RecursionTyped
<1>13. ASSUME NEW n \in 1..N
       PROVE  /\ attempt[n].target <= attempt[n - 1].target
              /\ attempt[n].proceeds = attempt[n - 1].proceeds
                   + RoundMoney(attempt[n - 1].target - attempt[n].target)
  <2>1. PICK a, b, o : a = attempt[n - 1] /\ b = attempt[n] /\ o = orders[n]
    OBVIOUS
  <2>2. n - 1 \in 0..N
    BY <1>2
  <2>3. a \in Attempt /\ o \in Order /\ terms.cost < 100 /\ b = Fill(a, o, quotes, terms)
    BY <1>2, <1>11, <1>12, <2>1, <2>2
  <2>4. b.target <= a.target /\ b.proceeds = a.proceeds + RoundMoney(a.target - b.target)
    BY <2>3, FillTyped
  <2>. QED BY <2>1, <2>4
<1>. QED BY <1>1, <1>11, <1>12, <1>13 DEF start

(***************************************************************************)
(* An attempt sells what is held, for whole cents.  What it raises and     *)
(* what is then left of the target differ from the target by less than a   *)
(* cent for each order; and a target of a cent raises nothing, or a cent   *)
(* after which less than half a cent is left.                              *)
(***************************************************************************)
LEMMA ExecuteTyped ==
  ASSUME NEW lots \in Lots, NEW quotes \in [Assets -> Quote], NEW target \in Nat,
         NEW terms \in ExecutionPolicy, NEW orders \in Seq(Order),
         orders # <<>> => terms.cost < 100
  PROVE  LET sale == ExecuteRecoveryAdvisory(lots, quotes, orders, target, terms)
         IN  /\ sale.holdings \in Lots
             /\ IsCents(sale.proceeds)
             /\ sale.proceeds <= target + Cent * Len(orders)
             /\ target <= Cent => sale.proceeds <= Cent
<1> DEFINE N == Len(orders)
<1>1. PICK attempt :
        /\ ExecuteRecoveryAdvisory(lots, quotes, orders, target, terms) = attempt[N]
        /\ attempt[0] = [holdings |-> lots, target |-> target, proceeds |-> 0]
        /\ \A n \in 0..N : attempt[n] \in Attempt
        /\ \A n \in 1..N :
             /\ attempt[n].target <= attempt[n - 1].target
             /\ attempt[n].proceeds = attempt[n - 1].proceeds
                  + RoundMoney(attempt[n - 1].target - attempt[n].target)
  BY ExecuteRecursion
<1>2. N \in Nat /\ Cent \in Nat \ {0}
  BY LenProperties, CentAssumption
<1> DEFINE Sold(n, a) ==
             /\ a.target <= target
             /\ IsCents(a.proceeds)
             /\ a.proceeds + a.target <= target + Cent * n
             /\ target <= Cent => a.proceeds = 0 \/ (a.proceeds = Cent /\ 2 * a.target < Cent)
           Good == {n \in 0..N : Sold(n, attempt[n])}
<1>3. 0 \in Good
  <2>1. IsCents(0) /\ Cent * 0 = 0
    <3>1. 0 = Cent * 0
      BY <1>2
    <3>. QED BY <3>1 DEF IsCents
  <2>. QED BY <1>1, <1>2, <2>1
<1>4. ASSUME NEW n \in 0..(N - 1), n \in Good
      PROVE  n + 1 \in Good
  <2>1. n + 1 \in 1..N /\ (n + 1) - 1 = n /\ n \in 0..N /\ n + 1 \in 0..N /\ n \in Nat
    BY <1>2
  <2>2. PICK a, b : a = attempt[n] /\ b = attempt[n + 1]
    OBVIOUS
  <2>3. /\ a \in Attempt /\ b \in Attempt /\ b.target <= a.target
        /\ b.proceeds = a.proceeds + RoundMoney(a.target - b.target)
    BY <1>1, <2>1, <2>2
  <2>4. Sold(n, a)
    BY <1>4, <2>2
  <2> DEFINE raised == a.target - b.target
  <2>5. /\ a.target \in Nat /\ b.target \in Nat /\ raised \in Nat
        /\ a.proceeds \in Nat /\ b.proceeds \in Nat
    BY <2>3 DEF Attempt
  <2>6. RoundMoney(raised) \in Nat /\ RoundMoney(raised) <= raised + Cent
        /\ IsCents(RoundMoney(raised))
    BY <2>5, RoundMoneyNat, RoundMoneyBounds, RoundedIsCents DEF RoundMoney
  <2>7. IsCents(b.proceeds)
    BY <2>3, <2>4, <2>6, CentsAdd
  <2>8. b.proceeds + b.target <= target + Cent * (n + 1)
    <3>1. PICK base \in Nat : base = Cent * n /\ Cent * (n + 1) = base + Cent
      BY <1>2, <2>1
    <3>2. a.proceeds + a.target <= target + base
      BY <2>4, <3>1
    <3>3. a.target = raised + b.target
      BY <2>5
    <3> HIDE DEF raised
    <3>4. b.proceeds = a.proceeds + RoundMoney(raised)
      BY <2>3 DEF raised
    <3>5. \A t, u, p, q, r, m \in Nat :
            r <= m + Cent /\ p + t <= target + base /\ t = m + u /\ q = p + r
              => q + u <= target + (base + Cent)
      BY <1>2
    <3>6. b.proceeds + b.target <= target + (base + Cent)
      BY ONLY <2>5, <2>6, <3>2, <3>3, <3>4, <3>5
    <3>. QED BY <3>1, <3>6
  <2>9. ASSUME target <= Cent
        PROVE  b.proceeds = 0 \/ (b.proceeds = Cent /\ 2 * b.target < Cent)
    <3>1. a.target <= Cent /\ (a.proceeds = 0 \/ (a.proceeds = Cent /\ 2 * a.target < Cent))
      BY <1>2, <2>4, <2>5, <2>9
    <3>2. raised <= Cent /\ a.target = raised + b.target
      BY <1>2, <2>5, <3>1
    <3>3. RoundMoney(raised) = 0 \/ (RoundMoney(raised) = Cent /\ 2 * raised > Cent)
      BY <2>5, <3>2, RoundedCent
    <3>4. b.proceeds = a.proceeds + RoundMoney(raised) /\ raised = a.target - b.target
      BY <2>3
    <3> HIDE DEF raised
    <3>5. PICK r \in Nat : r = RoundMoney(raised)
      BY <2>6
    <3>6. r = 0 \/ (r = Cent /\ 2 * raised > Cent)
      BY <3>3, <3>5
    <3>7. b.proceeds = a.proceeds + r
      BY <3>4, <3>5
    <3>8. ASSUME a.proceeds = Cent
          PROVE  r = 0 /\ b.proceeds = Cent /\ 2 * b.target < Cent
      <4>1. 2 * a.target < Cent /\ raised <= a.target /\ b.target <= a.target
        BY ONLY <1>2, <2>5, <3>1, <3>2, <3>8
      <4>2. r = 0
        BY ONLY <1>2, <2>5, <3>6, <4>1
      <4>. QED BY ONLY <1>2, <2>5, <3>7, <3>8, <4>1, <4>2
    <3>9. ASSUME a.proceeds = 0
          PROVE  b.proceeds = 0 \/ (b.proceeds = Cent /\ 2 * b.target < Cent)
      <4>1. b.proceeds = r
        BY ONLY <2>5, <3>7, <3>9
      <4>2. 2 * raised > Cent => 2 * b.target < Cent
        BY ONLY <1>2, <2>5, <3>1, <3>2
      <4>. QED BY ONLY <3>6, <4>1, <4>2
    <3>. QED BY ONLY <3>1, <3>8, <3>9
  <2>10. b.target <= target
    BY <2>3, <2>4, <2>5
  <2>. QED BY <2>1, <2>2, <2>7, <2>8, <2>9, <2>10
<1> HIDE DEF Good
<1>5. 0..N \subseteq Good
  BY <1>2, <1>3, <1>4, PrefixInduction
<1>6. PICK sale : sale = attempt[N]
  OBVIOUS
<1>7. sale \in Attempt /\ Sold(N, sale)
  <2>1. N \in 0..N
    BY <1>2
  <2>. QED BY <1>1, <1>5, <1>6, <2>1 DEF Good
<1>8. sale.holdings \in Lots /\ sale.proceeds \in Nat /\ sale.target \in Nat /\ Cent * N \in Nat
  BY <1>2, <1>7 DEF Attempt
<1>. QED BY <1>1, <1>2, <1>6, <1>7, <1>8

(***************************************************************************)
(* Money in transit                                                        *)
(***************************************************************************)
Settlements == Seq(Settlement)

ActiveAmount(s) == IF s.active THEN s.amount ELSE 0

(* The parts of a settlement.                                                *)
LEMMA SettlementFacts ==
  ASSUME NEW s \in Settlement
  PROVE  /\ s.amount \in Nat /\ s.wait \in Nat /\ s.active \in BOOLEAN
         /\ ActiveAmount(s) \in Nat
BY DEF Settlement, ActiveAmount

(* What is in transit is the total of the active settlements.                *)
LEMMA InTransitTyped ==
  ASSUME NEW s \in Settlements
  PROVE  LET worth == [i \in DOMAIN s |-> IF s[i].active THEN s[i].amount ELSE 0]
         IN  /\ worth \in Seq(Nat) /\ Len(worth) = Len(s)
             /\ Len(s) \in Nat /\ DOMAIN s = 1..Len(s)
             /\ \A i \in 1..Len(s) : s[i] \in Settlement /\ worth[i] = ActiveAmount(s[i])
             /\ InTransit(s) = Total(worth)
             /\ InTransit(s) \in Nat
<1> DEFINE worth == [i \in DOMAIN s |-> IF s[i].active THEN s[i].amount ELSE 0]
<1>1. Len(s) \in Nat /\ DOMAIN s = 1..Len(s) /\ \A i \in 1..Len(s) : s[i] \in Settlement
  BY LenProperties, ElementOfSeq DEF Settlements
<1>2. \A i \in 1..Len(s) : worth[i] = ActiveAmount(s[i]) /\ worth[i] \in Nat
  BY <1>1, SettlementFacts DEF ActiveAmount
<1>3. worth \in [1..Len(s) -> Nat]
  BY <1>1, <1>2
<1>4. InTransit(s) = Total(worth)
  BY DEF InTransit
<1> HIDE DEF worth
<1>5. worth \in Seq(Nat) /\ Len(worth) = Len(s)
  BY <1>1, <1>3, FunctionIsSeq
<1>. QED BY <1>1, <1>2, <1>4, <1>5, TotalNat DEF worth

(* Sequences that agree everywhere are the same.                             *)
LEMMA TotalSame ==
  ASSUME NEW s \in Seq(Nat), NEW t \in Seq(Nat), Len(s) = Len(t),
         \A n \in 1..Len(s) : s[n] = t[n]
  PROVE  s = t
<1>1. DOMAIN s = 1..Len(s) /\ DOMAIN t = 1..Len(t) /\ s = [i \in DOMAIN s |-> s[i]]
      /\ t = [i \in DOMAIN t |-> t[i]]
  BY LenProperties
<1>. QED BY <1>1

(* Settlements with the same active amounts have the same in transit.        *)
LEMMA InTransitSame ==
  ASSUME NEW s \in Settlements, NEW t \in Settlements, Len(s) = Len(t),
         \A i \in 1..Len(s) : ActiveAmount(s[i]) = ActiveAmount(t[i])
  PROVE  InTransit(s) = InTransit(t)
<1>1. PICK v \in Seq(Nat) : /\ Len(v) = Len(s) /\ InTransit(s) = Total(v)
                            /\ \A i \in 1..Len(s) : v[i] = ActiveAmount(s[i])
  BY InTransitTyped
<1>2. PICK w \in Seq(Nat) : /\ Len(w) = Len(t) /\ InTransit(t) = Total(w)
                            /\ \A i \in 1..Len(t) : w[i] = ActiveAmount(t[i])
  BY InTransitTyped
<1>3. v = w
  BY <1>1, <1>2, TotalSame
<1>. QED BY <1>1, <1>2, <1>3

(* No settlements, nothing in transit.                                       *)
LEMMA InTransitEmpty == <<>> \in Settlements /\ InTransit(<<>>) = 0
<1>1. <<>> \in Settlements /\ Len(<<>>) = 0
  BY EmptySeq DEF Settlements
<1>2. PICK v \in Seq(Nat) : Len(v) = 0 /\ InTransit(<<>>) = Total(v)
  BY <1>1, InTransitTyped
<1>3. v = <<>>
  BY <1>2, EmptySeq
<1>. QED BY <1>1, <1>2, <1>3, TotalEmpty

(* A settlement more is its active amount more in transit.                   *)
LEMMA InTransitAppend ==
  ASSUME NEW s \in Settlements, NEW e \in Settlement
  PROVE  /\ Append(s, e) \in Settlements
         /\ InTransit(Append(s, e)) = InTransit(s) + ActiveAmount(e)
<1> DEFINE t == Append(s, e)
<1>1. /\ t \in Settlements /\ Len(t) = Len(s) + 1 /\ Len(s) \in Nat
      /\ \A i \in 1..Len(s) : t[i] = s[i]
      /\ t[Len(s) + 1] = e
  BY AppendProperties, LenProperties DEF Settlements
<1> HIDE DEF t
<1>2. PICK v \in Seq(Nat) : /\ Len(v) = Len(s) /\ InTransit(s) = Total(v)
                            /\ \A i \in 1..Len(s) : v[i] = ActiveAmount(s[i])
  BY InTransitTyped
<1>3. PICK w \in Seq(Nat) : /\ Len(w) = Len(t) /\ InTransit(t) = Total(w)
                            /\ \A i \in 1..Len(t) : w[i] = ActiveAmount(t[i])
  BY <1>1, InTransitTyped
<1>4. PICK a \in Nat : a = ActiveAmount(e)
  BY SettlementFacts
<1>5. w = Append(v, a)
  <2> DEFINE x == Append(v, a)
  <2>1. /\ x \in Seq(Nat) /\ Len(x) = Len(v) + 1
        /\ \A i \in 1..Len(v) : x[i] = v[i]
        /\ x[Len(v) + 1] = a
    BY AppendProperties, LenProperties
  <2> HIDE DEF x
  <2>2. ASSUME NEW i \in 1..Len(w)
        PROVE  w[i] = x[i]
    <3>1. i \in 1..Len(t) /\ w[i] = ActiveAmount(t[i])
      BY <1>3
    <3>2. CASE i \in 1..Len(s)
      BY <1>1, <1>2, <2>1, <3>1, <3>2
    <3>3. CASE i = Len(s) + 1
      BY <1>1, <1>2, <1>4, <2>1, <3>1, <3>3
    <3>. QED BY <1>1, <3>1, <3>2, <3>3
  <2>3. Len(w) = Len(x)
    BY <1>1, <1>2, <1>3, <2>1
  <2>4. w = x
    BY <2>1, <2>2, <2>3, TotalSame
  <2>. QED BY <2>4 DEF x
<1>6. Total(w) = Total(v) + a
  BY <1>5, TotalAppend
<1>7. InTransit(t) = InTransit(s) + ActiveAmount(e)
  BY <1>2, <1>3, <1>4, <1>6
<1>. QED BY <1>1, <1>7 DEF t

(* Nothing active, nothing in transit.                                       *)
LEMMA InTransitOfNone ==
  ASSUME NEW s \in Settlements, \A i \in 1..Len(s) : ~s[i].active
  PROVE  InTransit(s) = 0
<1>1. PICK v \in Seq(Nat) : /\ Len(v) = Len(s) /\ InTransit(s) = Total(v)
                            /\ \A i \in 1..Len(s) : v[i] = ActiveAmount(s[i])
  BY InTransitTyped
<1>2. \A i \in 1..Len(v) : v[i] = 0
  BY <1>1 DEF ActiveAmount
<1>. QED BY <1>1, <1>2, TotalOfZeros

(* No settlement is more than is in transit.                                 *)
LEMMA InTransitAtLeast ==
  ASSUME NEW s \in Settlements, NEW i \in 1..Len(s)
  PROVE  ActiveAmount(s[i]) <= InTransit(s)
<1>1. PICK v \in Seq(Nat) : /\ Len(v) = Len(s) /\ InTransit(s) = Total(v)
                            /\ \A k \in 1..Len(s) : v[k] = ActiveAmount(s[k])
  BY InTransitTyped
<1>2. v[i] <= Total(v)
  BY <1>1, TotalAtLeast
<1>. QED BY <1>1, <1>2

(* What arrives today for active or closed episodes.                         *)
LEMMA ArrivingTyped ==
  ASSUME pending \in Settlements, NEW active \in BOOLEAN
  PROVE  \E w \in Seq(Nat) :
           /\ Len(w) = Len(pending) /\ Arriving(active) = Total(w)
           /\ \A i \in 1..Len(pending) :
                w[i] = IF pending[i].wait = 0 /\ pending[i].active = active
                       THEN pending[i].amount ELSE 0
<1> DEFINE w == [i \in DOMAIN pending |->
                   IF pending[i].wait = 0 /\ pending[i].active = active
                   THEN pending[i].amount ELSE 0]
           N == Len(pending)
<1>1. N \in Nat /\ DOMAIN pending = 1..N /\ \A i \in 1..N : pending[i] \in Settlement
  BY LenProperties, ElementOfSeq DEF Settlements
<1>2. \A i \in 1..N : w[i] = IF pending[i].wait = 0 /\ pending[i].active = active
                             THEN pending[i].amount ELSE 0
  BY <1>1
<1>3. w \in [1..N -> Nat]
  BY <1>1, SettlementFacts
<1>4. Arriving(active) = Total(w)
  BY DEF Arriving
<1> HIDE DEF w
<1>5. w \in Seq(Nat) /\ Len(w) = N
  BY <1>1, <1>3, FunctionIsSeq
<1>. QED BY <1>2, <1>4, <1>5

(* What arrives is an amount.                                                *)
LEMMA ArrivingNat ==
  ASSUME pending \in Settlements, NEW active \in BOOLEAN
  PROVE  Arriving(active) \in Nat
BY ArrivingTyped, TotalNat

(***************************************************************************)
(* What is still pending                                                   *)
(***************************************************************************)

(* The settlements kept, one by one.                                         *)
LEMMA KeptRecursion ==
  ASSUME pending \in Settlements
  PROVE  \E kept :
           /\ StillPending = kept[Len(pending)]
           /\ kept[0] = <<>>
           /\ \A n \in 0..Len(pending) : kept[n] \in Settlements
           /\ \A n \in 1..Len(pending) :
                kept[n] = IF pending[n].wait > 0 THEN Append(kept[n - 1], pending[n])
                          ELSE kept[n - 1]
<1> DEFINE N == Len(pending)
           Keep(n, k) == IF pending[n].wait > 0 THEN Append(k, pending[n]) ELSE k
           IsKept(f) == f = [n \in 0..N |-> IF n = 0 THEN <<>> ELSE Keep(n, f[n - 1])]
           kept == CHOOSE f : IsKept(f)
           Keeping(n) == [k \in Settlements |-> Keep(n, k)]
           step == [n \in 1..N |-> Keeping(n)]
<1>1. StillPending = kept[N]
  BY DEF StillPending
<1>2. N \in Nat /\ \A n \in 1..N : pending[n] \in Settlement
  BY LenProperties, ElementOfSeq DEF Settlements
<1>3. <<>> \in Settlements
  BY InTransitEmpty
<1>4. ASSUME NEW n \in 1..N
      PROVE  /\ Keeping(n) \in [Settlements -> Settlements]
             /\ \A k \in Settlements : Keeping(n)[k] = Keep(n, k)
  <2>1. \A k \in Settlements : Keep(n, k) \in Settlements
    BY <1>2, InTransitAppend
  <2> HIDE DEF Keep
  <2>. QED BY <2>1
<1> HIDE DEF Keeping, Keep
<1>5. \A n \in 1..N : step[n] = Keeping(n)
  OBVIOUS
<1>6. Steps(step, N, Settlements)
  BY <1>4 DEF Steps
<1> HIDE DEF step
<1>7. PICK f \in [0..N -> Settlements] : Follows(f, N, <<>>, step)
  BY ONLY <1>2, <1>3, <1>6, RecursionExists
<1>8. IsKept(f)
  <2>1. \A n \in 1..N : f[n] = Keep(n, f[n - 1])
    <3> TAKE n \in 1..N
    <3>1. f[n - 1] \in Settlements
      BY <1>7
    <3>. QED BY <3>1, <1>4, <1>5, <1>7 DEF Follows
  <2>. QED BY <2>1, <1>7 DEF Follows
<1>9. IsKept(kept)
  BY <1>8
<1> HIDE DEF kept
<1>10. kept[0] = <<>> /\ \A n \in 1..N : kept[n] = Keep(n, kept[n - 1])
  BY <1>2, <1>9
<1>11. \A n \in 0..N : kept[n] \in Settlements
  <2>1. \A n \in 1..N : kept[n - 1] \in Settlements => kept[n] = step[n][kept[n - 1]]
    BY <1>4, <1>5, <1>10
  <2>2. kept[0] \in Settlements
    BY <1>3, <1>10
  <2>. QED BY ONLY <1>2, <1>6, <2>1, <2>2, RecursionTyped
<1>. QED BY <1>1, <1>10, <1>11 DEF Keep

(* What stays pending was pending and is not due; with what arrives for the  *)
(* active episode it adds up to what was in transit; and the settlement      *)
(* raised last stays last.                                                   *)
LEMMA StillPendingFacts ==
  ASSUME pending \in Settlements
  PROVE  /\ StillPending \in Settlements
         /\ \A j \in 1..Len(StillPending) :
              \E i \in 1..Len(pending) : StillPending[j] = pending[i] /\ pending[i].wait > 0
         /\ InTransit(StillPending) + Arriving(TRUE) = InTransit(pending)
         /\ Len(pending) > 0 /\ pending[Len(pending)].wait > 0
              => Len(StillPending) > 0
                 /\ StillPending[Len(StillPending)] = pending[Len(pending)]
<1> DEFINE N == Len(pending)
<1>1. N \in Nat /\ \A n \in 1..N : pending[n] \in Settlement
  BY LenProperties, ElementOfSeq DEF Settlements
<1>2. PICK kept : /\ StillPending = kept[N]
                  /\ kept[0] = <<>>
                  /\ \A n \in 0..N : kept[n] \in Settlements
                  /\ \A n \in 1..N :
                       kept[n] = IF pending[n].wait > 0 THEN Append(kept[n - 1], pending[n])
                                 ELSE kept[n - 1]
  BY KeptRecursion
<1>3. PICK w \in Seq(Nat) :
        /\ Len(w) = N /\ Arriving(TRUE) = Total(w)
        /\ \A i \in 1..N : w[i] = IF pending[i].wait = 0 /\ pending[i].active = TRUE
                                  THEN pending[i].amount ELSE 0
  BY ArrivingTyped
<1>4. PICK v \in Seq(Nat) :
        /\ Len(v) = N /\ InTransit(pending) = Total(v)
        /\ \A i \in 1..N : v[i] = ActiveAmount(pending[i])
  BY InTransitTyped
<1>5. PICK a : /\ Total(w) = a[N] /\ a[0] = 0
               /\ \A n \in 1..N : a[n] = a[n - 1] + w[n]
               /\ \A n \in 0..N : a[n] \in Nat
  BY <1>3, TotalRecursion
<1>6. PICK t : /\ Total(v) = t[N] /\ t[0] = 0
               /\ \A n \in 1..N : t[n] = t[n - 1] + v[n]
               /\ \A n \in 0..N : t[n] \in Nat
  BY <1>4, TotalRecursion
<1> DEFINE Kept(n, k) ==
             /\ \A j \in 1..Len(k) : \E i \in 1..N : k[j] = pending[i] /\ pending[i].wait > 0
             /\ InTransit(k) + a[n] = t[n]
             /\ n > 0 /\ pending[n].wait > 0 => Len(k) > 0 /\ k[Len(k)] = pending[n]
           Good == {n \in 0..N : Kept(n, kept[n])}
<1>7. 0 \in Good
  <2>1. Len(<<>>) = 0
    BY EmptySeq
  <2>. QED BY <1>1, <1>2, <1>5, <1>6, <2>1, InTransitEmpty
<1>8. ASSUME NEW n \in 0..(N - 1), n \in Good
      PROVE  n + 1 \in Good
  <2> DEFINE m == n + 1
  <2>1. m \in 1..N /\ m - 1 = n /\ n \in 0..N /\ m \in 0..N /\ m > 0
    BY <1>1
  <2> HIDE DEF m
  <2>2. PICK k, e : k = kept[n] /\ e = pending[m]
    OBVIOUS
  <2>3. k \in Settlements /\ e \in Settlement
        /\ kept[m] = IF e.wait > 0 THEN Append(k, e) ELSE k
    BY <1>1, <1>2, <2>1, <2>2
  <2>4. Kept(n, k)
    BY <1>8, <2>2
  <2>5. /\ a[m] = a[n] + (IF e.wait = 0 /\ e.active = TRUE THEN e.amount ELSE 0)
        /\ t[m] = t[n] + ActiveAmount(e)
        /\ a[n] \in Nat /\ t[n] \in Nat
    BY <1>3, <1>4, <1>5, <1>6, <2>1, <2>2
  <2>6. e.amount \in Nat /\ e.wait \in Nat /\ e.active \in BOOLEAN /\ ActiveAmount(e) \in Nat
    BY <2>3, SettlementFacts
  <2>7. InTransit(k) \in Nat
    BY <2>3, InTransitTyped
  <2>8. CASE e.wait > 0
    <3> DEFINE x == Append(k, e)
    <3>1. /\ x \in Settlements /\ Len(x) = Len(k) + 1 /\ Len(k) \in Nat
          /\ \A i \in 1..Len(k) : x[i] = k[i]
          /\ x[Len(k) + 1] = e
      BY <2>3, AppendProperties, LenProperties DEF Settlements
    <3>2. InTransit(x) = InTransit(k) + ActiveAmount(e)
      BY <2>3, InTransitAppend
    <3>3. kept[m] = x
      BY <2>3, <2>8
    <3> HIDE DEF x
    <3>4. ASSUME NEW j \in 1..Len(x)
          PROVE  \E i \in 1..N : x[j] = pending[i] /\ pending[i].wait > 0
      <4>1. CASE j \in 1..Len(k)
        <5>1. \E i \in 1..N : k[j] = pending[i] /\ pending[i].wait > 0
          BY <2>4, <4>1
        <5>2. x[j] = k[j]
          BY <3>1, <4>1
        <5>. QED BY <5>1, <5>2
      <4>2. CASE j = Len(k) + 1
        <5>1. x[j] = pending[m] /\ pending[m].wait > 0
          BY <2>2, <2>8, <3>1, <4>2
        <5>. QED BY <2>1, <5>1
      <4>. QED BY <3>1, <4>1, <4>2
    <3>5. InTransit(x) + a[m] = t[m]
      <4>1. PICK i \in Nat, p \in Nat, q \in Nat, worth \in Nat :
              i = InTransit(k) /\ p = a[n] /\ q = t[n] /\ worth = ActiveAmount(e)
        BY <2>5, <2>6, <2>7
      <4>2. i + p = q
        BY <2>4, <4>1
      <4>3. InTransit(x) = i + worth
        BY <3>2, <4>1
      <4>4. a[m] = p
        <5>1. a[m] = a[n] + 0
          BY <2>5, <2>6, <2>8
        <5>. QED BY ONLY <2>5, <4>1, <5>1
      <4>5. t[m] = q + worth
        BY ONLY <2>5, <4>1
      <4>. QED BY ONLY <4>2, <4>3, <4>4, <4>5
    <3>6. Len(x) > 0 /\ x[Len(x)] = pending[m]
      BY <2>2, <3>1
    <3>7. Kept(m, x)
      BY <3>4, <3>5, <3>6
    <3>. QED BY <2>1, <3>3, <3>7 DEF m
  <2>9. CASE e.wait = 0
    <3>1. kept[m] = k
      BY <2>3, <2>9
    <3>2. InTransit(k) + a[m] = t[m]
      BY <2>4, <2>5, <2>6, <2>7, <2>9 DEF ActiveAmount
    <3>3. ~(pending[m].wait > 0)
      BY <2>2, <2>9
    <3>4. Kept(m, k)
      BY <2>4, <3>2, <3>3
    <3>. QED BY <2>1, <3>1, <3>4 DEF m
  <2>. QED BY <2>6, <2>8, <2>9
<1> HIDE DEF Good
<1>9. 0..N \subseteq Good
  BY <1>1, <1>7, <1>8, PrefixInduction
<1>10. N \in 0..N
  BY <1>1
<1>11. Kept(N, StillPending) /\ StillPending \in Settlements
  BY <1>2, <1>9, <1>10 DEF Good
<1>. QED BY <1>3, <1>4, <1>5, <1>6, <1>11

(***************************************************************************)
(* The money of an episode: an invariant that says where all of it is, and *)
(* how much of it there can be.                                            *)
(***************************************************************************)

(* An episode and its settlements.                                           *)
Episode ==
  [status: {"none", "scheduled", "executing", "settling", "failed",
            "unresolved_at_replay_end"},
   action: {"none", "full_recovery", "restore_coverage"},
   target: Nat, wait: Nat, orders: Seq(Order), attempts: Nat, net: Nat, settled: Nat,
   loss: Nat]

Typed ==
  /\ scenario \in Scenarios
  /\ phase \in Phases
  /\ index \in 0..MaxObservations
  /\ BarsTyped
  /\ condition \in Conditions
  /\ holdings \in Lots
  /\ loan \in Loan
  /\ state \in MarginStates
  /\ episode \in Episode
  /\ pending \in Settlements
  /\ outcome.residual \in Nat

(* The orders of an advisory bring something, and are no more than the       *)
(* assets.                                                                   *)
OrdersAreSound ==
  /\ Len(episode.orders) <= Len(Listing)
  /\ episode.orders # <<>> => policy.cost < 100

(* Targets and proceeds are whole cents.                                     *)
WholeCents ==
  /\ IsCents(episode.target) /\ IsCents(episode.net) /\ IsCents(episode.settled)
  /\ \A i \in 1..Len(pending) : IsCents(pending[i].amount) /\ pending[i].amount > 0

(* Nothing is raised before the first attempt, and there is no episode to    *)
(* speak of once it is closed.                                               *)
NothingBeforeAnAttempt ==
  /\ episode.status = "none" => episode = NoEpisode
  /\ episode.status = "unresolved_at_replay_end" => phase = "done"
  /\ episode.attempts = 0 =>
       /\ episode.net = 0
       /\ episode.status \in {"none", "scheduled", "unresolved_at_replay_end"}

(* Settlements fall due in the order they were raised in.                    *)
FirstRaisedFirstSettled ==
  \A i \in 1..Len(pending) :
    /\ pending[i].wait <= pending[Len(pending)].wait
    /\ pending[i].wait <= policy.settlement

Proceeds ==
  /\ episode.settled + InTransit(pending) <= episode.net
  /\ Balance(loan) > 0 => episode.settled + InTransit(pending) = episode.net

(* Without the proceeds raised last the target is not reached, unless it is  *)
(* a cent; so none are in transit when it has been settled.                  *)
LastProceedsCount ==
  episode.status = "settling" /\ InTransit(pending) > 0 =>
    LET last == pending[Len(pending)]
    IN  /\ Len(pending) > 0 /\ last.active
        /\ episode.target <= Cent \/ episode.net + Cent < episode.target + last.amount

SmallTargets ==
  /\ episode.target <= Cent => episode.net <= Cent
  /\ \A i \in 1..Len(pending) : ~pending[i].active => pending[i].amount <= Cent

MoneyInv ==
  /\ Typed
  /\ OrdersAreSound
  /\ WholeCents
  /\ NothingBeforeAnAttempt
  /\ FirstRaisedFirstSettled
  /\ Proceeds
  /\ LastProceedsCount
  /\ SmallTargets
  /\ RecoveryIsBounded

(***************************************************************************)
(* What the steps do to the settlements                                    *)
(***************************************************************************)
LEMMA CountedDown ==
  ASSUME pending \in Settlements, NEW new,
         new = [i \in DOMAIN pending |-> [pending[i] EXCEPT !.wait = Countdown(@)]]
  PROVE  /\ new \in Settlements /\ Len(new) = Len(pending)
         /\ \A i \in 1..Len(pending) : /\ new[i].amount = pending[i].amount
                                       /\ new[i].active = pending[i].active
                                       /\ new[i].wait = Countdown(pending[i].wait)
         /\ InTransit(new) = InTransit(pending)
<1>1. Len(pending) \in Nat /\ DOMAIN pending = 1..Len(pending)
      /\ \A i \in 1..Len(pending) : pending[i] \in Settlement
  BY LenProperties, ElementOfSeq DEF Settlements
<1>2. ASSUME NEW i \in 1..Len(pending)
      PROVE  /\ new[i] \in Settlement
             /\ new[i].amount = pending[i].amount /\ new[i].active = pending[i].active
             /\ new[i].wait = Countdown(pending[i].wait)
  <2>1. pending[i] \in Settlement /\ new[i] = [pending[i] EXCEPT !.wait = Countdown(@)]
    BY <1>1
  <2>2. Countdown(pending[i].wait) \in Nat
    BY <2>1, ExcessNat DEF Settlement, Countdown
  <2>. QED BY <2>1, <2>2 DEF Settlement
<1>3. new = [i \in 1..Len(pending) |-> new[i]]
  BY <1>1
<1>4. new \in [1..Len(pending) -> Settlement]
  BY <1>2, <1>3
<1>5. new \in Settlements /\ Len(new) = Len(pending)
  BY <1>1, <1>4, FunctionIsSeq DEF Settlements
<1>6. \A i \in 1..Len(new) : ActiveAmount(new[i]) = ActiveAmount(pending[i])
  BY <1>2, <1>5 DEF ActiveAmount
<1>. QED BY <1>2, <1>5, <1>6, InTransitSame

(* The settlements of a completed episode are no longer in transit.          *)
LEMMA Deactivated ==
  ASSUME pending \in Settlements, NEW new,
         new = [i \in DOMAIN pending |-> [pending[i] EXCEPT !.active = FALSE]]
  PROVE  /\ new \in Settlements /\ Len(new) = Len(pending)
         /\ \A i \in 1..Len(pending) : /\ new[i].amount = pending[i].amount
                                       /\ ~new[i].active
                                       /\ new[i].wait = pending[i].wait
         /\ InTransit(new) = 0
<1>1. Len(pending) \in Nat /\ DOMAIN pending = 1..Len(pending)
      /\ \A i \in 1..Len(pending) : pending[i] \in Settlement
  BY LenProperties, ElementOfSeq DEF Settlements
<1>2. ASSUME NEW i \in 1..Len(pending)
      PROVE  /\ new[i] \in Settlement
             /\ new[i].amount = pending[i].amount /\ ~new[i].active
             /\ new[i].wait = pending[i].wait
  <2>1. pending[i] \in Settlement /\ new[i] = [pending[i] EXCEPT !.active = FALSE]
    BY <1>1
  <2>. QED BY <2>1 DEF Settlement
<1>3. new = [i \in 1..Len(pending) |-> new[i]]
  BY <1>1
<1>4. new \in [1..Len(pending) -> Settlement]
  BY <1>2, <1>3
<1>5. new \in Settlements /\ Len(new) = Len(pending)
  BY <1>1, <1>4, FunctionIsSeq DEF Settlements
<1>. QED BY <1>2, <1>5, InTransitOfNone

(***************************************************************************)
(* Types                                                                   *)
(***************************************************************************)
LEMMA NoEpisodeTyped ==
  /\ NoEpisode \in Episode
  /\ IsCents(NoEpisode.target) /\ IsCents(NoEpisode.net) /\ IsCents(NoEpisode.settled)
<1>1. <<>> \in Seq(Order)
  BY EmptySeq
<1>2. IsCents(0)
  <2>1. 0 = Cent * 0
    BY CentAssumption
  <2>. QED BY <2>1 DEF IsCents
<1>. QED BY <1>1, <1>2 DEF NoEpisode, Episode

(* The terms of a scenario's policy.                                         *)
LEMMA PolicyTyped ==
  ASSUME scenario \in Scenarios
  PROVE  /\ policy \in ExecutionPolicy
         /\ policy.grace \in Nat /\ policy.delay \in Nat /\ policy.settlement \in Nat
         /\ Delay \in Nat
BY ScenariosAssumption DEF policy, ExecutionPolicy, Delay

(* The exposure a loan is originated with is an amount.                      *)
LEMMA OriginatedNat ==
  ASSUME scenario \in Scenarios, BarsTyped, condition \in Conditions, holdings \in Lots
  PROVE  Originated \in Nat
<1> DEFINE horizon == 1 + policy.grace + policy.delay + policy.settlement
           earned == Cent + Rate * horizon
<1>1. MarketValue(holdings) \in Nat /\ LimitOf(holdings) \in Nat
  BY MarketValueNat, LimitNat
<1>2. (MarketValue(holdings) * FlatLtv) \div 100 \in Nat
  BY <1>1, HistoryAssumption, ShareNat
<1>3. horizon \in Nat
  BY PolicyTyped
<1> HIDE DEF horizon
<1>4. earned \in Nat \ {0}
  <2>1. Rate * horizon \in Nat
    BY <1>3, RateAssumption
  <2>. QED BY <2>1, CentAssumption
<1>5. LimitOf(holdings) * Cent \in Nat
  BY <1>1, CentAssumption
<1> HIDE DEF earned
<1>6. (LimitOf(holdings) * Cent) \div earned \in Nat
  BY <1>4, <1>5, DivisionBounds
<1>7. Originated \in {(MarketValue(holdings) * FlatLtv) \div 100,
                      (LimitOf(holdings) * Cent) \div earned}
  BY DEF Originated, earned, horizon
<1>. QED BY <1>2, <1>6, <1>7

(* A new bar of each asset.                                                  *)
LEMMA FreshTyped ==
  ASSUME NEW updated \in SUBSET Assets,
         NEW fresh \in {f \in [updated -> UNION {FreshBars[a] : a \in Assets}] :
                          \A a \in updated : f[a] \in FreshBars[a]}
  PROVE  \A a \in updated : fresh[a].price \in Nat /\ fresh[a].volume \in Nat
<1> SUFFICES ASSUME NEW a \in updated
             PROVE  fresh[a].price \in Nat /\ fresh[a].volume \in Nat
  OBVIOUS
<1>1. fresh[a] \in FreshBars[a] /\ FreshBars[a] \in SUBSET [price: Nat, volume: Nat]
  BY BarsAssumption
<1>. QED BY <1>1

(* The first observation has a loan and no episode.                          *)
LEMMA MoneyInitInv == Init => MoneyInv
<1> SUFFICES ASSUME Init PROVE MoneyInv
  OBVIOUS
<1>1. /\ scenario \in Scenarios /\ phase = "assess" /\ index = 0 /\ condition \in Conditions
      /\ holdings = Pledged /\ loan = [principal |-> Originated, interest |-> 0, fees |-> 0]
      /\ state = "safe" /\ episode = NoEpisode /\ pending = <<>> /\ outcome = NoOutcome
  BY DEF Init
<1>2. BarsTyped
  <2>1. PICK fresh \in {f \in [Assets -> UNION {FreshBars[a] : a \in Assets}] :
                          \A a \in Assets : f[a] \in FreshBars[a]} :
          bars = [a \in Assets |-> [price |-> fresh[a].price, volume |-> fresh[a].volume,
                                    age |-> 0]]
    BY DEF Init
  <2>2. \A a \in Assets : fresh[a].price \in Nat /\ fresh[a].volume \in Nat
    BY <2>1, FreshTyped
  <2>. QED BY <2>1, <2>2 DEF BarsTyped
<1>3. holdings \in Lots
  BY <1>1, PledgedAssumption DEF Lots
<1>4. loan \in Loan
  <2>1. Originated \in Nat
    BY <1>1, <1>2, <1>3, OriginatedNat
  <2>. QED BY <1>1, <2>1 DEF Loan
<1>5. pending \in Settlements /\ Len(pending) = 0 /\ InTransit(pending) = 0
  BY <1>1, InTransitEmpty, EmptySeq
<1>6. Typed
  BY <1>1, <1>2, <1>3, <1>4, <1>5, NoEpisodeTyped, HistoryAssumption
     DEF Typed, Phases, MarginStates, NoOutcome
<1>7. WholeCents /\ FirstRaisedFirstSettled
  BY <1>1, <1>5, NoEpisodeTyped DEF WholeCents, FirstRaisedFirstSettled
<1>8. Proceeds /\ LastProceedsCount /\ SmallTargets /\ NothingBeforeAnAttempt
  BY <1>1, <1>5, CentAssumption
     DEF Proceeds, LastProceedsCount, SmallTargets, NothingBeforeAnAttempt, NoEpisode
<1>9. OrdersAreSound
  BY <1>1, EmptySeq, ListingFacts DEF OrdersAreSound, NoEpisode
<1>10. RecoveryIsBounded
  BY <1>1, CentAssumption, ListingFacts DEF RecoveryIsBounded, NoEpisode
<1>. QED BY <1>6, <1>7, <1>8, <1>9, <1>10 DEF MoneyInv

(***************************************************************************)
(* The next observation                                                    *)
(***************************************************************************)

(* A step that changes no more of the episode than its wait and its loss.    *)
EpisodeKept ==
  /\ episode' \in Episode
  /\ episode'.status = episode.status /\ episode'.attempts = episode.attempts
  /\ episode'.target = episode.target /\ episode'.net = episode.net
  /\ episode'.settled = episode.settled /\ episode'.orders = episode.orders

(* Such a step keeps the orders and the bound.                               *)
LEMMA EpisodeKeeps ==
  ASSUME MoneyInv, UNCHANGED scenario, EpisodeKept
  PROVE  OrdersAreSound' /\ RecoveryIsBounded'
<1>1. policy' = policy
  BY DEF policy
<1>2. OrdersAreSound' /\ RecoveryIsBounded'
  BY <1>1 DEF MoneyInv, OrdersAreSound, RecoveryIsBounded, EpisodeKept
<1>. QED BY <1>2

(* The clearing of an episode leaves nothing to account for.                 *)
LEMMA ClearedKeeps ==
  ASSUME MoneyInv, UNCHANGED scenario, episode' = NoEpisode
  PROVE  OrdersAreSound' /\ RecoveryIsBounded' /\ NothingBeforeAnAttempt'
BY CentAssumption, EmptySeq, ListingFacts
   DEF OrdersAreSound, RecoveryIsBounded, NothingBeforeAnAttempt, NoEpisode

(* The interest of the days since the last.                                  *)
LEMMA ObservedLoan ==
  ASSUME MoneyInv, Observe
  PROVE  /\ loan' \in Loan
         /\ Balance(loan) <= Balance(loan')
         /\ Balance(loan) = 0 => Balance(loan') = 0
<1>1. PICK days \in Gaps : loan' = AccrueDays(loan, days)
  BY DEF Observe
<1>2. days \in Nat /\ loan \in Loan
  BY GapsAssumption DEF MoneyInv, Typed
<1>. QED BY <1>1, <1>2, AccruedDays

(* Fresh bars and those carried forward are bars.                            *)
LEMMA ObservedBars ==
  ASSUME MoneyInv, Observe
  PROVE  BarsTyped'
<1>0. PICK days \in Gaps, updated \in SUBSET Assets :
        \E fresh \in {f \in [updated -> UNION {FreshBars[a] : a \in Assets}] :
                      \A a \in updated : f[a] \in FreshBars[a]} :
          bars' = [a \in Assets |->
                    IF a \in updated
                    THEN [price |-> fresh[a].price, volume |-> fresh[a].volume, age |-> 0]
                    ELSE [bars[a] EXCEPT !.age = @ + days]]
  BY DEF Observe
<1>1. PICK fresh \in {f \in [updated -> UNION {FreshBars[a] : a \in Assets}] :
                       \A a \in updated : f[a] \in FreshBars[a]} :
        bars' = [a \in Assets |->
                  IF a \in updated
                  THEN [price |-> fresh[a].price, volume |-> fresh[a].volume, age |-> 0]
                  ELSE [bars[a] EXCEPT !.age = @ + days]]
  BY <1>0
<1>2. \A a \in updated : fresh[a].price \in Nat /\ fresh[a].volume \in Nat
  BY <1>1, FreshTyped
<1>3. days \in Nat
  BY GapsAssumption
<1>4. ASSUME NEW a \in Assets
      PROVE  [bars[a] EXCEPT !.age = @ + days] \in [price: Nat, volume: Nat, age: Nat]
  <2>1. bars[a] \in [price: Nat, volume: Nat, age: Nat]
    BY DEF MoneyInv, Typed, BarsTyped
  <2>2. bars[a].age + days \in Nat
    BY <1>3, <2>1
  <2>. QED BY <2>1, <2>2
<1>. QED BY <1>1, <1>2, <1>4 DEF BarsTyped

(* Interest and a day less to wait change nothing that was raised.           *)
LEMMA ObserveMoney ==
  ASSUME MoneyInv, Observe
  PROVE  MoneyInv'
<1>1. /\ phase = "feed" /\ phase' = "settle" /\ index < MaxObservations /\ index' = index + 1
      /\ condition' \in Conditions
      /\ UNCHANGED <<scenario, holdings, state, outcome>>
      /\ episode' = [episode EXCEPT !.wait = Countdown(@)]
      /\ pending' = [i \in DOMAIN pending |-> [pending[i] EXCEPT !.wait = Countdown(@)]]
  BY DEF Observe
<1>2. Typed
  BY DEF MoneyInv
<1>3. EpisodeKept
  <2>1. episode \in Episode
    BY <1>2 DEF Typed
  <2>2. Countdown(episode.wait) \in Nat
    BY <2>1, ExcessNat DEF Episode, Countdown
  <2>. QED BY <1>1, <2>1, <2>2 DEF Episode, EpisodeKept
<1>4. /\ pending \in Settlements /\ pending' \in Settlements /\ Len(pending') = Len(pending)
      /\ \A i \in 1..Len(pending) : /\ pending'[i].amount = pending[i].amount
                                    /\ pending'[i].active = pending[i].active
                                    /\ pending'[i].wait = Countdown(pending[i].wait)
      /\ InTransit(pending') = InTransit(pending)
  BY <1>1, <1>2, CountedDown DEF Typed
<1>5. policy' = policy
  BY <1>1 DEF policy
<1>6. Typed'
  <2>1. index' \in 0..MaxObservations
    BY <1>1, <1>2, HistoryAssumption DEF Typed
  <2>. QED BY <1>1, <1>2, <1>3, <1>4, <2>1, ObservedBars, ObservedLoan
           DEF Typed, EpisodeKept, Phases
<1>7. WholeCents'
  BY <1>3, <1>4 DEF MoneyInv, WholeCents, EpisodeKept
<1>8. NothingBeforeAnAttempt'
  <2>1. episode.status # "unresolved_at_replay_end"
    BY <1>1 DEF MoneyInv, NothingBeforeAnAttempt
  <2>2. ASSUME episode.status = "none" PROVE episode' = NoEpisode
    <3>1. episode = NoEpisode
      BY <2>2 DEF MoneyInv, NothingBeforeAnAttempt
    <3>2. Countdown(0) = 0
      BY DEF Countdown, Excess
    <3>. QED BY <1>1, <3>1, <3>2 DEF NoEpisode
  <2>. QED BY <1>3, <2>1, <2>2 DEF MoneyInv, NothingBeforeAnAttempt, EpisodeKept
<1>9. FirstRaisedFirstSettled'
  <2>1. \A i \in 1..Len(pending) : pending[i].wait \in Nat
    BY <1>4, InTransitTyped, SettlementFacts
  <2>2. policy.settlement \in Nat
    BY <1>2, PolicyTyped DEF Typed
  <2>3. ASSUME NEW i \in 1..Len(pending)
        PROVE  /\ Countdown(pending[i].wait) <= Countdown(pending[Len(pending)].wait)
               /\ Countdown(pending[i].wait) <= policy.settlement
    <3>1. /\ pending[i].wait <= pending[Len(pending)].wait
          /\ pending[i].wait <= policy.settlement
      BY DEF MoneyInv, FirstRaisedFirstSettled
    <3>2. Len(pending) \in 1..Len(pending)
      BY <1>4, InTransitTyped
    <3>. QED BY <2>1, <2>2, <3>1, <3>2 DEF Countdown, Excess
  <2>. QED BY <1>4, <1>5, <2>3, InTransitTyped DEF FirstRaisedFirstSettled
<1>10. Proceeds'
  <2>1. Balance(loan) \in Nat /\ Balance(loan') \in Nat
    BY <1>2, ObservedLoan, BalanceNat DEF Typed
  <2>2. /\ episode.settled + InTransit(pending) <= episode.net
        /\ Balance(loan) > 0 => episode.settled + InTransit(pending) = episode.net
    BY DEF MoneyInv, Proceeds
  <2>3. Balance(loan') > 0 => Balance(loan) > 0
    BY <2>1, ObservedLoan
  <2>4. /\ episode'.settled = episode.settled /\ episode'.net = episode.net
        /\ InTransit(pending') = InTransit(pending)
    BY <1>3, <1>4 DEF EpisodeKept
  <2>. QED BY <2>2, <2>3, <2>4 DEF Proceeds
<1>11. LastProceedsCount' /\ SmallTargets'
  <2>1. Len(pending) \in Nat
    BY <1>3, InTransitTyped
  <2>2. LastProceedsCount'
    BY <1>3, <1>4, <2>1 DEF MoneyInv, LastProceedsCount, EpisodeKept
  <2>3. SmallTargets'
    BY <1>3, <1>4 DEF MoneyInv, SmallTargets, EpisodeKept
  <2>. QED BY <2>2, <2>3
<1>. QED BY <1>1, <1>3, <1>6, <1>7, <1>8, <1>9, <1>10, <1>11, EpisodeKeeps DEF MoneyInv

(***************************************************************************)
(* The settlements of the day                                              *)
(***************************************************************************)
LEMMA ArrivingIsCents ==
  ASSUME MoneyInv
  PROVE  IsCents(Arriving(TRUE)) /\ Arriving(TRUE) \in Nat /\ Arriving(FALSE) \in Nat
<1>1. pending \in Settlements
  BY DEF MoneyInv, Typed
<1>2. PICK w \in Seq(Nat) :
        /\ Len(w) = Len(pending) /\ Arriving(TRUE) = Total(w)
        /\ \A i \in 1..Len(pending) : w[i] = IF pending[i].wait = 0 /\ pending[i].active = TRUE
                                             THEN pending[i].amount ELSE 0
  BY <1>1, ArrivingTyped
<1>3. IsCents(0)
  BY NoEpisodeTyped DEF NoEpisode
<1>4. \A i \in 1..Len(w) : IsCents(w[i])
  BY <1>2, <1>3 DEF MoneyInv, WholeCents
<1>. QED BY <1>1, <1>2, <1>4, TotalIsCents, ArrivingNat

(* A payment takes what it is off an obligation, or all there is.            *)
LEMMA ExcessDrops ==
  ASSUME NEW owed \in Nat, NEW paid \in Nat
  PROVE  /\ owed - Excess(owed, paid) \in Nat
         /\ owed - Excess(owed, paid) <= paid
         /\ Excess(owed, paid) > 0 => owed - Excess(owed, paid) = paid
BY DEF Excess

(* What arrives for the episode is taken off the loan and counts as settled, *)
(* up to what is owed; what arrives for earlier ones is taken off before.    *)
LEMMA SettledFacts ==
  ASSUME MoneyInv, SettlePending
  PROVE  \E earlier \in Nat :
           /\ loan' \in Loan
           /\ earlier = Excess(Balance(loan), Arriving(FALSE))
           /\ Balance(loan') = Excess(earlier, Arriving(TRUE))
           /\ episode' = [episode EXCEPT !.settled = @ + RoundMoney(earlier - Balance(loan'))]
           /\ earlier - Balance(loan') \in Nat
           /\ RoundMoney(earlier - Balance(loan')) \in Nat
           /\ IsCents(RoundMoney(earlier - Balance(loan')))
           /\ RoundMoney(earlier - Balance(loan')) <= Arriving(TRUE)
           /\ Balance(loan') > 0 => RoundMoney(earlier - Balance(loan')) = Arriving(TRUE)
<1> DEFINE before == ApplyRepayment(loan, Arriving(FALSE))
           drop == Balance(before) - Balance(loan')
<1>1. loan \in Loan
  BY DEF MoneyInv, Typed
<1>2. IsCents(Arriving(TRUE)) /\ Arriving(TRUE) \in Nat /\ Arriving(FALSE) \in Nat
  BY ArrivingIsCents
<1>3. before \in Loan /\ Balance(before) = Excess(Balance(loan), Arriving(FALSE))
  BY <1>1, <1>2, ApplyRepaymentType, WaterfallConserves
<1>4. loan' = ApplyRepayment(before, Arriving(TRUE))
      /\ episode' = [episode EXCEPT !.settled = @ + RoundMoney(Balance(before) - Balance(loan'))]
  BY DEF SettlePending
<1> HIDE DEF before
<1>5. loan' \in Loan /\ Balance(loan') = Excess(Balance(before), Arriving(TRUE))
  BY <1>2, <1>3, <1>4, ApplyRepaymentType, WaterfallConserves
<1>6. Balance(before) \in Nat /\ Balance(loan') \in Nat
  BY <1>3, <1>5, BalanceNat
<1>7. drop \in Nat /\ drop <= Arriving(TRUE) /\ (Balance(loan') > 0 => drop = Arriving(TRUE))
  BY <1>2, <1>5, <1>6, ExcessDrops
<1> HIDE DEF drop
<1>8. RoundMoney(drop) \in Nat /\ RoundMoney(drop) <= Arriving(TRUE)
      /\ (Balance(loan') > 0 => RoundMoney(drop) = Arriving(TRUE))
  <2>1. RoundMoney(drop) \in Nat
    BY <1>7, RoundMoneyNat
  <2>2. RoundMoney(drop) <= Arriving(TRUE)
    BY <1>2, <1>7, RoundedWithin
  <2>3. RoundMoney(Arriving(TRUE)) = Arriving(TRUE)
    BY <1>2, CentsStay
  <2>. QED BY <1>7, <2>1, <2>2, <2>3
<1>9. IsCents(RoundMoney(drop))
  BY <1>7, RoundedIsCents DEF RoundMoney
<1>. QED BY <1>3, <1>4, <1>5, <1>6, <1>7, <1>8, <1>9 DEF drop

(* What arrives for the episode, and what of it is taken off the loan.       *)
LEMMA SettleStep ==
  ASSUME MoneyInv, SettlePending
  PROVE  \E arrived \in Nat, counted \in Nat :
           /\ loan' \in Loan
           /\ Balance(loan') <= Balance(loan)
           /\ episode' = [episode EXCEPT !.settled = @ + counted]
           /\ IsCents(counted)
           /\ counted <= arrived
           /\ Balance(loan') > 0 => counted = arrived
           /\ InTransit(pending') + arrived = InTransit(pending)
<1>1. PICK arrived \in Nat, before \in Nat : arrived = Arriving(TRUE) /\ before = Arriving(FALSE)
  BY ArrivingIsCents
<1>2. PICK earlier \in Nat :
        /\ loan' \in Loan
        /\ earlier = Excess(Balance(loan), before)
        /\ Balance(loan') = Excess(earlier, arrived)
        /\ episode' = [episode EXCEPT !.settled = @ + RoundMoney(earlier - Balance(loan'))]
        /\ earlier - Balance(loan') \in Nat
        /\ RoundMoney(earlier - Balance(loan')) \in Nat
        /\ IsCents(RoundMoney(earlier - Balance(loan')))
        /\ RoundMoney(earlier - Balance(loan')) <= arrived
        /\ Balance(loan') > 0 => RoundMoney(earlier - Balance(loan')) = arrived
  BY <1>1, SettledFacts, Zenon
<1>3. PICK counted \in Nat : counted = RoundMoney(earlier - Balance(loan'))
  BY <1>2
<1>4. loan \in Loan /\ pending \in Settlements
  BY DEF MoneyInv, Typed
<1>5. Balance(loan') <= Balance(loan)
  <2>1. Balance(loan) \in Nat
    BY <1>4, BalanceNat
  <2>. QED BY <1>2, <2>1 DEF Excess
<1>6. pending' = StillPending
  BY DEF SettlePending
<1>7. InTransit(pending') + arrived = InTransit(pending)
  BY <1>1, <1>4, <1>6, StillPendingFacts, Zenon
<1>. QED BY <1>2, <1>3, <1>5, <1>7

(* What arrives was in transit and is settled now.                           *)
LEMMA SettleMoney ==
  ASSUME MoneyInv, SettlePending
  PROVE  MoneyInv'
<1>1. /\ phase = "settle" /\ phase' = "assess" /\ pending' = StillPending
      /\ UNCHANGED <<scenario, index, bars, condition, holdings, state, outcome>>
  BY DEF SettlePending, market
<1>2. Typed
  BY DEF MoneyInv
<1>3. PICK arrived \in Nat, counted \in Nat :
        /\ loan' \in Loan
        /\ Balance(loan') <= Balance(loan)
        /\ episode' = [episode EXCEPT !.settled = @ + counted]
        /\ IsCents(counted)
        /\ counted <= arrived
        /\ Balance(loan') > 0 => counted = arrived
        /\ InTransit(pending') + arrived = InTransit(pending)
  BY SettleStep
<1>4. Balance(loan) \in Nat /\ Balance(loan') \in Nat
      /\ episode.settled \in Nat /\ episode.net \in Nat
  BY <1>2, <1>3, BalanceNat DEF Typed, Episode
<1>5. /\ episode' \in Episode
      /\ episode'.status = episode.status /\ episode'.attempts = episode.attempts
      /\ episode'.target = episode.target /\ episode'.net = episode.net
      /\ episode'.orders = episode.orders /\ episode'.settled = episode.settled + counted
  <2>1. episode \in Episode /\ episode.settled + counted \in Nat
    BY <1>2, <1>4 DEF Typed
  <2>2. episode' = [episode EXCEPT !.settled = @ + counted]
    BY <1>3
  <2>. QED BY ONLY <2>1, <2>2 DEF Episode
<1>6. /\ pending \in Settlements /\ pending' \in Settlements
      /\ \A j \in 1..Len(pending') :
           \E i \in 1..Len(pending) : pending'[j] = pending[i] /\ pending[i].wait > 0
      /\ Len(pending) > 0 /\ pending[Len(pending)].wait > 0
           => Len(pending') > 0 /\ pending'[Len(pending')] = pending[Len(pending)]
  BY <1>1, <1>2, StillPendingFacts DEF Typed
<1>7. /\ InTransit(pending) \in Nat /\ InTransit(pending') \in Nat
      /\ Len(pending) \in Nat /\ Len(pending') \in Nat
      /\ \A i \in 1..Len(pending) : pending[i].wait \in Nat
  BY <1>6, InTransitTyped, SettlementFacts
<1>8. policy' = policy
  BY <1>1 DEF policy
<1>9. Typed'
  BY <1>1, <1>2, <1>3, <1>5, <1>6 DEF Typed, BarsTyped, Phases
<1>10. WholeCents'
  <2>1. IsCents(episode.settled + counted)
    BY <1>3, CentsAdd DEF MoneyInv, WholeCents
  <2>. QED BY <1>5, <1>6, <2>1 DEF MoneyInv, WholeCents
<1>11. Proceeds'
  <2>1. /\ episode.settled + InTransit(pending) <= episode.net
        /\ Balance(loan) > 0 => episode.settled + InTransit(pending) = episode.net
    BY DEF MoneyInv, Proceeds
  <2>2. PICK before \in Nat, after \in Nat :
          before = InTransit(pending) /\ after = InTransit(pending')
    BY <1>7
  <2>3. after + arrived = before /\ episode.settled + before <= episode.net
        /\ (Balance(loan) > 0 => episode.settled + before = episode.net)
    BY <1>3, <2>1, <2>2
  <2>4. /\ (episode.settled + counted) + after <= episode.net
        /\ Balance(loan') > 0 => (episode.settled + counted) + after = episode.net
    BY <1>3, <1>4, <2>3
  <2>. QED BY <1>5, <2>2, <2>4 DEF Proceeds
<1>12. NothingBeforeAnAttempt'
  <2>1. episode.status # "unresolved_at_replay_end"
    BY <1>1 DEF MoneyInv, NothingBeforeAnAttempt
  <2>2. ASSUME episode.status = "none" PROVE episode' = NoEpisode
    <3>1. episode = NoEpisode
      BY <2>2 DEF MoneyInv, NothingBeforeAnAttempt
    <3>2. InTransit(pending) = 0
      BY <1>7, <3>1 DEF MoneyInv, Proceeds, NoEpisode
    <3>3. counted = 0
      BY <1>3, <1>7, <3>2
    <3>. QED BY <1>3, <3>1, <3>3 DEF NoEpisode
  <2>. QED BY <1>5, <2>1, <2>2 DEF MoneyInv, NothingBeforeAnAttempt
(* If the one raised last is due, all of them are.                           *)
<1>13. Len(pending') > 0 => /\ Len(pending) > 0
                            /\ pending'[Len(pending')] = pending[Len(pending)]
  <2> SUFFICES ASSUME Len(pending') > 0
               PROVE  Len(pending) > 0 /\ pending[Len(pending)].wait > 0
    BY <1>6
  <2>0. 1 \in 1..Len(pending')
    BY <1>7
  <2>1. PICK i \in 1..Len(pending) : pending'[1] = pending[i] /\ pending[i].wait > 0
    BY <1>6, <2>0
  <2>2. pending[i].wait <= pending[Len(pending)].wait
    BY DEF MoneyInv, FirstRaisedFirstSettled
  <2>3. Len(pending) \in 1..Len(pending)
    BY <1>7, <2>1
  <2>. QED BY <1>7, <2>1, <2>2, <2>3
<1>14. FirstRaisedFirstSettled'
  <2> SUFFICES ASSUME NEW j \in 1..Len(pending')
               PROVE  /\ pending'[j].wait <= pending'[Len(pending')].wait
                      /\ pending'[j].wait <= policy.settlement
    BY <1>8 DEF FirstRaisedFirstSettled
  <2>1. PICK i \in 1..Len(pending) : pending'[j] = pending[i]
    BY <1>6
  <2>2. pending'[Len(pending')] = pending[Len(pending)]
    BY <1>7, <1>13
  <2>. QED BY <2>1, <2>2 DEF MoneyInv, FirstRaisedFirstSettled
<1>15. LastProceedsCount'
  <2> SUFFICES ASSUME episode'.status = "settling", InTransit(pending') > 0
               PROVE  LET last == pending'[Len(pending')]
                      IN  /\ Len(pending') > 0 /\ last.active
                          /\ \/ episode'.target <= Cent
                             \/ episode'.net + Cent < episode'.target + last.amount
    BY DEF LastProceedsCount
  <2>1. episode.status = "settling" /\ InTransit(pending) > 0
    BY <1>3, <1>5, <1>7
  <2>2. Len(pending') > 0
    <3> SUFFICES ASSUME Len(pending') = 0 PROVE FALSE
      BY <1>7
    <3>1. InTransit(pending') = 0
      BY <1>6, InTransitOfNone
    <3>. QED BY <3>1
  <2>3. pending'[Len(pending')] = pending[Len(pending)]
    BY <1>13, <2>2
  <2>. QED BY <1>5, <2>1, <2>2, <2>3 DEF MoneyInv, LastProceedsCount
<1>16. SmallTargets'
  BY <1>5, <1>6 DEF MoneyInv, SmallTargets
<1>17. OrdersAreSound' /\ RecoveryIsBounded'
  BY <1>5, <1>8 DEF MoneyInv, OrdersAreSound, RecoveryIsBounded
<1>. QED BY <1>9, <1>10, <1>11, <1>12, <1>14, <1>15, <1>16, <1>17 DEF MoneyInv

(***************************************************************************)
(* The assessment                                                          *)
(***************************************************************************)
(* An episode that is completed leaves nothing of its own in transit, unless *)
(* its target was a cent.                                                    *)
LEMMA CompletedLeavesCents ==
  ASSUME MoneyInv, Completed
  PROVE  \A i \in 1..Len(pending) : pending[i].amount <= Cent
<1> SUFFICES ASSUME NEW i \in 1..Len(pending)
             PROVE  pending[i].amount <= Cent
  OBVIOUS
<1>1. /\ pending \in Settlements /\ pending[i] \in Settlement
      /\ pending[i].amount \in Nat /\ pending[i].active \in BOOLEAN
      /\ InTransit(pending) \in Nat /\ Len(pending) \in Nat
  BY InTransitTyped, SettlementFacts DEF MoneyInv, Typed
<1>2. CASE ~pending[i].active
  BY <1>2 DEF MoneyInv, SmallTargets
<1>3. CASE pending[i].active
  <2>1. pending[i].amount <= InTransit(pending) /\ pending[i].amount > 0
    BY <1>1, <1>3, InTransitAtLeast DEF ActiveAmount, MoneyInv, WholeCents
  <2>2. /\ episode.status = "settling" /\ episode.settled + Cent >= episode.target
        /\ episode.settled + InTransit(pending) <= episode.net
        /\ episode.settled \in Nat /\ episode.net \in Nat /\ episode.target \in Nat
        /\ Cent \in Nat
    BY CentAssumption DEF Completed, Reached, MoneyInv, Typed, Episode, Proceeds
  <2>3. InTransit(pending) > 0
    BY <1>1, <2>1
  <2> DEFINE last == pending[Len(pending)]
  <2>4. /\ Len(pending) > 0 /\ last.active
        /\ episode.target <= Cent \/ episode.net + Cent < episode.target + last.amount
    BY <2>2, <2>3 DEF MoneyInv, LastProceedsCount
  <2>5. last.amount \in Nat /\ last.amount <= InTransit(pending)
    <3>1. Len(pending) \in 1..Len(pending)
      BY <1>1, <2>4
    <3>2. last \in Settlement
      BY <1>1, <3>1, InTransitTyped
    <3>. QED BY <1>1, <2>4, <3>1, <3>2, InTransitAtLeast, SettlementFacts DEF ActiveAmount
  <2> HIDE DEF last
  <2>6. episode.target <= Cent
    <3>1. PICK transit \in Nat, amount \in Nat : transit = InTransit(pending) /\ amount = last.amount
      BY <1>1, <2>5
    <3>2. amount <= transit /\ episode.settled + transit <= episode.net
      BY <2>2, <2>5, <3>1
    <3>3. ~(episode.net + Cent < episode.target + amount)
      <4>1. \A net, settled, target, cent, t, m \in Nat :
              m <= t /\ settled + t <= net /\ settled + cent >= target
                => ~(net + cent < target + m)
        OBVIOUS
      <4>. QED BY ONLY <2>2, <3>1, <3>2, <4>1
    <3>. QED BY ONLY <2>4, <3>1, <3>3
  <2>7. episode.net <= Cent
    BY <2>6 DEF MoneyInv, SmallTargets
  <2>. QED BY <1>1, <2>1, <2>2, <2>7
<1>. QED BY <1>1, <1>2, <1>3

(* A completed episode leaves no more than a cent behind.                    *)
LEMMA AssessMoney ==
  ASSUME MoneyInv, Assess
  PROVE  MoneyInv'
<1>1. /\ phase' = "trigger" /\ state' = StateOf(holdings, Balance(loan)) /\ phase = "assess"
      /\ UNCHANGED <<scenario, index, bars, condition, holdings, loan>>
  BY DEF Assess, market
<1>2. Typed /\ pending \in Settlements /\ loan \in Loan
  BY DEF MoneyInv, Typed
<1>3. policy' = policy
  BY <1>1 DEF policy
<1>4. state' \in MarginStates
  BY <1>1, StateTyped
<1>5. CASE Completed
  <2>1. /\ episode' = NoEpisode
        /\ outcome'.residual = RoundMoney(Balance(loan))
        /\ pending' = [i \in DOMAIN pending |-> [pending[i] EXCEPT !.active = FALSE]]
    BY <1>5 DEF Assess, Closed
  <2>2. /\ pending' \in Settlements /\ Len(pending') = Len(pending)
        /\ \A i \in 1..Len(pending) : /\ pending'[i].amount = pending[i].amount
                                      /\ ~pending'[i].active
                                      /\ pending'[i].wait = pending[i].wait
        /\ InTransit(pending') = 0
    BY <1>2, <2>1, Deactivated
  <2>3. outcome'.residual \in Nat
    BY <1>2, <2>1, BalanceNat, RoundMoneyNat
  <2>4. Typed'
    BY <1>1, <1>2, <1>4, <2>1, <2>2, <2>3, NoEpisodeTyped DEF Typed, BarsTyped, Phases
  <2>5. WholeCents'
    BY <2>1, <2>2, NoEpisodeTyped DEF MoneyInv, WholeCents
  <2>6. FirstRaisedFirstSettled'
    <3>1. Len(pending) \in Nat
      BY <1>2, InTransitTyped
    <3>. QED BY <1>3, <2>2, <3>1 DEF MoneyInv, FirstRaisedFirstSettled
  <2>7. Proceeds' /\ LastProceedsCount'
    BY <2>1, <2>2 DEF Proceeds, LastProceedsCount, NoEpisode
  <2>8. SmallTargets'
    BY <1>5, <2>1, <2>2, CompletedLeavesCents, CentAssumption DEF SmallTargets, NoEpisode
  <2>. QED BY <1>1, <2>1, <2>4, <2>5, <2>6, <2>7, <2>8, ClearedKeeps DEF MoneyInv
<1>6. CASE ~Completed
  <2>1. UNCHANGED <<episode, outcome, pending>>
    BY <1>6 DEF Assess
  <2>2. Typed'
    BY <1>1, <1>2, <1>4, <2>1 DEF Typed, BarsTyped, Phases
  <2>3. OrdersAreSound' /\ WholeCents' /\ FirstRaisedFirstSettled' /\ RecoveryIsBounded'
    BY <1>3, <2>1
       DEF MoneyInv, OrdersAreSound, WholeCents, FirstRaisedFirstSettled, RecoveryIsBounded
  <2>4. Proceeds' /\ LastProceedsCount' /\ SmallTargets'
    BY <1>1, <2>1 DEF MoneyInv, Proceeds, LastProceedsCount, SmallTargets
  <2>5. NothingBeforeAnAttempt'
    BY <1>1, <2>1 DEF MoneyInv, NothingBeforeAnAttempt
  <2>. QED BY <2>2, <2>3, <2>4, <2>5 DEF MoneyInv
<1>. QED BY <1>5, <1>6

(***************************************************************************)
(* Opening and cancelling an episode                                       *)
(***************************************************************************)
LEMMA TargetNat ==
  ASSUME Typed
  PROVE  RecoveryTarget \in Nat
<1> DEFINE owed == Balance(loan)
           needed == IF Forced THEN owed
                     ELSE Larger(CureOf(holdings, owed), Excess(owed, LimitOf(holdings)))
           buffer == ProjectedInterestBuffer(loan, Delay + policy.settlement)
<1>1. owed \in Nat
  BY BalanceNat DEF Typed
<1>2. needed \in Nat
  <2>1. CureOf(holdings, owed) \in Nat /\ LimitOf(holdings) \in Nat
    BY <1>1, CureNat, LimitNat DEF Typed
  <2> HIDE DEF owed
  <2>2. Excess(owed, LimitOf(holdings)) \in Nat
    BY <1>1, <2>1, ExcessNat
  <2>. QED BY <1>1, <2>1, <2>2 DEF Larger
<1>3. buffer \in Nat
  <2>1. Delay + policy.settlement \in Nat /\ loan \in Loan
    BY PolicyTyped DEF Typed
  <2>. QED BY <2>1, BufferNat
<1>4. RecoveryTarget = Least(needed, owed) + buffer
  BY DEF RecoveryTarget
<1> HIDE DEF owed, needed, buffer
<1>. QED BY <1>1, <1>2, <1>3, <1>4 DEF Least

(* A new episode has raised nothing; its target is whole cents, and its      *)
(* orders are those of an advisory.                                          *)
LEMMA NewEpisodeTyped ==
  ASSUME Typed, NEW target \in Nat, NEW opened, opened = NewEpisode(target)
  PROVE  /\ opened \in Episode
         /\ opened.status = "scheduled" /\ opened.attempts = 0
         /\ opened.net = 0 /\ opened.settled = 0
         /\ opened.target = RoundMoney(target) /\ opened.wait = Delay
         /\ Len(opened.orders) <= Len(Listing)
         /\ opened.orders # <<>> => policy.cost < 100
<1> DEFINE orders == BuildRecoveryAdvisory(holdings, Quotes, target, policy)
<1>1. /\ orders \in Seq(Order)
      /\ Len(orders) <= Len(Listing)
      /\ orders # <<>> => policy.cost < 100
  BY QuotesType, PolicyTyped, AdvisoryTyped DEF Typed
<1>2. Delay \in Nat /\ RoundMoney(target) \in Nat
  BY PolicyTyped, RoundMoneyNat DEF Typed
<1>3. opened = [NoEpisode EXCEPT
                  !.status = "scheduled",
                  !.action = IF Forced THEN "full_recovery" ELSE "restore_coverage",
                  !.target = RoundMoney(target),
                  !.wait   = Delay,
                  !.orders = orders]
  BY DEF NewEpisode
<1> DEFINE action == IF Forced THEN "full_recovery" ELSE "restore_coverage"
<1> HIDE DEF orders
<1>4. opened = [status |-> "scheduled", action |-> action, target |-> RoundMoney(target),
                wait |-> Delay, orders |-> orders, attempts |-> 0, net |-> 0, settled |-> 0,
                loss |-> 0]
  BY <1>3 DEF NoEpisode
<1>5. action \in {"none", "full_recovery", "restore_coverage"}
  OBVIOUS
<1> HIDE DEF action
<1>6. opened \in Episode
  BY <1>1, <1>2, <1>4, <1>5 DEF Episode
<1>. QED BY <1>1, <1>4, <1>6

(* A new episode has raised nothing.                                         *)
LEMMA TriggerMoney ==
  ASSUME MoneyInv, TriggerEpisode
  PROVE  MoneyInv'
<1>1. /\ phase = "trigger" /\ phase' = "act"
      /\ UNCHANGED <<scenario, index, bars, condition, holdings, loan, state, pending, outcome>>
  BY DEF TriggerEpisode, market
<1>2. Typed /\ pending \in Settlements /\ Len(pending) \in Nat /\ InTransit(pending) \in Nat
  BY InTransitTyped DEF MoneyInv, Typed
<1>3. policy' = policy
  BY <1>1 DEF policy
<1>4. CASE episode.status = "none" /\ Alarmed
  <2>1. PICK target \in {RecoveryTarget} : episode' = NewEpisode(target)
    BY <1>4 DEF TriggerEpisode
  <2>2. target \in Nat
    BY <1>2, TargetNat
  <2>3. /\ episode' \in Episode
        /\ episode'.status = "scheduled" /\ episode'.attempts = 0
        /\ episode'.net = 0 /\ episode'.settled = 0
        /\ episode'.target = RoundMoney(target)
        /\ Len(episode'.orders) <= Len(Listing)
        /\ episode'.orders # <<>> => policy.cost < 100
    BY <1>2, <2>1, <2>2, NewEpisodeTyped
  <2>4. episode = NoEpisode
    BY <1>4 DEF MoneyInv, NothingBeforeAnAttempt
  <2>5. InTransit(pending) = 0
    BY <1>2, <2>4 DEF MoneyInv, Proceeds, NoEpisode
  <2>6. Typed'
    BY <1>1, <1>2, <2>3 DEF Typed, BarsTyped, Phases
  <2>7. WholeCents'
    <3>1. IsCents(RoundMoney(target)) /\ IsCents(0)
      BY <2>2, RoundedIsCents, NoEpisodeTyped DEF RoundMoney, NoEpisode
    <3>. QED BY <1>1, <2>3, <3>1 DEF MoneyInv, WholeCents
  <2>8. FirstRaisedFirstSettled'
    BY <1>1, <1>3 DEF MoneyInv, FirstRaisedFirstSettled
  <2>9. Proceeds' /\ LastProceedsCount'
    BY <1>1, <2>3, <2>5 DEF Proceeds, LastProceedsCount
  <2>10. SmallTargets'
    BY <1>1, <2>3, CentAssumption DEF MoneyInv, SmallTargets
  <2>11. NothingBeforeAnAttempt' /\ OrdersAreSound'
    BY <1>3, <2>3 DEF NothingBeforeAnAttempt, OrdersAreSound
  <2>12. RecoveryIsBounded'
    <3>1. Cent * Len(Listing) * 0 = 0 /\ RoundMoney(target) \in Nat
      BY <2>2, CentAssumption, ListingFacts, RoundMoneyNat
    <3>. QED BY <2>3, <3>1 DEF RecoveryIsBounded
  <2>. QED BY <2>6, <2>7, <2>8, <2>9, <2>10, <2>11, <2>12 DEF MoneyInv
<1>5. CASE ~(episode.status = "none" /\ Alarmed)
  <2>1. UNCHANGED episode
    BY <1>5 DEF TriggerEpisode
  <2>2. EpisodeKept
    BY <1>2, <2>1 DEF EpisodeKept, Typed
  <2>3. Typed'
    BY <1>1, <1>2, <2>1 DEF Typed, BarsTyped, Phases
  <2>4. WholeCents' /\ FirstRaisedFirstSettled'
    BY <1>1, <1>3, <2>1 DEF MoneyInv, WholeCents, FirstRaisedFirstSettled
  <2>5. Proceeds' /\ LastProceedsCount' /\ SmallTargets'
    BY <1>1, <2>1 DEF MoneyInv, Proceeds, LastProceedsCount, SmallTargets
  <2>6. NothingBeforeAnAttempt'
    BY <1>1, <2>1 DEF MoneyInv, NothingBeforeAnAttempt
  <2>. QED BY <1>1, <2>2, <2>3, <2>4, <2>5, <2>6, EpisodeKeeps DEF MoneyInv
<1>. QED BY <1>4, <1>5

(* A cancelled episode has nothing in transit.                               *)
LEMMA CancelMoney ==
  ASSUME MoneyInv, CancelEpisode
  PROVE  MoneyInv'
<1>1. /\ phase' = "feed" /\ episode' = NoEpisode /\ episode.attempts = 0
      /\ outcome'.residual = RoundMoney(Balance(loan))
      /\ UNCHANGED <<scenario, index, bars, condition, holdings, loan, state, pending>>
  BY DEF CancelEpisode, Cancelled, Closed, market
<1>2. Typed /\ pending \in Settlements /\ InTransit(pending) \in Nat /\ loan \in Loan
      /\ episode.settled \in Nat
  BY InTransitTyped DEF MoneyInv, Typed, Episode
<1>3. policy' = policy
  BY <1>1 DEF policy
<1>4. outcome'.residual \in Nat
  BY <1>1, <1>2, BalanceNat, RoundMoneyNat
<1>5. Typed'
  BY <1>1, <1>2, <1>4, NoEpisodeTyped DEF Typed, BarsTyped, Phases
<1>6. InTransit(pending) = 0
  BY <1>1, <1>2 DEF MoneyInv, NothingBeforeAnAttempt, Proceeds
<1>7. WholeCents' /\ FirstRaisedFirstSettled'
  BY <1>1, <1>3, NoEpisodeTyped DEF MoneyInv, WholeCents, FirstRaisedFirstSettled
<1>8. Proceeds' /\ LastProceedsCount' /\ SmallTargets'
  BY <1>1, <1>6, CentAssumption DEF MoneyInv, Proceeds, LastProceedsCount, SmallTargets, NoEpisode
<1>. QED BY <1>1, <1>5, <1>7, <1>8, ClearedKeeps DEF MoneyInv

(***************************************************************************)
(* Waiting and the end of the history                                      *)
(***************************************************************************)
LEMMA RestMoney ==
  ASSUME MoneyInv, Wait \/ EndReplay \/ UNCHANGED vars
  PROVE  MoneyInv'
<1>1. UNCHANGED <<scenario, index, bars, condition, holdings, loan, state, pending>>
  BY DEF Wait, EndReplay, vars, market
<1>2. Typed /\ loan \in Loan
  BY DEF MoneyInv, Typed
<1>3. policy' = policy
  BY <1>1 DEF policy
<1>4. CASE EndReplay /\ episode.status \in Unresolved
  <2> DEFINE loss == IF SoldOut(holdings) /\ pending = <<>> THEN RoundMoney(Balance(loan))
                     ELSE episode.loss
  <2>1. phase' = "done" /\ outcome'.residual = RoundMoney(Balance(loan))
    BY <1>4 DEF EndReplay, Closed
  <2>2. episode' = [episode EXCEPT !.status = "unresolved_at_replay_end", !.loss = loss]
    BY <1>4 DEF EndReplay
  <2>3. RoundMoney(Balance(loan)) \in Nat /\ loss \in Nat
    BY <1>2, BalanceNat, RoundMoneyNat DEF Typed, Episode
  <2> HIDE DEF loss
  <2>4. /\ episode' \in Episode /\ episode'.status = "unresolved_at_replay_end"
        /\ episode'.attempts = episode.attempts
        /\ episode'.target = episode.target /\ episode'.net = episode.net
        /\ episode'.settled = episode.settled /\ episode'.orders = episode.orders
    BY <1>2, <2>2, <2>3 DEF Typed, Episode
  <2>5. Typed'
    BY <1>1, <1>2, <2>1, <2>3, <2>4 DEF Typed, BarsTyped, Phases
  <2>6. OrdersAreSound' /\ RecoveryIsBounded' /\ WholeCents' /\ FirstRaisedFirstSettled'
    BY <1>1, <1>3, <2>4
       DEF MoneyInv, OrdersAreSound, RecoveryIsBounded, WholeCents, FirstRaisedFirstSettled
  <2>7. Proceeds' /\ LastProceedsCount' /\ SmallTargets'
    BY <1>1, <2>4 DEF MoneyInv, Proceeds, LastProceedsCount, SmallTargets
  <2>8. NothingBeforeAnAttempt'
    BY <2>1, <2>4 DEF MoneyInv, NothingBeforeAnAttempt
  <2>. QED BY <2>5, <2>6, <2>7, <2>8 DEF MoneyInv
<1>5. CASE ~(EndReplay /\ episode.status \in Unresolved)
  <2>1. UNCHANGED <<episode, outcome>> /\ phase' \in Phases
        /\ (phase = "done" => phase' = "done")
    BY <1>2, <1>5 DEF Wait, EndReplay, vars, Phases, Typed
  <2>2. Typed'
    BY <1>1, <1>2, <2>1 DEF Typed, BarsTyped
  <2>3. OrdersAreSound' /\ RecoveryIsBounded' /\ WholeCents' /\ FirstRaisedFirstSettled'
    BY <1>1, <1>3, <2>1
       DEF MoneyInv, OrdersAreSound, RecoveryIsBounded, WholeCents, FirstRaisedFirstSettled
  <2>4. Proceeds' /\ LastProceedsCount' /\ SmallTargets'
    BY <1>1, <2>1 DEF MoneyInv, Proceeds, LastProceedsCount, SmallTargets
  <2>5. NothingBeforeAnAttempt'
    BY <2>1 DEF MoneyInv, NothingBeforeAnAttempt
  <2>. QED BY <2>2, <2>3, <2>4, <2>5 DEF MoneyInv
<1>. QED BY <1>4, <1>5

(***************************************************************************)
(* An attempt                                                              *)
(***************************************************************************)

(* What an attempt does to holdings, episode and settlements.                *)
LEMMA ExecuteStep ==
  ASSUME MoneyInv, ExecuteEpisode
  PROVE  \E proceeds \in Nat :
           /\ IsCents(proceeds)
           /\ proceeds <= Excess(episode.target, episode.net) + Cent * Len(episode.orders)
           /\ Excess(episode.target, episode.net) <= Cent => proceeds <= Cent
           /\ holdings' \in Lots
           /\ pending' = IF proceeds = 0 THEN pending
                         ELSE Append(pending, [amount |-> proceeds, wait |-> policy.settlement,
                                               active |-> TRUE])
           /\ state' \in MarginStates
           /\ episode' \in Episode
           /\ episode'.attempts = episode.attempts + 1
           /\ episode'.net = episode.net + proceeds
           /\ episode'.status = NextStatus(episode.net + proceeds)
           /\ episode'.target = episode.target /\ episode'.settled = episode.settled
           /\ episode'.orders = episode.orders
           /\ outcome'.residual \in Nat
           /\ InTransit(pending') = InTransit(pending) + proceeds
<1> DEFINE left == Excess(episode.target, episode.net)
           sale == ExecuteRecoveryAdvisory(holdings, Quotes, episode.orders, left, policy)
           net == episode.net + sale.proceeds
           failed == NextStatus(net) = "failed"
           transit == IF sale.proceeds = 0 THEN pending
                      ELSE Append(pending, [amount |-> sale.proceeds,
                                            wait |-> policy.settlement, active |-> TRUE])
           loss == IF failed /\ SoldOut(sale.holdings) /\ transit = <<>>
                   THEN RoundMoney(Balance(loan)) ELSE episode.loss
<1>1. /\ holdings' = sale.holdings
      /\ pending' = transit
      /\ state' = StateOf(sale.holdings, Balance(loan))
      /\ episode' = [episode EXCEPT !.attempts = @ + 1, !.net = net,
                                    !.status = NextStatus(net), !.loss = loss]
      /\ outcome' = IF failed THEN [Closed("failed") EXCEPT !.attempts = @ + 1] ELSE outcome
  BY DEF ExecuteEpisode
<1>2. Typed /\ episode \in Episode /\ loan \in Loan /\ outcome.residual \in Nat
  BY DEF MoneyInv, Typed
<1>3. left \in Nat
  BY <1>2, ExcessNat DEF Episode
<1>4. /\ sale.holdings \in Lots
      /\ IsCents(sale.proceeds)
      /\ sale.proceeds <= left + Cent * Len(episode.orders)
      /\ left <= Cent => sale.proceeds <= Cent
  <2>1. /\ holdings \in Lots /\ Quotes \in [Assets -> Quote] /\ policy \in ExecutionPolicy
        /\ episode.orders \in Seq(Order) /\ (episode.orders # <<>> => policy.cost < 100)
    BY <1>2, QuotesType, PolicyTyped DEF Typed, Episode, MoneyInv, OrdersAreSound
  <2> HIDE DEF left
  <2>. QED BY <1>3, <2>1, ExecuteTyped
<1>5. sale.proceeds \in Nat
  BY <1>4, CentsStay
<1>6. state' \in MarginStates
  BY <1>1, StateTyped
<1>7. RoundMoney(Balance(loan)) \in Nat
  BY <1>2, BalanceNat, RoundMoneyNat
<1>8. loss \in Nat
  BY <1>2, <1>7 DEF Episode
<1>9. outcome'.residual \in Nat
  BY <1>1, <1>2, <1>7 DEF Closed
<1>10. PICK proceeds \in Nat : proceeds = sale.proceeds
  BY <1>5
<1>11. NextStatus(net) \in {"settling", "failed", "executing"}
  BY DEF NextStatus
<1>12. net = episode.net + proceeds /\ net \in Nat /\ episode.attempts + 1 \in Nat
  BY <1>2, <1>10 DEF Episode
<1>13. pending' = IF proceeds = 0 THEN pending
                  ELSE Append(pending, [amount |-> proceeds, wait |-> policy.settlement,
                                        active |-> TRUE])
  BY <1>1, <1>10
<1> HIDE DEF loss, net, sale, left
<1>14. /\ episode' \in Episode
       /\ episode'.attempts = episode.attempts + 1
       /\ episode'.net = net
       /\ episode'.status = NextStatus(net)
       /\ episode'.target = episode.target /\ episode'.settled = episode.settled
       /\ episode'.orders = episode.orders
  <2>1. episode' = [episode EXCEPT !.attempts = @ + 1, !.net = net,
                                   !.status = NextStatus(net), !.loss = loss]
    BY <1>1
  <2>2. PICK s \in {"settling", "failed", "executing"} : s = NextStatus(net)
    BY <1>11
  <2>. QED BY <1>2, <1>8, <1>12, <2>1, <2>2 DEF Episode
<1>15. InTransit(pending') = InTransit(pending) + proceeds
  <2> DEFINE e == [amount |-> proceeds, wait |-> policy.settlement, active |-> TRUE]
  <2>1. pending \in Settlements /\ InTransit(pending) \in Nat /\ policy.settlement \in Nat
    BY <1>2, InTransitTyped, PolicyTyped DEF Typed
  <2>2. e \in Settlement /\ ActiveAmount(e) = proceeds
    BY <2>1 DEF Settlement, ActiveAmount
  <2>3. CASE proceeds = 0
    BY <1>13, <2>1, <2>3
  <2>4. CASE proceeds > 0
    <3>1. pending' = Append(pending, e)
      BY <1>13, <2>4
    <3> HIDE DEF e
    <3>. QED BY <2>1, <2>2, <3>1, InTransitAppend
  <2>. QED BY <2>3, <2>4
<1>. QED BY <1>1, <1>4, <1>6, <1>9, <1>10, <1>12, <1>13, <1>14, <1>15 DEF left

(* An episode that is executing has not reached its target; one that is just *)
(* scheduled has raised nothing.                                             *)
LEMMA DueIsShort ==
  ASSUME MoneyInv, StatusIsTrue, episode.status \in {"scheduled", "executing"}
  PROVE  \/ episode.net + Cent < episode.target
         \/ episode.net = 0 /\ episode.target <= Cent /\ InTransit(pending) = 0
<1>1. /\ episode.net \in Nat /\ episode.target \in Nat /\ episode.settled \in Nat
      /\ Cent \in Nat /\ InTransit(pending) \in Nat
  BY CentAssumption, InTransitTyped DEF MoneyInv, Typed, Episode
<1>2. CASE episode.status = "executing"
  BY <1>1, <1>2 DEF StatusIsTrue, Reached
<1>3. CASE episode.status = "scheduled"
  <2>1. episode.net = 0
    BY <1>3 DEF StatusIsTrue, MoneyInv, NothingBeforeAnAttempt
  <2>2. InTransit(pending) = 0
    BY <1>1, <2>1 DEF MoneyInv, Proceeds
  <2>. QED BY <1>1, <2>1, <2>2
<1>. QED BY <1>2, <1>3

(* No attempt raises more than what is left of the target, but for a cent    *)
(* for each order.                                                           *)
LEMMA BoundGrows ==
  ASSUME NEW target \in Nat, NEW net \in Nat, NEW attempts \in Nat, NEW orders \in Nat,
         NEW assets \in Nat, orders <= assets, NEW proceeds \in Nat,
         net <= target + Cent * assets * attempts,
         proceeds <= Excess(target, net) + Cent * orders
  PROVE  net + proceeds <= target + Cent * assets * (attempts + 1)
<1>1. Cent * orders <= Cent * assets /\ Cent * orders \in Nat /\ Cent * assets \in Nat
  BY CentAssumption, ProductMonotone
<1>2. PICK unit \in Nat : unit = Cent * assets
  BY <1>1
<1>3. unit * (attempts + 1) = unit * attempts + unit /\ unit * attempts \in Nat
  BY <1>2
<1>4. Excess(target, net) + net <= target + unit * attempts
  BY <1>2, <1>3 DEF Excess
<1>5. Excess(target, net) \in Nat
  BY ExcessNat
<1>. QED BY <1>1, <1>2, <1>3, <1>4, <1>5

(* What an attempt raises is in transit, within the bound.                   *)
LEMMA ExecuteMoney ==
  ASSUME MoneyInv, StatusIsTrue, ExecuteEpisode
  PROVE  MoneyInv'
<1>1. /\ phase = "act" /\ phase' = "feed" /\ episode.status \in {"scheduled", "executing"}
      /\ UNCHANGED <<scenario, index, bars, condition, loan>>
  BY DEF ExecuteEpisode, Due, market
<1>2. PICK proceeds \in Nat :
        /\ IsCents(proceeds)
        /\ proceeds <= Excess(episode.target, episode.net) + Cent * Len(episode.orders)
        /\ Excess(episode.target, episode.net) <= Cent => proceeds <= Cent
        /\ holdings' \in Lots
        /\ pending' = IF proceeds = 0 THEN pending
                      ELSE Append(pending, [amount |-> proceeds, wait |-> policy.settlement,
                                            active |-> TRUE])
        /\ state' \in MarginStates
        /\ episode' \in Episode
        /\ episode'.attempts = episode.attempts + 1
        /\ episode'.net = episode.net + proceeds
        /\ episode'.status = NextStatus(episode.net + proceeds)
        /\ episode'.target = episode.target /\ episode'.settled = episode.settled
        /\ episode'.orders = episode.orders
        /\ outcome'.residual \in Nat
        /\ InTransit(pending') = InTransit(pending) + proceeds
  BY ExecuteStep
<1>3. Typed /\ pending \in Settlements /\ Len(pending) \in Nat /\ InTransit(pending) \in Nat
      /\ \A i \in 1..Len(pending) : pending[i] \in Settlement
  BY InTransitTyped DEF MoneyInv, Typed
<1>4. /\ episode.target \in Nat /\ episode.net \in Nat /\ episode.settled \in Nat
      /\ episode.attempts \in Nat /\ episode.orders \in Seq(Order) /\ Cent \in Nat
      /\ Len(episode.orders) \in Nat /\ Balance(loan) \in Nat
  BY <1>3, CentAssumption, LenProperties, BalanceNat DEF Typed, Episode
<1>5. policy' = policy /\ policy.settlement \in Nat
  BY <1>1, <1>3, PolicyTyped DEF policy, Typed
<1> DEFINE e == [amount |-> proceeds, wait |-> policy.settlement, active |-> TRUE]
<1>6. e \in Settlement /\ ActiveAmount(e) = proceeds
      /\ e.amount = proceeds /\ e.wait = policy.settlement /\ e.active = TRUE
  BY <1>5 DEF Settlement, ActiveAmount
<1> HIDE DEF e
(* The settlements: those there were, and the proceeds if there are any.     *)
<1>7. /\ pending' \in Settlements
      /\ InTransit(pending') = InTransit(pending) + proceeds
      /\ \/ proceeds = 0 /\ pending' = pending
         \/ /\ proceeds > 0 /\ Len(pending') = Len(pending) + 1
            /\ pending'[Len(pending')] = e
            /\ \A i \in 1..Len(pending) : pending'[i] = pending[i]
  <2>1. CASE proceeds = 0
    BY <1>2, <1>3, <2>1
  <2>2. CASE proceeds > 0
    <3>1. pending' = Append(pending, e)
      BY <1>2, <2>2 DEF e
    <3>2. /\ Len(Append(pending, e)) = Len(pending) + 1
          /\ \A i \in 1..Len(pending) : Append(pending, e)[i] = pending[i]
          /\ Append(pending, e)[Len(pending) + 1] = e
      BY <1>3, <1>6, AppendProperties DEF Settlements
    <3>3. Append(pending, e) \in Settlements
      BY <1>3, <1>6, InTransitAppend
    <3>. QED BY <1>2, <2>2, <3>1, <3>2, <3>3
  <2>. QED BY <2>1, <2>2
<1>8. Typed'
  BY <1>1, <1>2, <1>3, <1>7 DEF Typed, BarsTyped, Phases
<1>9. OrdersAreSound'
  BY <1>2, <1>5 DEF MoneyInv, OrdersAreSound
<1>10. WholeCents'
  <2>1. IsCents(episode.net + proceeds)
    BY <1>2, CentsAdd DEF MoneyInv, WholeCents
  <2>2. ASSUME NEW i \in 1..Len(pending')
        PROVE  IsCents(pending'[i].amount) /\ pending'[i].amount > 0
    <3>1. CASE i \in 1..Len(pending) /\ pending'[i] = pending[i]
      BY <3>1 DEF MoneyInv, WholeCents
    <3>2. CASE proceeds > 0 /\ pending'[i] = e
      BY <1>2, <1>6, <3>2
    <3>. QED BY <1>3, <1>7, <3>1, <3>2
  <2>. QED BY <1>2, <2>1, <2>2 DEF MoneyInv, WholeCents
<1>11. NothingBeforeAnAttempt'
  BY <1>2, <1>4 DEF NothingBeforeAnAttempt, NextStatus
<1>12. FirstRaisedFirstSettled'
  <2>1. \A i \in 1..Len(pending) : pending[i].wait <= policy.settlement
    BY DEF MoneyInv, FirstRaisedFirstSettled
  <2>2. CASE proceeds = 0 /\ pending' = pending
    BY <1>5, <2>2 DEF MoneyInv, FirstRaisedFirstSettled
  <2>3. CASE Len(pending') = Len(pending) + 1 /\ pending'[Len(pending')] = e
             /\ \A i \in 1..Len(pending) : pending'[i] = pending[i]
    <3>1. ASSUME NEW i \in 1..Len(pending') PROVE pending'[i].wait <= policy.settlement
      <4>1. CASE i \in 1..Len(pending)
        BY <2>1, <2>3, <4>1
      <4>2. CASE i = Len(pending')
        BY <1>5, <1>6, <2>3, <4>2
      <4>. QED BY <1>3, <2>3, <4>1, <4>2
    <3>2. pending'[Len(pending')].wait = policy.settlement
      BY <1>6, <2>3
    <3>. QED BY <1>5, <3>1, <3>2 DEF FirstRaisedFirstSettled
  <2>. QED BY <1>7, <2>2, <2>3
<1>13. Proceeds'
  <2>1. /\ episode.settled + InTransit(pending) <= episode.net
        /\ Balance(loan) > 0 => episode.settled + InTransit(pending) = episode.net
    BY DEF MoneyInv, Proceeds
  <2>2. loan' = loan /\ episode'.net = episode.net + proceeds
        /\ episode'.settled = episode.settled
        /\ InTransit(pending') = InTransit(pending) + proceeds
    BY <1>1, <1>2, <1>7
  <2>3. /\ episode.settled + (InTransit(pending) + proceeds) <= episode.net + proceeds
        /\ Balance(loan) > 0
             => episode.settled + (InTransit(pending) + proceeds) = episode.net + proceeds
    BY ONLY <1>3, <1>4, <2>1, proceeds \in Nat
  <2>. QED BY <2>2, <2>3 DEF Proceeds
<1>14. \/ episode.net + Cent < episode.target
       \/ episode.net = 0 /\ episode.target <= Cent /\ InTransit(pending) = 0
  BY <1>1, DueIsShort
<1>15. LastProceedsCount'
  <2>1. SUFFICES ASSUME episode'.status = "settling", InTransit(pending') > 0
                 PROVE  /\ Len(pending') > 0 /\ pending'[Len(pending')].active
                        /\ \/ episode'.target <= Cent
                           \/ episode'.net + Cent
                                < episode'.target + pending'[Len(pending')].amount
    BY DEF LastProceedsCount
  <2>2. episode.net + proceeds + Cent >= episode.target
    BY <1>2, <2>1 DEF NextStatus, Reached
  <2>3. proceeds > 0
    BY <1>3, <1>4, <1>7, <1>14, <2>1, <2>2
  <2>4. Len(pending') > 0 /\ pending'[Len(pending')] = e
    BY <1>3, <1>7, <2>3
  <2>5. CASE episode.net + Cent < episode.target
    <3>1. episode.net + proceeds + Cent < episode.target + proceeds
      BY ONLY <1>4, <2>5, proceeds \in Nat
    <3>. QED BY <1>2, <1>6, <2>4, <3>1
  <2>6. CASE episode.target <= Cent
    BY <1>2, <1>6, <2>4, <2>6
  <2>. QED BY <1>14, <2>5, <2>6
<1>16. SmallTargets'
  <2>1. episode'.target <= Cent => episode'.net <= Cent
    BY <1>2, <1>4, <1>14 DEF Excess
  <2>2. \A i \in 1..Len(pending) : ~pending[i].active => pending[i].amount <= Cent
    BY DEF MoneyInv, SmallTargets
  <2>3. \A i \in 1..Len(pending') : ~pending'[i].active => pending'[i].amount <= Cent
    BY <1>3, <1>6, <1>7, <2>2
  <2>. QED BY <2>1, <2>3 DEF SmallTargets
<1>17. RecoveryIsBounded'
  <2>1. /\ episode.net <= episode.target + Cent * Len(Listing) * episode.attempts
        /\ Len(episode.orders) <= Len(Listing) /\ Len(Listing) \in Nat
    BY ListingFacts DEF MoneyInv, RecoveryIsBounded, OrdersAreSound
  <2>2. episode.net + proceeds
          <= episode.target + Cent * Len(Listing) * (episode.attempts + 1)
    BY ONLY <1>2, <1>4, <2>1, BoundGrows
  <2>. QED BY <1>2, <2>2 DEF RecoveryIsBounded
<1>. QED
  BY <1>8, <1>9, <1>10, <1>11, <1>12, <1>13, <1>15, <1>16, <1>17 DEF MoneyInv

(***************************************************************************)
(* What holds of the money of every replay                                 *)
(***************************************************************************)

(* All of it together.                                                       *)
LEMMA MoneyInductive == ReplayInv /\ MoneyInv /\ [Next]_vars => MoneyInv'
<1> SUFFICES ASSUME ReplayInv, MoneyInv, [Next]_vars PROVE MoneyInv'
  OBVIOUS
<1>1. StatusIsTrue
  BY DEF ReplayInv
<1>. QED
  BY <1>1, ObserveMoney, SettleMoney, AssessMoney, TriggerMoney, CancelMoney, ExecuteMoney,
     RestMoney DEF Next

LEMMA MoneyAlways == Spec => [](ReplayInv /\ MoneyInv)
BY ReplayInitInv, ReplayInductive, MoneyInitInv, MoneyInductive, PTL DEF Spec

(* Every replay keeps to its types: whatever it sells, settles and charges,  *)
(* no number leaves the natural numbers.                                     *)
THEOREM ReplayTypes == Spec => []TypeOK
<1>1. MoneyInv => TypeOK
  BY DEF MoneyInv, Typed, TypeOK, BarsTyped, Lots, Settlements, Episode
<1>. QED BY <1>1, MoneyAlways, PTL

(* No money is lost between a sale and the loan, and the status of the       *)
(* episode tells the truth about it, in every replay.                        *)
THEOREM ReplayAccountsForMoney == Spec => []MoneyIsAccountedFor
<1>1. ReplayInv /\ MoneyInv => MoneyIsAccountedFor
  <2> SUFFICES ASSUME ReplayInv, MoneyInv PROVE MoneyIsAccountedFor
    OBVIOUS
  <2>1. Protocol!ProceedsReachTheLoan
    BY DEF MoneyInv, Proceeds, Protocol!ProceedsReachTheLoan
  <2>2. Granted \in Nat /\ StatusIsTrue /\ NothingBeforeAnAttempt
    BY GrantedIsPositive DEF ReplayInv, MoneyInv
  <2>3. Protocol!StatusMatchesMoney
    BY <2>2 DEF Protocol!StatusMatchesMoney, Protocol!Reached, StatusIsTrue, Reached, Granted,
                NothingBeforeAnAttempt
  <2>. QED BY <2>1, <2>3 DEF MoneyIsAccountedFor, Protocol!MoneyIsAccountedFor
<1>. QED BY <1>1, MoneyAlways, PTL

(* No episode takes more from the collateral than its target and the         *)
(* rounding of each fill to the cent.                                        *)
THEOREM RecoveryStaysBounded == Spec => []RecoveryIsBounded
<1>1. MoneyInv => RecoveryIsBounded
  BY DEF MoneyInv
<1>. QED BY <1>1, MoneyAlways, PTL

(* Money on its way to the loan has an episode that waits for it.            *)
THEOREM ProceedsAreClaimed == Spec => []ProceedsHaveAnEpisode
<1>1. MoneyInv => ProceedsHaveAnEpisode
  <2> SUFFICES ASSUME MoneyInv PROVE ProceedsHaveAnEpisode
    OBVIOUS
  <2>1. pending \in Settlements /\ InTransit(pending) \in Nat /\ DOMAIN pending = 1..Len(pending)
    BY InTransitTyped, LenProperties DEF MoneyInv, Typed, Settlements
  <2>2. episode.status = "none" => InTransit(pending) = 0
    <3> SUFFICES ASSUME episode.status = "none" PROVE InTransit(pending) = 0
      OBVIOUS
    <3>1. episode.net = 0 /\ episode.settled = 0
      BY DEF MoneyInv, NothingBeforeAnAttempt, NoEpisode
    <3>. QED BY <2>1, <3>1 DEF MoneyInv, Proceeds
  <2>. QED BY <2>1, <2>2 DEF MoneyInv, SmallTargets, ProceedsHaveAnEpisode
<1>. QED BY <1>1, MoneyAlways, PTL

(***************************************************************************)
(* The replay follows the recovery protocol                                *)
(***************************************************************************)
LEMMA ProtocolTyped ==
  ASSUME ReplayInv, MoneyInv
  PROVE  /\ Larger(1, policy.attempts) = Granted /\ Granted \in Nat \ {0}
         /\ episode.attempts \in Nat /\ episode.target \in Nat /\ episode.net \in Nat
         /\ InTransit(pending) \in Nat /\ episode.settled \in Nat /\ Balance(loan) \in Nat
         /\ Cent \in Nat
BY GrantedIsPositive, InTransitTyped, BalanceNat, CentAssumption
   DEF ReplayInv, MoneyInv, Typed, Episode, Granted

(* A replay starts with no episode.                                          *)
LEMMA ProtocolStarts == Init => Protocol!Init
<1> SUFFICES ASSUME Init PROVE Protocol!Init
  OBVIOUS
<1>1. /\ Granted \in Nat \ {0} /\ Balance(loan) \in Nat
  BY ReplayInitInv, MoneyInitInv, ProtocolTyped
<1>2. episode = NoEpisode /\ InTransit(pending) = 0
  BY InTransitEmpty DEF Init
<1>. QED BY <1>1, <1>2 DEF Protocol!Init, NoEpisode, Granted

(* Interest is the protocol's Accrue; without any, nothing happens.          *)
LEMMA ObserveFollows ==
  ASSUME ReplayInv, MoneyInv, Observe
  PROVE  [Protocol!Next]_Protocol!vars
<1>1. /\ policy' = policy /\ pending \in Settlements
      /\ pending' = [i \in DOMAIN pending |-> [pending[i] EXCEPT !.wait = Countdown(@)]]
      /\ episode' = [episode EXCEPT !.wait = Countdown(@)]
  BY DEF Observe, policy, MoneyInv, Typed
<1>2. InTransit(pending') = InTransit(pending)
  BY <1>1, CountedDown
<1>3. UNCHANGED <<Larger(1, policy.attempts), episode.status, episode.attempts, episode.target,
                  episode.net, InTransit(pending), episode.settled>>
  BY <1>1, <1>2 DEF ReplayInv, IsEpisode, NoEpisode
<1>4. /\ Balance(loan) \in Nat /\ Balance(loan)' \in Nat /\ Balance(loan)' >= Balance(loan)
      /\ Balance(loan) = 0 => Balance(loan)' = 0
  BY ObservedLoan, BalanceNat DEF MoneyInv, Typed
<1>5. CASE Balance(loan) = 0
  BY <1>3, <1>4, <1>5 DEF Protocol!vars
<1>6. CASE Balance(loan) > 0
  <2>1. Protocol!Accrue
    BY <1>3, <1>4, <1>6 DEF Protocol!Accrue, Protocol!episodeVars
  <2>. QED BY <2>1 DEF Protocol!Next
<1>. QED BY <1>4, <1>5, <1>6

(* What arrives for the episode is a Settle, what arrives for another        *)
(* PayEarlier.                                                               *)
LEMMA SettleFollows ==
  ASSUME ReplayInv, MoneyInv, SettlePending
  PROVE  [Protocol!Next]_Protocol!vars
<1>1. PICK arrived \in Nat, counted \in Nat :
        /\ loan' \in Loan
        /\ Balance(loan') <= Balance(loan)
        /\ episode' = [episode EXCEPT !.settled = @ + counted]
        /\ counted <= arrived
        /\ Balance(loan') > 0 => counted = arrived
        /\ InTransit(pending') + arrived = InTransit(pending)
  BY SettleStep
<1>2. policy' = policy
  BY DEF SettlePending, policy
<1>3. /\ UNCHANGED <<Larger(1, policy.attempts), episode.status, episode.attempts,
                     episode.target, episode.net>>
      /\ episode'.settled = episode.settled + counted
  BY <1>1, <1>2 DEF ReplayInv, IsEpisode, NoEpisode
<1>4. /\ Balance(loan) \in Nat /\ Balance(loan') \in Nat /\ episode.settled \in Nat
      /\ InTransit(pending) \in Nat /\ InTransit(pending') \in Nat
  <2>1. MoneyInv'
    BY SettleMoney
  <2>. QED BY <1>1, <2>1, ProtocolTyped, BalanceNat, InTransitTyped DEF MoneyInv, Typed
<1>5. PICK transit \in Nat, debt \in Nat : transit = InTransit(pending') /\ debt = Balance(loan')
  BY <1>4
<1>6. CASE arrived > 0
  <2>1. /\ transit < InTransit(pending)
        /\ episode.settled + counted \in Nat /\ episode.settled + counted >= episode.settled
        /\ (episode.settled + counted) - episode.settled <= InTransit(pending) - transit
        /\ debt > 0 => (episode.settled + counted) - episode.settled
                         = InTransit(pending) - transit
    BY <1>1, <1>4, <1>5, <1>6
  <2>2. Protocol!Settle
    BY <1>1, <1>3, <1>4, <1>5, <2>1 DEF Protocol!Settle
  <2>. QED BY <2>2 DEF Protocol!Next
<1>7. CASE arrived = 0
  <2>1. InTransit(pending') = InTransit(pending) /\ episode'.settled = episode.settled
    BY <1>1, <1>3, <1>4, <1>7
  <2>2. CASE Balance(loan') = Balance(loan)
    BY <1>3, <2>1, <2>2 DEF Protocol!vars
  <2>3. CASE Balance(loan') < Balance(loan)
    <3>1. Protocol!PayEarlier
      BY <1>3, <1>4, <2>1, <2>3 DEF Protocol!PayEarlier, Protocol!episodeVars
    <3>. QED BY <3>1 DEF Protocol!Next
  <2>. QED BY <1>1, <1>4, <2>2, <2>3
<1>. QED BY <1>6, <1>7

(* What is left of the protocol's state when an episode is cleared.          *)
LEMMA ClearedFollows ==
  ASSUME ReplayInv, MoneyInv, UNCHANGED <<scenario, loan>>, episode' = NoEpisode,
         InTransit(pending') = 0
  PROVE  Protocol!Cleared
<1>1. policy' = policy /\ Balance(loan') = Balance(loan)
  BY DEF policy
<1>. QED BY <1>1 DEF Protocol!Cleared, NoEpisode

(* An assessment completes the episode or leaves it.                         *)
LEMMA AssessFollows ==
  ASSUME ReplayInv, MoneyInv, Assess
  PROVE  [Protocol!Next]_Protocol!vars
<1>1. UNCHANGED <<scenario, loan>> /\ policy' = policy
  BY DEF Assess, policy
<1>2. CASE Completed
  <2>1. InTransit(pending') = 0
    BY <1>2, Deactivated DEF MoneyInv, Typed, Assess
  <2>2. episode' = NoEpisode
    BY <1>2 DEF Assess
  <2>3. Protocol!Cleared
    BY <1>1, <2>1, <2>2, ClearedFollows
  <2>4. Protocol!Complete
    BY <1>2, <2>3 DEF Protocol!Complete, Protocol!Reached, Completed, Reached
  <2>. QED BY <2>4 DEF Protocol!Next
<1>3. CASE ~Completed
  BY <1>1, <1>3 DEF Assess, Protocol!vars
<1>. QED BY <1>2, <1>3

(* A trigger opens an episode or leaves it.                                  *)
LEMMA TriggerFollows ==
  ASSUME ReplayInv, MoneyInv, TriggerEpisode
  PROVE  [Protocol!Next]_Protocol!vars
<1>1. UNCHANGED <<scenario, loan, pending>> /\ policy' = policy
  BY DEF TriggerEpisode, policy
<1>2. CASE episode.status = "none" /\ Alarmed
  <2>1. PICK target : target = RecoveryTarget /\ episode' = NewEpisode(target)
    BY <1>2 DEF TriggerEpisode
  <2>2. target \in Nat
    BY <2>1, TargetNat DEF MoneyInv
  <2>3. /\ episode' \in Episode /\ episode'.status = "scheduled" /\ episode'.attempts = 0
        /\ episode'.net = 0 /\ episode'.settled = 0
    BY <2>1, <2>2, NewEpisodeTyped DEF MoneyInv
  <2>4. episode = NoEpisode
    BY <1>2 DEF MoneyInv, NothingBeforeAnAttempt
  <2>5. Balance(loan) > 0
    BY <1>2, CentAssumption, ProtocolTyped DEF Alarmed
  <2>6. Protocol!Open
    BY <1>1, <1>2, <2>3, <2>4, <2>5 DEF Protocol!Open, Episode, NoEpisode
  <2>. QED BY <2>6 DEF Protocol!Next
<1>3. CASE ~(episode.status = "none" /\ Alarmed)
  <2>1. UNCHANGED episode
    BY <1>3 DEF TriggerEpisode
  <2>. QED BY <1>1, <2>1 DEF Protocol!vars
<1>. QED BY <1>2, <1>3

(* What is cancelled is scheduled, and nothing is in transit.                *)
LEMMA CancelFollows ==
  ASSUME ReplayInv, MoneyInv, CancelEpisode
  PROVE  [Protocol!Next]_Protocol!vars
<1>1. /\ UNCHANGED <<scenario, loan, pending>> /\ episode' = NoEpisode /\ phase = "act"
      /\ episode.action = "restore_coverage" /\ episode.attempts = 0
  BY DEF CancelEpisode, Cancelled
<1>2. episode.net = 0 /\ episode.status = "scheduled"
  BY <1>1 DEF MoneyInv, NothingBeforeAnAttempt, NoEpisode
<1>3. InTransit(pending') = 0
  BY <1>1, <1>2, ProtocolTyped DEF MoneyInv, Proceeds
<1>4. Protocol!Cleared
  BY <1>1, <1>3, ClearedFollows
<1>5. Protocol!Cancel
  BY <1>2, <1>4 DEF Protocol!Cancel
<1>. QED BY <1>5 DEF Protocol!Next

(* An attempt at the orders is an Attempt, and ends it in the same status.   *)
LEMMA ExecuteFollows ==
  ASSUME ReplayInv, MoneyInv, ExecuteEpisode
  PROVE  [Protocol!Next]_Protocol!vars
<1>1. UNCHANGED <<scenario, loan>> /\ episode.status \in {"scheduled", "executing"}
  BY DEF ExecuteEpisode, Due
<1>2. policy' = policy /\ policy.attempts \in Nat
  BY <1>1, GrantedIsPositive DEF policy, MoneyInv, Typed
<1>3. PICK proceeds \in Nat :
        /\ episode'.attempts = episode.attempts + 1
        /\ episode'.net = episode.net + proceeds
        /\ episode'.status = NextStatus(episode.net + proceeds)
        /\ episode'.target = episode.target /\ episode'.settled = episode.settled
        /\ InTransit(pending') = InTransit(pending) + proceeds
  BY ExecuteStep
<1>5. PICK net \in Nat, attempts \in Nat :
        net = episode.net + proceeds /\ attempts = episode.attempts + 1
  BY ProtocolTyped
<1>6. attempts >= policy.attempts <=> attempts >= Larger(1, policy.attempts)
  BY <1>2, <1>5, ProtocolTyped DEF Larger
<1>7. episode'.status = IF Protocol!Reached(net) THEN "settling"
                        ELSE IF attempts >= Larger(1, policy.attempts) THEN "failed"
                        ELSE "executing"
  BY <1>3, <1>5, <1>6 DEF NextStatus, Protocol!Reached, Reached
<1>8. net >= episode.net /\ InTransit(pending') = InTransit(pending) + (net - episode.net)
  BY <1>3, <1>5, ProtocolTyped
<1>9. Protocol!Attempt
  BY <1>1, <1>2, <1>3, <1>5, <1>7, <1>8 DEF Protocol!Attempt
<1>. QED BY <1>9 DEF Protocol!Next

(* The end of the history is an EndReplay; waiting is nothing.               *)
LEMMA RestFollows ==
  ASSUME ReplayInv, MoneyInv, Wait \/ EndReplay \/ UNCHANGED vars
  PROVE  [Protocol!Next]_Protocol!vars
<1>1. UNCHANGED <<scenario, loan, pending>> /\ policy' = policy
  BY DEF Wait, EndReplay, vars, policy
<1>2. CASE EndReplay /\ episode.status \in Unresolved
  <2>1. /\ episode'.status = "unresolved_at_replay_end"
        /\ episode'.attempts = episode.attempts /\ episode'.target = episode.target
        /\ episode'.net = episode.net /\ episode'.settled = episode.settled
    BY <1>2 DEF EndReplay, ReplayInv, IsEpisode, NoEpisode
  <2>2. Protocol!EndReplay
    BY <1>1, <1>2, <2>1 DEF Protocol!EndReplay, Unresolved
  <2>. QED BY <2>2 DEF Protocol!Next
<1>3. CASE ~(EndReplay /\ episode.status \in Unresolved)
  <2>1. UNCHANGED episode
    BY <1>3 DEF Wait, EndReplay, vars
  <2>. QED BY <1>1, <2>1 DEF Protocol!vars
<1>. QED BY <1>2, <1>3

(* Every replay follows the recovery protocol, whatever the history, the     *)
(* scenario and what the sales raise: each step of the loop is a step of the *)
(* protocol or leaves what it speaks of alone.                               *)
THEOREM ReplayFollowsProtocol == Spec => RecoverySpec
<1>1. ReplayInv /\ MoneyInv /\ [Next]_vars => [Protocol!Next]_Protocol!vars
  BY ObserveFollows, SettleFollows, AssessFollows, TriggerFollows, CancelFollows,
     ExecuteFollows, RestFollows DEF Next
<1>. QED BY <1>1, ProtocolStarts, MoneyAlways, PTL DEF Spec, RecoverySpec, Protocol!Spec

(***************************************************************************)
(* Episodes that are settling                                              *)
(***************************************************************************)
(* After the assessment, an episode that settles waits for money or has not  *)
(* been settled to its target.                                               *)
SettlingWaits ==
  phase \in {"trigger", "act", "feed"} /\ episode.status = "settling"
    => InTransit(pending) > 0 \/ episode.target <= Cent \/ ~Reached(episode.settled)

(* Settled the next day at the latest: nothing is left over the day.         *)
Prompt == policy.settlement <= 1

NothingLeftBehind ==
  Prompt =>
    /\ phase \in {"assess", "trigger", "act"} => pending = <<>>
    /\ phase = "settle" => \A i \in 1..Len(pending) : pending[i].wait = 0
    /\ \A i \in 1..Len(pending) : pending[i].active

(* Days until the proceeds of an episode arrive.                             *)
Horizon ==
  IF episode.net = 0 THEN episode.wait + policy.settlement
  ELSE IF pending = <<>> THEN 0 ELSE pending[1].wait

(* An episode asks for no more than is still owed, was settled, and will be  *)
(* earned until its proceeds arrive; so what pays off the loan reaches it.   *)
Covered ==
  Prompt /\ AccrualMode = "engine_calculated" /\ episode.status # "none" =>
    IF Balance(loan) = 0 THEN episode.target <= episode.settled + Cent
    ELSE episode.target
           <= Balance(loan) + episode.settled + Earned(loan, Horizon) + Cent

SettlingInv == SettlingWaits /\ NothingLeftBehind /\ Covered

(* Nothing settles at first.                                                 *)
LEMMA SettlingInitInv == Init => SettlingInv
<1> SUFFICES ASSUME Init PROVE SettlingInv
  OBVIOUS
<1>1. phase = "assess" /\ pending = <<>> /\ episode = NoEpisode /\ Len(<<>>) = 0
  BY EmptySeq DEF Init
<1>. QED BY <1>1 DEF SettlingInv, SettlingWaits, NothingLeftBehind, Covered, NoEpisode

(* No settlement waits longer than the policy says.                          *)
LEMMA SettlementDays ==
  ASSUME MoneyInv
  PROVE  /\ policy.settlement \in Nat /\ pending \in Settlements /\ Len(pending) \in Nat
         /\ \A i \in 1..Len(pending) :
              /\ pending[i] \in Settlement /\ pending[i].wait \in Nat
              /\ pending[i].wait <= policy.settlement
BY PolicyTyped, InTransitTyped, SettlementFacts
   DEF MoneyInv, Typed, FirstRaisedFirstSettled

(* The assessment completes what has been settled, an attempt adds to what   *)
(* is in transit.                                                            *)
LEMMA SettlingWaitsNext ==
  ASSUME ReplayInv, MoneyInv, SettlingWaits, [Next]_vars
  PROVE  SettlingWaits'
<1>1. CASE Observe \/ SettlePending \/ EndReplay
  BY <1>1 DEF Observe, SettlePending, EndReplay, SettlingWaits
<1>2. CASE Assess
  <2>1. CASE Completed
    BY <1>2, <2>1 DEF Assess, SettlingWaits, NoEpisode
  <2>2. CASE ~Completed
    BY <1>2, <2>2 DEF Assess, SettlingWaits, Completed, Reached
  <2>. QED BY <2>1, <2>2
<1>3. CASE TriggerEpisode
  <2>1. CASE episode.status = "none" /\ Alarmed
    BY <1>3, <2>1 DEF TriggerEpisode, NewEpisode, NoEpisode, SettlingWaits
  <2>2. CASE ~(episode.status = "none" /\ Alarmed)
    BY <1>3, <2>2 DEF TriggerEpisode, SettlingWaits, Reached
  <2>. QED BY <2>1, <2>2
<1>4. CASE CancelEpisode
  BY <1>4 DEF CancelEpisode, SettlingWaits, NoEpisode
<1>5. CASE ExecuteEpisode
  <2>1. PICK proceeds \in Nat :
          /\ episode'.net = episode.net + proceeds
          /\ episode'.status = NextStatus(episode.net + proceeds)
          /\ episode'.target = episode.target /\ episode'.settled = episode.settled
          /\ InTransit(pending') = InTransit(pending) + proceeds
    BY <1>5, ExecuteStep
  <2>2. SUFFICES ASSUME episode'.status = "settling", ~(episode.target <= Cent)
                 PROVE  InTransit(pending') > 0
    BY <2>1 DEF SettlingWaits
  <2>3. episode.net + proceeds + Cent >= episode.target
    BY <2>1, <2>2 DEF NextStatus, Reached
  <2>4. episode.net + Cent < episode.target
    BY <1>5, <2>2, DueIsShort DEF ExecuteEpisode, Due, ReplayInv
  <2>. QED BY <2>1, <2>3, <2>4, ProtocolTyped
<1>6. CASE Wait \/ UNCHANGED vars
  BY <1>6 DEF Wait, vars, SettlingWaits, Reached
<1>. QED BY <1>1, <1>2, <1>3, <1>4, <1>5, <1>6 DEF Next

(* What is raised one day is settled before the next day's assessment.       *)
LEMMA NothingLeftNext ==
  ASSUME MoneyInv, NothingLeftBehind, [Next]_vars
  PROVE  NothingLeftBehind'
<1>1. policy' = policy
  BY DEF Next, Observe, SettlePending, Assess, TriggerEpisode, CancelEpisode, ExecuteEpisode,
         Wait, EndReplay, vars, policy
<1>2. SUFFICES ASSUME Prompt PROVE NothingLeftBehind'
  BY <1>1 DEF NothingLeftBehind, Prompt
<1>3. /\ phase \in {"assess", "trigger", "act"} => pending = <<>>
      /\ phase = "settle" => \A i \in 1..Len(pending) : pending[i].wait = 0
      /\ \A i \in 1..Len(pending) : pending[i].active
  BY <1>2 DEF NothingLeftBehind
<1>4. /\ pending \in Settlements /\ Len(pending) \in Nat
      /\ \A i \in 1..Len(pending) : pending[i].wait \in Nat /\ pending[i].wait <= 1
  BY <1>2, SettlementDays DEF Prompt
<1>5. CASE Observe
  <2>1. /\ Len(pending') = Len(pending) /\ phase' = "settle"
        /\ \A i \in 1..Len(pending) : /\ pending'[i].active = pending[i].active
                                      /\ pending'[i].wait = Countdown(pending[i].wait)
    BY <1>4, <1>5, CountedDown DEF Observe
  <2>. QED BY <1>3, <1>4, <2>1 DEF NothingLeftBehind, Countdown, Excess
<1>6. CASE SettlePending
  <2>1. phase = "settle" /\ pending' = StillPending
    BY <1>6 DEF SettlePending
  <2>2. /\ pending' \in Settlements
        /\ \A j \in 1..Len(pending') : \E i \in 1..Len(pending) : pending[i].wait > 0
    BY <1>4, <2>1, StillPendingFacts
  <2>3. Len(pending') \in Nat /\ ~(1 \in 1..Len(pending'))
    BY <1>3, <2>1, <2>2, LenProperties DEF Settlements
  <2>4. pending' = <<>>
    BY <2>2, <2>3, EmptySeq DEF Settlements
  <2>. QED BY <2>3, <2>4 DEF NothingLeftBehind
<1>7. CASE Assess
  <2>1. pending = <<>> /\ pending' = <<>>
    <3>1. pending = <<>>
      BY <1>3, <1>7 DEF Assess
    <3>2. CASE Completed
      <4>1. Len(pending') = Len(pending) /\ pending' \in Settlements
        BY <1>4, <1>7, <3>2, Deactivated DEF Assess
      <4>. QED BY <3>1, <4>1, EmptySeq DEF Settlements
    <3>3. CASE ~Completed
      BY <1>7, <3>1, <3>3 DEF Assess
    <3>. QED BY <3>1, <3>2, <3>3
  <2>. QED BY <1>7, <2>1, EmptySeq DEF Assess, NothingLeftBehind
<1>8. CASE TriggerEpisode \/ CancelEpisode \/ Wait \/ EndReplay \/ UNCHANGED vars
  <2>1. pending' = pending /\ (phase' = phase \/ phase' \in {"feed", "done"}
                               \/ (phase = "trigger" /\ phase' = "act"))
    BY <1>8 DEF TriggerEpisode, CancelEpisode, Wait, EndReplay, vars
  <2>. QED BY <1>3, <2>1 DEF NothingLeftBehind
<1>9. CASE ExecuteEpisode
  <2>1. pending = <<>> /\ phase' = "feed"
    BY <1>3, <1>9 DEF ExecuteEpisode
  <2>2. PICK proceeds \in Nat :
          pending' = IF proceeds = 0 THEN pending
                     ELSE Append(pending, [amount |-> proceeds, wait |-> policy.settlement,
                                           active |-> TRUE])
    BY <1>9, ExecuteStep
  <2>3. CASE proceeds = 0
    BY <1>3, <2>1, <2>2, <2>3 DEF NothingLeftBehind
  <2>4. CASE proceeds > 0
    <3> DEFINE e == [amount |-> proceeds, wait |-> policy.settlement, active |-> TRUE]
    <3>1. e \in Settlement /\ e.active
      BY SettlementDays DEF Settlement
    <3>2. pending' = Append(pending, e)
      BY <2>2, <2>4
    <3> HIDE DEF e
    <3>3. Len(pending) = 0
      BY <2>1, EmptySeq
    <3>4. Len(pending') = 1 /\ pending'[1] = e
      BY <1>4, <3>1, <3>2, <3>3, AppendProperties DEF Settlements
    <3>. QED BY <2>1, <3>1, <3>4 DEF NothingLeftBehind
  <2>. QED BY <2>2, <2>3, <2>4
<1>. QED BY <1>5, <1>6, <1>7, <1>8, <1>9 DEF Next

(* What is owed and still to be earned does not drop as the days pass.       *)
LEMMA EarnedOnTheWay ==
  ASSUME NEW l \in Loan, NEW m \in Loan, NEW days \in Nat \ {0}, l.principal <= m.principal,
         Balance(l) + Earned(l, days) <= Balance(m),
         NEW h \in Nat, NEW k \in Nat, h = k \/ h = k + 1
  PROVE  Balance(l) + Earned(l, h) <= Balance(m) + Earned(m, k)
<1>1. /\ \A n \in Nat : Earned(l, n) \in Nat /\ Earned(m, n) \in Nat
      /\ \A n \in Nat : Earned(l, n + 1) = Earned(l, n) + Earned(l, 1)
      /\ Earned(l, k) <= Earned(m, k)
  BY EarnedNat, EarnedMonotone
<1>2. Balance(l) \in Nat /\ Balance(m) \in Nat
  BY BalanceNat
<1>3. Earned(l, 1) <= Earned(l, days)
  <2>1. days - 1 \in Nat /\ (days - 1) + 1 = days
    OBVIOUS
  <2>2. Earned(l, days) = Earned(l, days - 1) + Earned(l, 1)
    BY <1>1, <2>1
  <2>. QED BY <1>1, <2>1, <2>2
<1>4. PICK a \in Nat, b \in Nat, c \in Nat, d \in Nat :
        a = Earned(l, k) /\ b = Earned(l, 1) /\ c = Earned(m, k) /\ d = Earned(l, days)
  BY <1>1
<1>5. Earned(l, h) = a \/ Earned(l, h) = a + b
  BY <1>1, <1>4
<1>6. PICK x \in Nat, y \in Nat : x = Balance(l) /\ y = Balance(m)
  BY <1>2
<1>7. x + d <= y /\ a <= c /\ b <= d
  BY <1>1, <1>3, <1>4, <1>6
<1>8. x + a <= y + c /\ x + (a + b) <= y + c
  BY <1>7
<1>. QED BY <1>4, <1>5, <1>6, <1>8

(* The horizon is a number of days.                                          *)
LEMMA HorizonNat ==
  ASSUME MoneyInv
  PROVE  Horizon \in Nat
<1>1. episode.wait \in Nat /\ policy.settlement \in Nat
  BY SettlementDays DEF MoneyInv, Typed, Episode
<1>2. pending # <<>> => pending[1].wait \in Nat
  <2>1. pending # <<>> => 1 \in 1..Len(pending)
    BY SettlementDays, EmptySeq DEF Settlements
  <2>. QED BY <2>1, SettlementDays
<1>. QED BY <1>1, <1>2 DEF Horizon

(* A day less to wait is a day's interest more owed.                         *)
LEMMA CoveredObserve ==
  ASSUME MoneyInv, Covered, Observe
  PROVE  Covered'
<1>1. PICK days \in Gaps : loan' = AccrueDays(loan, days)
  BY DEF Observe
<1>2. /\ days \in Nat \ {0} /\ loan \in Loan /\ policy' = policy
      /\ episode \in Episode /\ episode' = [episode EXCEPT !.wait = Countdown(@)]
  BY GapsAssumption DEF MoneyInv, Typed, Observe, policy
<1>3. /\ episode'.status = episode.status /\ episode'.target = episode.target
      /\ episode'.settled = episode.settled /\ episode'.net = episode.net
      /\ episode'.wait = Countdown(episode.wait)
      /\ episode.target \in Nat /\ episode.settled \in Nat /\ episode.wait \in Nat
      /\ episode.net \in Nat
  BY <1>2 DEF Episode
<1>4. SUFFICES ASSUME Prompt, AccrualMode = "engine_calculated", episode.status # "none"
               PROVE  IF Balance(loan') = 0 THEN episode.target <= episode.settled + Cent
                      ELSE episode.target <= Balance(loan') + episode.settled
                                               + Earned(loan', Horizon') + Cent
  BY <1>2, <1>3 DEF Covered, Prompt
<1>5. IF Balance(loan) = 0 THEN episode.target <= episode.settled + Cent
      ELSE episode.target <= Balance(loan) + episode.settled + Earned(loan, Horizon) + Cent
  BY <1>4 DEF Covered
<1>6. /\ loan' \in Loan
      /\ Balance(loan) = 0 => Balance(loan') = 0
      /\ loan.principal <= loan'.principal
      /\ Balance(loan) + Earned(loan, days) <= Balance(loan')
      /\ Balance(loan) <= Balance(loan')
  BY <1>1, <1>2, <1>4, AccruedDays
<1>7. Horizon \in Nat /\ Horizon' \in Nat /\ (Horizon = Horizon' \/ Horizon = Horizon' + 1)
  <2>1. /\ Len(pending') = Len(pending) /\ pending' \in Settlements
        /\ \A i \in 1..Len(pending) : pending'[i].wait = Countdown(pending[i].wait)
    BY SettlementDays, CountedDown DEF Observe
  <2>2. pending' = <<>> <=> pending = <<>>
    BY <2>1, SettlementDays, EmptySeq DEF Settlements
  <2>3. pending # <<>> => 1 \in 1..Len(pending)
    BY SettlementDays, EmptySeq DEF Settlements
  <2>4. \A n \in Nat : Countdown(n) \in Nat /\ (n = Countdown(n) \/ n = Countdown(n) + 1)
    BY DEF Countdown, Excess
  <2>5. policy.settlement \in Nat
    BY SettlementDays
  <2>6. CASE episode.net = 0
    BY <1>2, <1>3, <2>4, <2>5, <2>6 DEF Horizon
  <2>7. CASE episode.net # 0 /\ pending = <<>>
    BY <1>3, <2>2, <2>7 DEF Horizon
  <2>8. CASE episode.net # 0 /\ pending # <<>>
    BY <1>3, <2>1, <2>2, <2>3, <2>4, <2>8, SettlementDays DEF Horizon
  <2>. QED BY <2>6, <2>7, <2>8
<1>8. Balance(loan) + Earned(loan, Horizon) <= Balance(loan') + Earned(loan', Horizon')
  <2>1. PICK m \in Loan, h \in Nat, k \in Nat : m = loan' /\ h = Horizon /\ k = Horizon'
    BY <1>6, <1>7
  <2>2. Balance(loan) + Earned(loan, h) <= Balance(m) + Earned(m, k)
    BY <1>2, <1>6, <1>7, <2>1, EarnedOnTheWay
  <2>. QED BY <2>1, <2>2
<1>9. /\ Balance(loan) \in Nat /\ Balance(loan') \in Nat /\ Cent \in Nat
      /\ Earned(loan, Horizon) \in Nat /\ Earned(loan', Horizon') \in Nat
  <2>1. Earned(loan, Horizon) \in Nat
    BY <1>2, <1>7, EarnedNat
  <2>2. Earned(loan', Horizon') \in Nat
    BY <1>6, <1>7, EarnedNat
  <2>. QED BY <1>2, <1>6, <2>1, <2>2, BalanceNat, CentAssumption
<1>10. CASE Balance(loan) = 0
  <2>1. Balance(loan') = 0 /\ episode.target <= episode.settled + Cent
    BY <1>5, <1>6, <1>10
  <2>. QED BY <2>1
<1>11. CASE Balance(loan) # 0
  <2>1. Balance(loan') # 0
    BY <1>6, <1>9, <1>11
  <2>2. PICK b \in Nat, c \in Nat, e \in Nat, f \in Nat :
          /\ b = Balance(loan) /\ c = Balance(loan')
          /\ e = Earned(loan, Horizon) /\ f = Earned(loan', Horizon')
    BY <1>9
  <2>. QED BY <1>3, <1>5, <1>8, <1>9, <1>11, <2>1, <2>2
<1>. QED BY <1>10, <1>11

(* What arrives is taken off what is owed; what pays off the loan is its     *)
(* balance to the cent.                                                      *)
LEMMA CoveredSettle ==
  ASSUME MoneyInv, NothingLeftBehind, Covered, SettlePending
  PROVE  Covered'
<1>1. /\ loan \in Loan /\ episode \in Episode /\ policy' = policy /\ phase = "settle"
      /\ Balance(loan) \in Nat /\ Cent \in Nat
  BY BalanceNat, CentAssumption DEF MoneyInv, Typed, SettlePending, policy
<1>2. SUFFICES ASSUME Prompt, AccrualMode = "engine_calculated", episode'.status # "none"
               PROVE  IF Balance(loan') = 0 THEN episode'.target <= episode'.settled + Cent
                      ELSE episode'.target <= Balance(loan') + episode'.settled
                                                + Earned(loan', Horizon') + Cent
  BY <1>1 DEF Covered, Prompt
(* Everything there is arrives, and for the episode.                         *)
<1>3. /\ pending \in Settlements /\ Len(pending) \in Nat
      /\ \A i \in 1..Len(pending) : pending[i].wait = 0 /\ pending[i].active
  BY <1>1, <1>2, SettlementDays DEF NothingLeftBehind
<1>4. Arriving(FALSE) = 0
  <2>1. PICK w \in Seq(Nat) :
          /\ Len(w) = Len(pending) /\ Arriving(FALSE) = Total(w)
          /\ \A i \in 1..Len(pending) :
               w[i] = IF pending[i].wait = 0 /\ pending[i].active = FALSE
                      THEN pending[i].amount ELSE 0
    BY <1>3, ArrivingTyped
  <2>2. \A i \in 1..Len(w) : w[i] = 0
    BY <1>3, <2>1
  <2>. QED BY <2>1, <2>2, TotalOfZeros
<1>5. PICK arrived \in Nat : arrived = Arriving(TRUE)
  BY ArrivingIsCents
<1>6. PICK counted \in Nat :
        /\ loan' \in Loan
        /\ Balance(loan') = Excess(Balance(loan), arrived)
        /\ counted = RoundMoney(Balance(loan) - Balance(loan'))
        /\ episode' = [episode EXCEPT !.settled = @ + counted]
        /\ IsCents(counted)
        /\ Balance(loan') > 0 => counted = arrived
  <2>1. Excess(Balance(loan), 0) = Balance(loan)
    BY <1>1 DEF Excess
  <2>. QED BY <1>4, <1>5, <2>1, SettledFacts, Zenon
<1>7. /\ episode'.status = episode.status /\ episode'.target = episode.target
      /\ episode'.settled = episode.settled + counted /\ episode'.net = episode.net
      /\ episode'.wait = episode.wait
      /\ episode.target \in Nat /\ episode.settled \in Nat /\ episode.wait \in Nat
  BY <1>1, <1>6 DEF Episode
<1>8. IF Balance(loan) = 0 THEN episode.target <= episode.settled + Cent
      ELSE episode.target <= Balance(loan) + episode.settled + Earned(loan, Horizon) + Cent
  BY <1>2, <1>7 DEF Covered
<1>9. Balance(loan') \in Nat /\ Horizon \in Nat
  BY <1>6, BalanceNat, HorizonNat
<1>10. CASE Balance(loan) = 0
  <2>1. Balance(loan') = 0
    BY <1>6, <1>10 DEF Excess
  <2>. QED BY <1>1, <1>7, <1>8, <1>10, <2>1
(* Nothing was raised, nothing arrives.                                      *)
<1>11. CASE Balance(loan) # 0 /\ episode.net = 0
  <2>1. pending = <<>>
    <3>1. InTransit(pending) = 0
      <4>1. InTransit(pending) \in Nat
        BY <1>3, InTransitTyped
      <4>. QED BY <1>7, <1>11, <4>1 DEF MoneyInv, Proceeds
    <3>2. ASSUME Len(pending) > 0 PROVE FALSE
      <4>1. 1 \in 1..Len(pending)
        BY <1>3, <3>2
      <4>2. ActiveAmount(pending[1]) = pending[1].amount /\ pending[1].amount > 0
        BY <1>3, <4>1 DEF MoneyInv, WholeCents, ActiveAmount
      <4>3. ActiveAmount(pending[1]) <= InTransit(pending)
        BY ONLY <1>3, <4>1, InTransitAtLeast
      <4>4. pending[1].amount \in Nat
        BY <4>1, SettlementDays, SettlementFacts
      <4>. QED BY <3>1, <4>2, <4>3, <4>4
    <3>. QED BY <1>3, <3>2, EmptySeq DEF Settlements
  <2>2. arrived = 0
    <3>1. PICK left \in Nat : left = InTransit(StillPending)
      BY <1>3, StillPendingFacts, InTransitTyped
    <3>2. InTransit(pending) = 0
      BY <2>1, InTransitEmpty
    <3>3. left + arrived = InTransit(pending)
      BY <1>3, <1>5, <3>1, StillPendingFacts, Zenon
    <3>. QED BY <3>2, <3>3
  <2>3. Balance(loan') = Balance(loan) /\ counted = 0
    <3>1. Balance(loan') = Balance(loan)
      BY <1>1, <1>6, <2>2 DEF Excess
    <3>. QED BY <1>1, <1>6, <1>9, <1>11, <2>2, <3>1
  <2>4. loan'.principal >= loan.principal
    <3>1. loan' = ApplyRepayment(ApplyRepayment(loan, 0), 0)
      BY <1>4, <1>5, <2>2 DEF SettlePending
    <3>. QED BY <1>1, <3>1 DEF ApplyRepayment, Excess, Loan
  <2>5. Horizon' = Horizon
    BY <1>1, <1>7, <1>11 DEF Horizon
  <2>6. Earned(loan, Horizon) <= Earned(loan', Horizon)
    BY <1>1, <1>6, <1>9, <2>4, EarnedMonotone
  <2>7. PICK e \in Nat, f \in Nat : e = Earned(loan, Horizon) /\ f = Earned(loan', Horizon)
    BY <1>1, <1>6, <1>9, EarnedNat
  <2>. QED BY <1>1, <1>7, <1>8, <1>11, <2>3, <2>5, <2>6, <2>7
(* All that was raised arrives today.                                        *)
<1>12. CASE Balance(loan) # 0 /\ episode.net # 0
  <2>1. Earned(loan, Horizon) = 0
    <3>1. Horizon = 0
      <4>1. CASE pending = <<>>
        BY <1>12, <4>1 DEF Horizon
      <4>2. CASE pending # <<>>
        <5>1. 1 \in 1..Len(pending)
          BY <1>3, <4>2, EmptySeq DEF Settlements
        <5>. QED BY <1>3, <1>12, <4>2, <5>1 DEF Horizon
      <4>. QED BY <4>1, <4>2
    <3>. QED BY <1>1, <3>1, EarnedNat
  <2>2. Earned(loan', Horizon') = 0
    <3>1. pending' = <<>>
      <4>1. NothingLeftBehind' /\ phase' = "assess" /\ Prompt'
        BY <1>1, <1>2, NothingLeftNext DEF Next, SettlePending, Prompt
      <4>. QED BY <4>1 DEF NothingLeftBehind
    <3>2. Horizon' = 0
      BY <1>7, <1>12, <3>1 DEF Horizon
    <3>. QED BY <1>6, <3>2, EarnedNat
  <2>3. episode.target <= Balance(loan) + episode.settled + Cent
    BY <1>1, <1>7, <1>8, <1>12, <2>1
  <2>4. CASE Balance(loan') > 0
    <3>1. Balance(loan') + counted = Balance(loan)
      BY <1>1, <1>6, <1>9, <2>4 DEF Excess
    <3>. QED BY <1>1, <1>7, <1>9, <2>2, <2>3, <2>4, <3>1
  <2>5. CASE Balance(loan') = 0
    <3>1. counted = RoundMoney(Balance(loan)) /\ 2 * Balance(loan) <= 2 * counted + Cent
      BY <1>1, <1>6, <2>5, HalfACent
    <3>2. 2 * episode.target <= 2 * (episode.settled + counted) + 3 * Cent
      BY <1>1, <1>7, <2>3, <3>1
    <3>3. /\ IsCents(episode.target) /\ IsCents(episode.settled + counted + Cent)
          /\ episode.target < (episode.settled + counted + Cent) + Cent
      <4>1. IsCents(episode.target) /\ IsCents(episode.settled)
        BY DEF MoneyInv, WholeCents
      <4>2. IsCents(Cent)
        <5>1. Cent = Cent * 1
          BY <1>1
        <5>. QED BY <5>1 DEF IsCents
      <4>3. IsCents(episode.settled + counted)
        BY <1>6, <4>1, CentsAdd
      <4>4. IsCents(episode.settled + counted + Cent)
        BY <4>2, <4>3, CentsAdd
      <4>. QED BY <1>7, <3>2, <4>1, <4>4, CentAssumption
    <3>4. episode.target <= episode.settled + counted + Cent
      BY <3>3, CentsInOrder
    <3>. QED BY <1>7, <2>5, <3>4
  <2>. QED BY <1>9, <2>4, <2>5
<1>. QED BY <1>10, <1>11, <1>12

(* A new episode asks for what is owed and will be earned until it has been  *)
(* settled, within the roundings of the buffer and of the target.            *)
LEMMA CoveredTrigger ==
  ASSUME MoneyInv, Covered, TriggerEpisode
  PROVE  Covered'
<1>1. /\ loan' = loan /\ pending' = pending /\ policy' = policy /\ loan \in Loan
      /\ Balance(loan) \in Nat /\ Cent \in Nat /\ Typed
  BY BalanceNat, CentAssumption DEF MoneyInv, Typed, TriggerEpisode, policy
<1>2. CASE ~(episode.status = "none" /\ Alarmed)
  <2>1. UNCHANGED episode
    BY <1>2 DEF TriggerEpisode
  <2>. QED BY <1>1, <2>1 DEF Covered, Prompt, Horizon
<1>3. CASE episode.status = "none" /\ Alarmed
  <2>1. PICK target \in {RecoveryTarget} : episode' = NewEpisode(target)
    BY <1>3 DEF TriggerEpisode
  <2>2. target \in Nat
    BY <1>1, <2>1, TargetNat
  <2>3. /\ episode'.net = 0 /\ episode'.settled = 0
        /\ episode'.target = RoundMoney(target) /\ episode'.wait = Delay
    BY <1>1, <2>1, <2>2, NewEpisodeTyped
  <2>4. PICK horizon \in Nat : horizon = Delay + policy.settlement
    BY <1>1, PolicyTyped DEF Delay, Typed
  <2>5. Earned(loan, horizon) \in Nat
    BY <1>1, EarnedNat
  <2>6. target <= Balance(loan) + RoundMoney(Earned(loan, horizon))
    <3> DEFINE needed == IF Forced THEN Balance(loan)
                         ELSE Larger(CureOf(holdings, Balance(loan)),
                                     Excess(Balance(loan), LimitOf(holdings)))
    <3>1. target = Least(needed, Balance(loan)) + RoundMoney(Earned(loan, horizon))
      BY <2>1, <2>4 DEF RecoveryTarget, ProjectedInterestBuffer, Earned
    <3>2. needed \in Nat
      BY <1>1, CureNat, LimitNat, ExcessNat DEF Typed, Larger
    <3>3. RoundMoney(Earned(loan, horizon)) \in Nat
      BY <2>5, RoundMoneyNat
    <3> HIDE DEF needed
    <3>. QED BY <1>1, <3>1, <3>2, <3>3 DEF Least
  <2>7. RoundMoney(target) <= Balance(loan) + Earned(loan, horizon) + Cent
    <3>1. PICK e \in Nat, buffer \in Nat, asked \in Nat :
            /\ e = Earned(loan, horizon) /\ buffer = RoundMoney(Earned(loan, horizon))
            /\ asked = RoundMoney(target)
      BY <2>2, <2>5, RoundMoneyNat
    <3>2. 2 * buffer <= 2 * e + Cent /\ 2 * asked <= 2 * target + Cent
      BY <2>2, <2>5, <3>1, HalfACent
    <3>. QED BY <1>1, <2>2, <2>6, <3>1, <3>2
  <2>8. Balance(loan) # 0
    BY <1>1, <1>3 DEF Alarmed
  <2>9. Horizon' = horizon
    BY <1>1, <2>3, <2>4 DEF Horizon
  <2>. QED BY <1>1, <2>3, <2>5, <2>7, <2>8, <2>9 DEF Covered
<1>. QED BY <1>2, <1>3

(* What an attempt raises is on its way as long as the first was.            *)
LEMMA CoveredExecute ==
  ASSUME MoneyInv, NothingLeftBehind, Covered, ExecuteEpisode
  PROVE  Covered'
<1>1. /\ loan' = loan /\ policy' = policy /\ phase = "act" /\ episode.wait = 0
      /\ episode.status # "none" /\ loan \in Loan /\ Balance(loan) \in Nat /\ Cent \in Nat
      /\ episode.target \in Nat /\ episode.settled \in Nat /\ episode.net \in Nat
  BY BalanceNat, CentAssumption DEF MoneyInv, Typed, Episode, ExecuteEpisode, Due, policy
<1>2. SUFFICES ASSUME Prompt, AccrualMode = "engine_calculated" PROVE Covered'
  BY <1>1 DEF Covered, Prompt
<1>3. PICK proceeds \in Nat :
        /\ pending' = IF proceeds = 0 THEN pending
                      ELSE Append(pending, [amount |-> proceeds, wait |-> policy.settlement,
                                            active |-> TRUE])
        /\ episode' \in Episode
        /\ episode'.net = episode.net + proceeds
        /\ episode'.target = episode.target /\ episode'.settled = episode.settled
  BY ExecuteStep
<1>4. pending = <<>> /\ policy.settlement \in Nat
  BY <1>1, <1>2, SettlementDays DEF NothingLeftBehind
<1>5. episode'.wait = 0
  BY <1>1 DEF ExecuteEpisode, MoneyInv, Typed, Episode
<1>6. Horizon' \in Nat /\ (Horizon' = Horizon \/ Horizon = 0)
  <2>1. CASE proceeds = 0
    <3>1. pending' = pending /\ episode'.net = episode.net /\ episode'.wait = episode.wait
      BY <1>1, <1>3, <1>5, <2>1
    <3>2. Horizon' = Horizon
      BY <1>1, <3>1 DEF Horizon
    <3>. QED BY <3>2, HorizonNat
  <2>2. CASE proceeds > 0
    <3> DEFINE e == [amount |-> proceeds, wait |-> policy.settlement, active |-> TRUE]
    <3>1. e \in Settlement /\ e.wait = policy.settlement
      BY <1>4 DEF Settlement
    <3>2. pending' = Append(pending, e) /\ pending \in Settlements
      BY <1>3, <2>2, SettlementDays
    <3> HIDE DEF e
    <3>3. Len(pending) = 0
      BY <1>4, EmptySeq
    <3>4. pending' # <<>> /\ pending'[1] = e
      <4>1. PICK s \in Seq(Settlement) : s = pending
        BY <3>2 DEF Settlements
      <4>2. Append(s, e) # <<>> /\ Append(s, e)[Len(s) + 1] = e
        BY ONLY <3>1, <4>1, AppendProperties
      <4>3. Len(s) + 1 = 1
        BY <3>3, <4>1
      <4>. QED BY <3>2, <4>1, <4>2, <4>3
    <3>5. episode'.net # 0 /\ Horizon' = policy.settlement
      BY <1>1, <1>3, <2>2, <3>1, <3>4 DEF Horizon
    <3>6. Horizon = 0 \/ Horizon = policy.settlement
      BY <1>1, <1>4 DEF Horizon
    <3>. QED BY <1>4, <3>5, <3>6
  <2>. QED BY <2>1, <2>2
<1>7. /\ Earned(loan, Horizon') \in Nat /\ Earned(loan, 0) = 0
      /\ Horizon = 0 \/ Horizon' = Horizon
  BY <1>1, <1>6, EarnedNat
<1>8. IF Balance(loan) = 0 THEN episode.target <= episode.settled + Cent
      ELSE episode.target <= Balance(loan) + episode.settled + Earned(loan, Horizon) + Cent
  BY <1>1, <1>2 DEF Covered
<1>9. CASE Balance(loan) = 0
  BY <1>1, <1>3, <1>8, <1>9 DEF Covered
<1>10. CASE Balance(loan) # 0
  <2>1. PICK f \in Nat : f = Earned(loan, Horizon')
    BY <1>7
  <2>2. Earned(loan, Horizon) <= f /\ Earned(loan, Horizon) \in Nat
    BY <1>7, <2>1
  <2>3. episode.target <= Balance(loan) + episode.settled + f + Cent
    BY <1>1, <1>8, <1>10, <2>1, <2>2
  <2>. QED BY <1>1, <1>3, <1>10, <2>1, <2>3 DEF Covered
<1>. QED BY <1>9, <1>10

(* The other steps leave target and loan alone.                              *)
LEMMA CoveredNext ==
  ASSUME ReplayInv, MoneyInv, NothingLeftBehind, Covered, [Next]_vars
  PROVE  Covered'
<1>1. CASE Assess \/ CancelEpisode
  <2>1. CASE episode' = NoEpisode
    BY <2>1 DEF Covered, NoEpisode
  <2>2. CASE episode' # NoEpisode
    <3>1. UNCHANGED <<episode, pending, loan, scenario>>
      BY <1>1, <2>2 DEF Assess, CancelEpisode
    <3>. QED BY <3>1 DEF Covered, Prompt, Horizon, policy
  <2>. QED BY <2>1, <2>2
<1>2. CASE Wait \/ EndReplay \/ UNCHANGED vars
  <2>1. UNCHANGED <<pending, loan, scenario>>
    BY <1>2 DEF Wait, EndReplay, vars
  <2>2. CASE UNCHANGED episode
    BY <2>1, <2>2 DEF Covered, Prompt, Horizon, policy
  <2>3. CASE ~(UNCHANGED episode)
    <3>1. EndReplay /\ episode.status \in Unresolved
      BY <1>2, <2>3 DEF Wait, EndReplay, vars
    <3>2. /\ episode'.target = episode.target /\ episode'.net = episode.net
          /\ episode'.settled = episode.settled /\ episode'.wait = episode.wait
          /\ episode.status # "none"
      BY <3>1 DEF EndReplay, ReplayInv, IsEpisode, NoEpisode, Unresolved
    <3>. QED BY <2>1, <3>2 DEF Covered, Prompt, Horizon, policy
  <2>. QED BY <2>2, <2>3
<1>. QED
  BY <1>1, <1>2, CoveredObserve, CoveredSettle, CoveredTrigger, CoveredExecute DEF Next

LEMMA SettlingAlways == Spec => [](ReplayInv /\ MoneyInv /\ SettlingInv)
<1>1. ReplayInv /\ MoneyInv /\ SettlingInv /\ [Next]_vars => SettlingInv'
  BY SettlingWaitsNext, NothingLeftNext, CoveredNext DEF SettlingInv
<1>. QED
  BY <1>1, ReplayInitInv, ReplayInductive, MoneyInitInv, MoneyInductive, SettlingInitInv, PTL
     DEF Spec

(* An episode that has raised its target waits for money on its way, unless  *)
(* the target is a cent or the loan is paid off.                             *)
THEOREM SettlingAwaitsMoneyOrIsPaidOff ==
  Spec => []( phase \in {"trigger", "act", "feed"} /\ episode.status = "settling"
                => InTransit(pending) > 0 \/ episode.target <= Cent \/ Balance(loan) = 0 )
<1>1. ReplayInv /\ MoneyInv /\ SettlingInv =>
        ( phase \in {"trigger", "act", "feed"} /\ episode.status = "settling"
            => InTransit(pending) > 0 \/ episode.target <= Cent \/ Balance(loan) = 0 )
  <2> SUFFICES ASSUME ReplayInv, MoneyInv, SettlingInv, episode.status = "settling",
                      phase \in {"trigger", "act", "feed"},
                      ~(InTransit(pending) > 0), ~(episode.target <= Cent)
               PROVE  Balance(loan) = 0
    OBVIOUS
  <2>1. ~Reached(episode.settled) /\ Reached(episode.net)
    BY DEF SettlingInv, SettlingWaits, ReplayInv, StatusIsTrue
  <2>2. episode.settled # episode.net /\ InTransit(pending) = 0
    BY <2>1, ProtocolTyped
  <2>3. ASSUME Balance(loan) > 0 PROVE FALSE
    BY <2>2, <2>3, ProtocolTyped DEF MoneyInv, Proceeds
  <2>. QED BY <2>3, ProtocolTyped
<1>. QED BY <1>1, SettlingAlways, PTL

(* With interest calculated by the engine and proceeds that settle by the    *)
(* next observation, which is the policy's default, an episode never waits   *)
(* for money that is not on its way.                                         *)
THEOREM SettlingIsCompleted ==
  Spec => [](Prompt /\ AccrualMode = "engine_calculated" => SettlingAwaitsMoney)
<1>1. ReplayInv /\ MoneyInv /\ SettlingInv
        => (Prompt /\ AccrualMode = "engine_calculated" => SettlingAwaitsMoney)
  <2> SUFFICES ASSUME ReplayInv, MoneyInv, SettlingInv, episode.status = "settling",
                      Prompt, AccrualMode = "engine_calculated",
                      phase \in {"trigger", "act", "feed"},
                      ~(InTransit(pending) > 0), ~(episode.target <= Cent)
               PROVE  FALSE
    BY DEF SettlingAwaitsMoney
  <2>1. ~Reached(episode.settled) /\ Reached(episode.net)
    BY DEF SettlingInv, SettlingWaits, ReplayInv, StatusIsTrue
  <2>2. CASE Balance(loan) > 0
    <3>1. episode.settled = episode.net
      BY <2>2, ProtocolTyped DEF MoneyInv, Proceeds
    <3>. QED BY <2>1, <3>1
  <2>3. CASE Balance(loan) = 0
    <3>1. episode.target <= episode.settled + Cent
      BY <2>3 DEF SettlingInv, Covered
    <3>. QED BY <2>1, <3>1, ProtocolTyped DEF Reached
  <2>. QED BY <2>2, <2>3, ProtocolTyped
<1>. QED BY <1>1, SettlingAlways, PTL
=============================================================================
