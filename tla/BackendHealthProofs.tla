-------------------------- MODULE BackendHealthProofs --------------------------
(***************************************************************************)
(* Proofs about BackendHealth for any number of requests, any set of       *)
(* configurations and any thresholds and delays.  TypeOK /\ BelowLimit is  *)
(* inductive.                                                              *)
(***************************************************************************)
EXTENDS BackendHealth, TLAPS

HInv == TypeOK /\ BelowLimit

\* The cap on the counters is one of the two limits, and at least both.
LEMMA CapFacts == Cap \in Nat /\ Cap >= Strikes /\ Cap >= Threshold /\ Cap > 0
  BY HealthAssumption DEF Cap

\* A saturated sum stays in its range.
LEMMA LeastFacts ==
  ASSUME NEW a \in Nat, NEW b \in Nat
  PROVE  Least(a, b) \in 0 .. b /\ Least(a, b) <= a
  BY DEF Least

\* The fields of BackendState keep their types and, if healthy, a counter
\* below the cap: what SetHealthy, RecordFailure and RecordRequestOutcome
\* have to establish.
StateInv ==
    /\ healthy \in BOOLEAN /\ ramping \in BOOLEAN
    /\ failures \in 0 .. Cap
    /\ sinceDown \in 0 .. RetryDelay
    /\ sinceOk \in 0 .. Grace
    /\ rampLeft \in -1 .. RampUp
    /\ BelowLimit

\* SetHealthy, with or without a ramp-up, keeps the fields in order.
LEMMA SetHealthyKeeps ==
  ASSUME StateInv, NEW d \in {0, RampUp}, SetHealthy(d)
  PROVE  StateInv'
  BY CapFacts, HealthAssumption DEF StateInv, SetHealthy, BelowLimit, Cap

\* RecordFailure of a prober's counter keeps them: at the threshold the
\* backend is no longer healthy, below it the counter is below the cap.
LEMMA RecordFailureKeeps ==
  ASSUME StateInv, NEW n \in 0 .. Cap, RecordFailure(n)
  PROVE  StateInv'
<1>1. Least(n, Cap) = n
  BY CapFacts DEF Least
<1>2. CASE n >= Threshold
  <2>1. healthy' = FALSE
    BY <1>2 DEF RecordFailure, Demote
  <2>2. sinceDown' \in 0 .. RetryDelay
    BY <1>2, HealthAssumption DEF StateInv, RecordFailure, Demote
  <2>3. failures' \in 0 .. Cap
    BY <1>1 DEF RecordFailure
  <2> QED
    BY <2>1, <2>2, <2>3 DEF StateInv, RecordFailure, BelowLimit, Cap
<1>3. CASE n < Threshold
  BY <1>1, <1>3, CapFacts, HealthAssumption
  DEF StateInv, RecordFailure, BelowLimit, Cap
<1> QED
  BY <1>2, <1>3, CapFacts, HealthAssumption

\* So does RecordRequestOutcome with its own limit.
LEMMA RecordRequestOutcomeKeeps ==
  ASSUME StateInv, NEW success \in BOOLEAN, RecordRequestOutcome(success)
  PROVE  StateInv'
<1>1. CASE success
  BY <1>1, CapFacts, HealthAssumption
  DEF StateInv, RecordRequestOutcome, BelowLimit, Cap
<1>2. CASE ~success
  <2>0. failures + 1 \in Nat
    BY CapFacts DEF StateInv
  <2>1. Least(failures + 1, Cap) \in 0 .. Cap /\ Least(failures + 1, Cap) <= failures + 1
    BY <2>0, CapFacts, LeastFacts
  <2>2. CASE failures + 1 >= Strikes
    <3>1. healthy' = FALSE
      BY <1>2, <2>2 DEF RecordRequestOutcome, Demote
    <3>2. sinceDown' \in 0 .. RetryDelay
      BY <1>2, <2>2, HealthAssumption DEF StateInv, RecordRequestOutcome, Demote
    <3>3. failures' \in 0 .. Cap
      BY <1>2, <2>1 DEF RecordRequestOutcome
    <3> QED
      BY <1>2, <3>1, <3>2, <3>3 DEF StateInv, RecordRequestOutcome, BelowLimit, Cap
  <2>3. CASE failures + 1 < Strikes
    <3>1. Least(failures + 1, Cap) < Cap
      BY <2>0, <2>1, <2>3, CapFacts, HealthAssumption
    <3> QED
      BY <1>2, <2>1, <2>3, <3>1, HealthAssumption
      DEF StateInv, RecordRequestOutcome, BelowLimit, Cap
  <2> QED
    BY <2>0, <2>2, <2>3, HealthAssumption
<1> QED
  BY <1>1, <1>2

\* The initial state satisfies the invariant.
LEMMA InitHInv == Init => HInv
<1> SUFFICES ASSUME Init PROVE HInv
  OBVIOUS
<1>1. failures \in 0 .. Cap /\ failures < Cap
  BY CapFacts DEF Init
<1>2. job \in [Probers -> 0 .. Cap]
  BY CapFacts DEF Init
<1>3. /\ sinceDown \in 0 .. RetryDelay /\ sinceOk \in 0 .. Grace
      /\ rampLeft \in -1 .. RampUp /\ leaked \in Int
  BY HealthAssumption DEF Init
<1>4. /\ at \in [Probers -> {"sleeping", "probing", "blaming"}]
      /\ req \in [Reqs -> {"idle", "inflight", "stray", "streaming", "success", "failure"}]
  BY DEF Init
<1>5. up \in BOOLEAN /\ healthy \in BOOLEAN /\ ramping \in BOOLEAN
  BY DEF Init
<1>6. setup \in Setups /\ running \subseteq Probers \cup {"passive"}
  BY DEF Init, Started
<1> QED
  BY <1>1, <1>2, <1>3, <1>4, <1>5, <1>6 DEF HInv, TypeOK, BelowLimit

\* Every step of the requests, the probers, the recovery loop and the clock
\* preserves it.
LEMMA NextHInv == HInv /\ [Next]_vars => HInv'
<1> SUFFICES ASSUME HInv, [Next]_vars PROVE HInv'
  OBVIOUS
<1> USE HealthAssumption, CapFacts
<1>s. StateInv
  BY DEF HInv, TypeOK, StateInv
<1>1. CASE Elapse
  BY <1>1 DEF Elapse, HInv, TypeOK, BelowLimit, Least, probes, Cap
<1>2. CASE Flip
  BY <1>2 DEF Flip, HInv, TypeOK, BelowLimit, state, probes, Cap
<1>3. ASSUME NEW p \in Probers, Probe(p) PROVE HInv'
  <2>1. CASE Ticker(p)
    BY <2>1 DEF Ticker, Move, HInv, TypeOK, BelowLimit, state, Cap
  <2>2. CASE ProbeSucceeds(p)
    <3>1. StateInv'
      BY <1>s, <2>2, SetHealthyKeeps DEF ProbeSucceeds
    <3> QED
      BY <2>2, <3>1 DEF ProbeSucceeds, Move, HInv, TypeOK, StateInv, Cap
  <2>3. CASE ProbeFails(p)
    <3>0. job[p] \in 0 .. Cap
      BY DEF HInv, TypeOK
    <3>1. Least(job[p] + 1, Cap) \in 0 .. Cap
      BY <3>0 DEF Least
    <3>2. job' \in [Probers -> 0 .. Cap]
      BY <2>3, <3>1 DEF ProbeFails, HInv, TypeOK
    <3>3. at' \in [Probers -> {"sleeping", "probing", "blaming"}]
      BY <2>3 DEF ProbeFails, Move, HInv, TypeOK
    <3> QED
      BY <2>3, <3>2, <3>3 DEF ProbeFails, HInv, TypeOK, BelowLimit, state, Cap
  <2>4. CASE Blame(p)
    <3>1. StateInv'
      BY <1>s, <2>4, RecordFailureKeeps DEF Blame, HInv, TypeOK
    <3> QED
      BY <2>4, <3>1 DEF Blame, Move, HInv, TypeOK, StateInv, Cap
  <2> QED
    BY <1>3, <2>1, <2>2, <2>3, <2>4 DEF Probe
<1>4. CASE StartScraping
  <2>1. running' \subseteq Probers \cup {"passive"}
    BY <1>4 DEF StartScraping, HInv, TypeOK, Probers
  <2>2. /\ at' \in [Probers -> {"sleeping", "probing", "blaming"}]
        /\ job' \in [Probers -> 0 .. Cap]
    BY <1>4 DEF StartScraping, HInv, TypeOK, Probers
  <2> QED
    BY <1>4, <2>1, <2>2 DEF StartScraping, HInv, TypeOK, BelowLimit, state, Cap
<1>5. CASE PassiveRecovery
  <2>1. StateInv'
    BY <1>s, <1>5, SetHealthyKeeps DEF PassiveRecovery
  <2> QED
    BY <1>5, <2>1 DEF PassiveRecovery, HInv, TypeOK, StateInv, probes, Cap
<1>6. ASSUME NEW r \in Reqs, \/ Dispatch(r) \/ Bypass(r) \/ Abandon(r) \/ StartStream(r)
                              \/ DecrStream(r) \/ Decr(r) \/ RecordOutcome(r)
      PROVE  HInv'
  <2>1. CASE Dispatch(r)
    BY <2>1 DEF Dispatch, HInv, TypeOK, BelowLimit, state, probes, Cap
  <2>7. CASE Bypass(r)
    BY <2>7 DEF Bypass, HInv, TypeOK, BelowLimit, state, probes, Cap
  <2>2. CASE Abandon(r)
    BY <2>2 DEF Abandon, HInv, TypeOK, BelowLimit, state, probes, Cap
  <2>3. CASE Decr(r)
    <3>1. req' \in [Reqs -> {"idle", "inflight", "stray", "streaming", "success", "failure"}]
      BY <2>3 DEF Decr, HInv, TypeOK
    <3> QED
      BY <2>3, <3>1 DEF Decr, HInv, TypeOK, BelowLimit, state, probes, Cap
  <2>4. CASE RecordOutcome(r)
    <3>1. StateInv'
      BY <1>s, <2>4, RecordRequestOutcomeKeeps DEF RecordOutcome
    <3> QED
      BY <2>4, <3>1 DEF RecordOutcome, HInv, TypeOK, StateInv, probes, Cap
  <2>5. CASE StartStream(r)
    BY <2>5 DEF StartStream, HInv, TypeOK, BelowLimit, state, probes, Cap
  <2>6. CASE DecrStream(r)
    BY <2>6 DEF DecrStream, HInv, TypeOK, BelowLimit, state, probes, Cap
  <2> QED
    BY <1>6, <2>1, <2>2, <2>3, <2>4, <2>5, <2>6, <2>7
<1>7. CASE UNCHANGED vars
  BY <1>7 DEF vars, state, probes, HInv, TypeOK, BelowLimit, Cap
<1> QED
  BY <1>1, <1>2, <1>3, <1>4, <1>5, <1>6, <1>7 DEF Next

\* The conjunction is an invariant of the specification.
LEMMA HInvAlways == Spec => []HInv
  BY InitHInv, NextHInv, PTL DEF Spec

(* Every reachable state of a backend is well typed: no saturated age or   *)
(* counter leaves its range, whatever the delays and limits configured.    *)
THEOREM TypeCorrect == Spec => []TypeOK
<1>1. HInv => TypeOK
  BY DEF HInv
<1> QED
  BY <1>1, HInvAlways, PTL

(* No interleaving of probe results and request outcomes, which write the  *)
(* same failure counter against different limits, leaves a backend in the  *)
(* pool with as many consecutive failures as the larger limit.             *)
THEOREM BelowLimitHolds == Spec => []BelowLimit
<1>1. HInv => BelowLimit
  BY DEF HInv
<1> QED
  BY <1>1, HInvAlways, PTL

-----------------------------------------------------------------------------
(* The goroutines: what Recovers and Detects rest on besides fairness.     *)

(* Whatever the configuration enables, and although a health goroutine may *)
(* hand over to a scraper and exit, something that can readmit the backend *)
(* keeps running: the alive probe where it is enabled, the passive loop    *)
(* where no health or alive probe is, and of a health goroutine and a      *)
(* scraper that replaced it exactly one.  A goroutine that has exited has  *)
(* no probe under way whose verdict could still come.                      *)
Watchers ==
    /\ "passive" \in running <=> ~setup.health /\ ~setup.alive
    /\ "alive" \in running <=> setup.alive
    /\ "health" \in running <=> setup.health /\ "scrape" \notin running
    /\ "scrape" \in running => setup.scrape
    /\ \A p \in Probers : at[p] # "sleeping" => p \in running

\* New starts them so.
LEMMA InitWatchers == Init => Watchers
<1> SUFFICES ASSUME Init PROVE Watchers
  OBVIOUS
<1>1. PICK answered \in BOOLEAN : running = Started(setup, answered)
  BY DEF Init
<1>2. \A p \in Probers : at[p] # "sleeping" => p \in running
  BY DEF Init
<1> QED
  BY <1>1, <1>2 DEF Watchers, Started, Probers

\* No tick, verdict, request or hand-over leaves the backend unwatched.
LEMMA NextWatchers == HInv /\ Watchers /\ [Next]_vars => Watchers'
<1> SUFFICES ASSUME HInv, Watchers, [Next]_vars PROVE Watchers'
  OBVIOUS
<1>0. at \in [Probers -> {"sleeping", "probing", "blaming"}]
  BY DEF HInv, TypeOK
<1>1. CASE Elapse \/ Flip \/ PassiveRecovery
  BY <1>1 DEF Elapse, Flip, PassiveRecovery, Watchers, probes
<1>2. ASSUME NEW p \in Probers, Probe(p) PROVE Watchers'
  <2>1. /\ UNCHANGED <<setup, running>>
        /\ \E there : at' = [at EXCEPT ![p] = there]
        /\ p \in running
    BY <1>0, <1>2 DEF Probe, Ticker, ProbeSucceeds, ProbeFails, Blame, Move, Watchers
  <2> QED
    BY <1>0, <2>1 DEF Watchers
<1>3. CASE StartScraping
  BY <1>0, <1>3 DEF StartScraping, Watchers, Probers
<1>4. ASSUME NEW r \in Reqs, \/ Dispatch(r) \/ Bypass(r) \/ Abandon(r) \/ StartStream(r)
                              \/ DecrStream(r) \/ Decr(r) \/ RecordOutcome(r)
      PROVE  Watchers'
  BY <1>4 DEF Dispatch, Bypass, Abandon, StartStream, DecrStream, Decr, RecordOutcome,
     Watchers, probes
<1>5. CASE UNCHANGED vars
  BY <1>5 DEF vars, probes, Watchers
<1> QED
  BY <1>1, <1>2, <1>3, <1>4, <1>5 DEF Next

(* A backend is watched from its start on, for every combination of probes *)
(* and however often it dies and answers again.                            *)
THEOREM WatchersHold == Spec => []Watchers
  BY InitWatchers, NextWatchers, HInvAlways, PTL DEF Spec
=============================================================================
