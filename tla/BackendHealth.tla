---------------------------- MODULE BackendHealth ----------------------------
(***************************************************************************)
(* The health of one balanced backend: BackendState's flags and counters   *)
(* (internal/balancer/state.go) driven at once by                          *)
(*   - the outcomes of real requests (CompleteAndDecr),                    *)
(*   - the goroutines that probe it (runHealthCheck, runScrapeAndHealth,   *)
(*     runAliveCheck, with markHealthy and markUnhealthy), and             *)
(*   - passiveRecoveryLoop when nothing probes it.                         *)
(* A step is a critical section of BackendState.mu; what a goroutine read  *)
(* before taking the mutex can be stale by then.                           *)
(*                                                                         *)
(* Time stamps are kept as ages, saturated where no comparison in the code *)
(* can tell the difference any more, so runs are not bounded in time.      *)
(***************************************************************************)
EXTENDS Integers, FiniteSets

CONSTANTS
    Reqs,        \* requests in flight at once, reused when they end
    Setups,      \* what the group enables, and whether requests time out
    Threshold,   \* health_check.unhealthy_after
    Strikes,     \* failed requests that demote (3)
    Grace,       \* how long a success shields from probes (60s)
    RetryDelay,  \* recovery.retry_delay_seconds, cooldown without probes
    RampUp,      \* recovery.ramp_up_seconds
    MaxLeak      \* bound: how far InFlight is off, either way

ASSUME HealthAssumption ==
    /\ IsFiniteSet(Reqs)
    /\ Setups \subseteq [health : BOOLEAN, scrape : BOOLEAN, alive : BOOLEAN,
                   slow : BOOLEAN]
    /\ Threshold \in Nat \ {0} /\ Strikes \in Nat \ {0}
    /\ Grace \in Nat /\ RetryDelay \in Nat /\ RampUp \in Nat /\ MaxLeak \in Nat

VARIABLES
    up,         \* environment: the backend process answers
    setup,      \* health_check, metrics_scrape, alive probes: enabled or not;
                \* slow: requests may outlast their timeout
    running,    \* the goroutines that watch the backend
    healthy,    \* Healthy
    failures,   \* ConsecutiveFailures
    sinceDown,  \* age of UnhealthySince, saturated at RetryDelay
    sinceOk,    \* age of LastSuccessAt, saturated at Grace
    ramping,    \* RampingUp
    rampLeft,   \* time to RampUpEnd, -1 once passed
    job,        \* job[p]: the failures field of p's job
    at,         \* at[p]: where the goroutine p is
    req,        \* req[r]: "idle", "inflight", "stray" if not counted, "streaming",
                \* or its outcome once decremented
    leaked      \* what InFlight is off by: requests whose decrement never comes,
                \* less the decrements of requests that were never counted

state  == <<healthy, failures, sinceDown, sinceOk, ramping, rampLeft>>
probes == <<setup, running, job, at>>
vars   == <<up, state, probes, req, leaked>>

Probers == {"health", "scrape", "alive"}

Cap == IF Strikes > Threshold THEN Strikes ELSE Threshold

InFlight == Cardinality({r \in Reqs : req[r] \in {"inflight", "streaming"}}) + leaked

ShouldRetry == healthy \/ RetryDelay = 0 \/ sinceDown >= RetryDelay

\* Which goroutines New starts: scraping replaces the health probe if the
\* first scrape answers; the passive loop runs if neither health probe nor
\* alive probe is enabled, with or without scraping.
Started(s, answered) ==
    LET scrape == s.scrape /\ answered IN
    {p \in Probers \cup {"passive"} :
        \/ p = "scrape" /\ scrape
        \/ p = "health" /\ s.health /\ ~scrape
        \/ p = "alive" /\ s.alive
        \/ p = "passive" /\ ~s.health /\ ~s.alive}

Init ==
    /\ up \in BOOLEAN
    /\ setup \in Setups
    /\ \E answered \in BOOLEAN : (answered => up) /\ running = Started(setup, answered)
    /\ healthy = TRUE /\ failures = 0
    /\ sinceDown = RetryDelay /\ sinceOk = Grace
    /\ ramping = FALSE /\ rampLeft = -1
    /\ job = [p \in Probers |-> 0]
    /\ at = [p \in Probers |->     \* each probes once at startup
               IF p \in running THEN "probing" ELSE "sleeping"]
    /\ req = [r \in Reqs |-> "idle"]
    /\ leaked = 0

Least(a, b) == IF a < b THEN a ELSE b
-----------------------------------------------------------------------------
(* BackendState.                                                           *)

SetHealthy(ramp) ==
    /\ healthy' = TRUE
    /\ failures' = 0
    /\ ramping' = (ramp > 0)
    /\ rampLeft' = IF ramp > 0 THEN ramp ELSE rampLeft
    /\ UNCHANGED <<sinceDown, sinceOk>>

Demote ==
    /\ healthy' = FALSE
    /\ sinceDown' = IF healthy THEN 0 ELSE sinceDown

\* Mutated form: the demotion is forgotten.
RecordFailureOnly(n) ==
    /\ failures' = Least(n, Cap)
    /\ UNCHANGED <<healthy, sinceDown, sinceOk, ramping, rampLeft>>

\* RecordFailure overwrites the counter with the prober's own.  Counters
\* saturate at Cap: no comparison distinguishes larger values.
RecordFailure(n) ==
    /\ failures' = Least(n, Cap)
    /\ IF n >= Threshold THEN Demote ELSE UNCHANGED <<healthy, sinceDown>>
    /\ UNCHANGED <<sinceOk, ramping, rampLeft>>

\* RecordRequestOutcome(success, 3, 0).
RecordRequestOutcome(success) ==
    IF success
    THEN /\ failures' = 0
         /\ sinceOk' = 0
         /\ healthy' = TRUE
         /\ ramping' = (healthy /\ ramping /\ rampLeft >= 0)
         /\ UNCHANGED <<sinceDown, rampLeft>>
    ELSE /\ failures' = Least(failures + 1, Cap)
         /\ IF failures + 1 >= Strikes THEN Demote
                                       ELSE UNCHANGED <<healthy, sinceDown>>
         /\ UNCHANGED <<sinceOk, ramping, rampLeft>>
-----------------------------------------------------------------------------
(* Probing goroutines.                                                     *)

Move(p, here, there) == at[p] = here /\ at' = [at EXCEPT ![p] = there]

\* Mutated form: the retry delay is tested the wrong way round.
TickerNeverRetries(p) ==
    /\ p \in running /\ healthy
    /\ Move(p, "sleeping", "probing")
    /\ UNCHANGED <<up, state, setup, running, job, req, leaked>>

\* A tick of the job's ticker that is not skipped.
Ticker(p) ==
    /\ p \in running /\ (healthy \/ ShouldRetry)
    /\ Move(p, "sleeping", "probing")
    /\ UNCHANGED <<up, state, setup, running, job, req, leaked>>

\* The probe answers.  job.failures is reset before `job.failures > 0` is
\* passed on, so markHealthy never asks for a ramp-up.
ProbeSucceeds(p) ==
    /\ up
    /\ Move(p, "probing", "sleeping")
    /\ job' = [job EXCEPT ![p] = 0]
    /\ SetHealthy(0)
    /\ UNCHANGED <<up, setup, running, req, leaked>>

\* Mutated form: the job does not add up its failures.
ProbeFailsAnew(p) ==
    /\ ~up
    /\ Move(p, "probing", IF InFlight > 0 \/ sinceOk < Grace THEN "sleeping"
                                                              ELSE "blaming")
    /\ job' = [job EXCEPT ![p] = 1]
    /\ UNCHANGED <<up, state, setup, running, req, leaked>>

\* The probe fails; markUnhealthy gives up if the backend has requests in
\* flight or succeeded recently.
ProbeFails(p) ==
    /\ ~up
    /\ Move(p, "probing", IF InFlight > 0 \/ sinceOk < Grace THEN "sleeping"
                                                              ELSE "blaming")
    /\ job' = [job EXCEPT ![p] = Least(@ + 1, Cap)]
    /\ UNCHANGED <<up, state, setup, running, req, leaked>>

\* The rest of markUnhealthy, after its two checks.
Blame(p) ==
    /\ Move(p, "blaming", "sleeping")
    /\ RecordFailure(job[p])
    /\ UNCHANGED <<up, setup, running, job, req, leaked>>

\* /metrics answers at last: the health goroutine starts a scrape goroutine,
\* which begins with a fresh job and an immediate scrape, and exits.
StartScraping ==
    /\ "health" \in running /\ at["health"] = "sleeping"
    /\ setup.scrape /\ up
    /\ running' = (running \ {"health"}) \cup {"scrape"}
    /\ at' = [at EXCEPT !["scrape"] = "probing"]
    /\ job' = [job EXCEPT !["scrape"] = 0]
    /\ UNCHANGED <<up, state, setup, req, leaked>>

\* passiveRecoveryLoop: the only caller that ramps up.
PassiveRecovery ==
    /\ "passive" \in running
    /\ ~healthy /\ ShouldRetry
    /\ SetHealthy(RampUp)
    /\ UNCHANGED <<up, probes, req, leaked>>
-----------------------------------------------------------------------------
(* Requests.                                                               *)

Dispatch(r) ==
    /\ req[r] = "idle"
    /\ req' = [req EXCEPT ![r] = "inflight"]
    /\ UNCHANGED <<up, state, probes, leaked>>

\* A request that reaches the backend past its group: the backend is a member,
\* so CompleteAndDecr will lower InFlight, but nothing has raised it.
Bypass(r) ==
    /\ req[r] = "idle"
    /\ leaked - Cardinality({q \in Reqs : req[q] = "stray"}) > -MaxLeak
    /\ req' = [req EXCEPT ![r] = "stray"]
    /\ UNCHANGED <<up, state, probes, leaked>>

\* One of proxyRequest's early returns after selection.
Abandon(r) ==
    /\ req[r] = "inflight" /\ leaked < MaxLeak
    /\ req' = [req EXCEPT ![r] = "idle"]
    /\ leaked' = leaked + 1
    /\ UNCHANGED <<up, state, probes>>

\* A streamed answer begins: its status is 200.
StartStream(r) ==
    /\ req[r] = "inflight" /\ up
    /\ req' = [req EXCEPT ![r] = "streaming"]
    /\ UNCHANGED <<up, state, probes, leaked>>

\* CompleteAndDecr of a closed stream: a success by its status, also when the
\* backend has died or fell silent since; a timeout if the client left.
DecrStream(r) ==
    /\ req[r] = "streaming"
    /\ \E o \in {"success", "idle"} :
          /\ o = "idle" => setup.slow
          /\ req' = [req EXCEPT ![r] = o]
    /\ UNCHANGED <<up, state, probes, leaked>>

\* CompleteAndDecr lowers InFlight first, for a request that was never counted
\* too.
Decr(r) ==
    /\ req[r] \in {"inflight", "stray"}
    /\ leaked' = IF req[r] = "stray" THEN leaked - 1 ELSE leaked
    /\ \E o \in {"success", "failure", "timeout"} :
          /\ o = "timeout" => setup.slow
          /\ o = "success" => up
          /\ req' = [req EXCEPT ![r] = IF o = "timeout" THEN "idle" ELSE o]
    /\ UNCHANGED <<up, state, probes>>

\* recordRequestOutcome: anything but status 200 is a failure, the errors its
\* clients provoke from a backend that is up included.
RecordOutcome(r) ==
    /\ req[r] \in {"success", "failure"}
    /\ RecordRequestOutcome(req[r] = "success")
    /\ req' = [req EXCEPT ![r] = "idle"]
    /\ UNCHANGED <<up, probes, leaked>>
-----------------------------------------------------------------------------
Elapse ==
    /\ sinceDown' = Least(sinceDown + 1, RetryDelay)
    /\ sinceOk' = Least(sinceOk + 1, Grace)
    /\ rampLeft' = IF rampLeft >= 0 THEN rampLeft - 1 ELSE rampLeft
    /\ UNCHANGED <<up, healthy, failures, ramping, probes, req, leaked>>

Flip == up' = ~up /\ UNCHANGED <<state, probes, req, leaked>>

Probe(p) == Ticker(p) \/ ProbeSucceeds(p) \/ ProbeFails(p) \/ Blame(p)

Next ==
    \/ Elapse \/ Flip
    \/ \E p \in Probers : Probe(p)
    \/ StartScraping \/ PassiveRecovery
    \/ \E r \in Reqs : \/ Dispatch(r) \/ Bypass(r) \/ Abandon(r) \/ StartStream(r)
                        \/ DecrStream(r) \/ Decr(r) \/ RecordOutcome(r)

\* Time passes, tickers fire, requests end and are recorded; nobody need
\* send a request.
Fairness ==
    /\ WF_vars(Elapse)
    /\ \A p \in Probers : WF_vars(Probe(p))
    /\ WF_vars(PassiveRecovery)
    /\ \A r \in Reqs : WF_vars(Decr(r) \/ DecrStream(r)) /\ WF_vars(RecordOutcome(r))

Spec == Init /\ [][Next]_vars /\ Fairness
-----------------------------------------------------------------------------
(* Properties.                                                             *)

(* The fields keep their ranges; in particular no saturated age or counter *)
(* leaves its range.                                                       *)
TypeOK ==
    /\ up \in BOOLEAN /\ healthy \in BOOLEAN /\ ramping \in BOOLEAN
    /\ setup \in Setups /\ running \subseteq Probers \cup {"passive"}
    /\ failures \in 0 .. Cap
    /\ sinceDown \in 0 .. RetryDelay
    /\ sinceOk \in 0 .. Grace
    /\ rampLeft \in -1 .. RampUp
    /\ job \in [Probers -> 0 .. Cap]
    /\ at \in [Probers -> {"sleeping", "probing", "blaming"}]
    /\ req \in [Reqs -> {"idle", "inflight", "stray", "streaming", "success", "failure"}]
    /\ leaked \in Int

(* A backend still marked healthy has fewer consecutive failures than the  *)
(* larger of the two limits, although probes and requests write the same   *)
(* counter against different limits.                                       *)
BelowLimit == healthy => failures < Cap

(* A backend that answers for good is readmitted again and again, whatever *)
(* combination of probes is enabled, the races between probers and         *)
(* requests and the errors its clients provoke: there is always a          *)
(* goroutine that leads back into the pool.                                *)
Recovers == <>[]up => []<>healthy

(* A backend that has died for good is taken out of the pool for good,     *)
(* with and without traffic, if something probes it and its requests fail  *)
(* rather than time out; nothing but an InFlight left behind by an early   *)
(* return can keep it in.                                                  *)
Detects ==
    <>[]~up /\ "passive" \notin running /\ ~setup.slow
        => <>[](~healthy \/ leaked > 0)
=============================================================================
