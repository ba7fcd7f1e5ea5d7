------------------------------- MODULE Selection -------------------------------
(***************************************************************************)
(* How a group's balancer picks a backend, and what a failed request does  *)
(* to the pins (internal/balancer: Balancer.Select and InvalidatePin, the  *)
(* four Selectors, pickLeastLoaded, loadScore, isOverloaded, FlowStats).   *)
(* Requests run concurrently.  A step of one is a pass over the backend    *)
(* states with the decision taken from it, a call of the affinity store or *)
(* an update of the counters; between two of them any other request may    *)
(* run.  The pool is collected by ranging over a Go map, so its order is   *)
(* arbitrary.  Health and ramp-up change as the environment likes;         *)
(* BackendHealth says how.                                                 *)
(***************************************************************************)
EXTENDS AffinityStore

SeqExt == INSTANCE SequencesExt

CONSTANTS
    Reqs,            \* requests to the group, each run once
    KeyOf,           \* affinity key of a request, NoKey for ""
    NoKey, None,
    Strategies,      \* strategies of the group in this instance
    MaxConcurrency,  \* overload.max_concurrency, 0 = no limit
    KVLimit,         \* overload.kv_cache_pct in percent, 0 = no limit
    StallLimit,      \* more unfinished dispatches mean overload (10 in the code)
    Scrapes,         \* metrics a scrape can leave: [fresh, running, kv]
    Unsteady,        \* backends whose health changes
    Outcomes         \* "ok", "refused" (4xx), "timeout", "broken" (5xx, no connection)

ASSUME SelectionAssumption ==
    /\ IsFiniteSet(Backends) /\ IsFiniteSet(Reqs)
    /\ KeyOf \in [Reqs -> Keys \cup {NoKey}] /\ NoKey \notin Keys
    /\ Strategies \subseteq {"single", "round_robin", "least_loaded", "sticky_least_loaded"}
    /\ MaxConcurrency \in Nat /\ KVLimit \in Nat /\ StallLimit \in Nat
    /\ Scrapes \subseteq [fresh : BOOLEAN, running : Nat, kv : Nat]
    /\ Unsteady \subseteq Backends
    /\ Outcomes \subseteq {"ok", "refused", "timeout", "broken"}

VARIABLES
    healthy,   \* Healthy
    ramping,   \* IsRampingUp()
    failing,   \* IsFailing(): the dispatch-failure cooldown runs
    scraped,   \* last scraped metrics
    inflight,  \* InFlight: an Int, completions of uncounted requests lower it
    flow,      \* FlowStats counters
    strategy,  \* the group's Selector
    turn,      \* counter of roundRobinSelector
    pc, pool, pin, tgt   \* of a request: step, candidates, pin found, choice

health == <<healthy, ramping, failing, scraped>>
counts == <<inflight, flow>>
chooser == <<strategy, turn>>
local  == <<pc, pool, pin, tgt>>
all    == <<entries, lru, now, health, counts, chooser, local>>

Sticky == strategy = "sticky_least_loaded"

SelInit ==
    /\ Init
    /\ healthy = [b \in Backends |-> TRUE]
    /\ ramping = [b \in Backends |-> FALSE]
    /\ failing = [b \in Backends |-> FALSE]
    /\ scraped \in [Backends -> {m \in Scrapes : ~m.fresh}]
    /\ inflight = [b \in Backends |-> 0]
    /\ flow = [b \in Backends |->
                 [dispatched |-> 0, completed |-> 0, success |-> 0, timeout |-> 0]]
    /\ strategy \in Strategies
    /\ turn = 0
    /\ pc = [r \in Reqs |-> "scan"]
    /\ pool = [r \in Reqs |-> {}]
    /\ pin = [r \in Reqs |-> None]
    /\ tgt = [r \in Reqs |-> None]
-----------------------------------------------------------------------------
(* Load.  A score is a fraction, kept exact as numerator and denominator.  *)

Stalled(f) == IF f.dispatched > f.completed THEN f.dispatched - f.completed ELSE 0

\* GetEffectiveLoad and the KV-cache pressure, in hundredths.
EffectiveLoad(b) ==
    IF scraped[b].fresh THEN 100 * scraped[b].running + 2 * scraped[b].kv
                        ELSE 100 * inflight[b]

\* Mutated form: the success rate raises the score instead of the failures.
loadScoreInverted(b) ==
    LET f  == flow[b]
        c  == IF f.completed = 0 THEN 1 ELSE f.completed
        ok == IF f.completed = 0 THEN 1 ELSE f.success
        d  == IF f.dispatched = 0 THEN 1 ELSE f.dispatched
        t  == IF f.dispatched = 0 THEN 0 ELSE f.timeout
    IN [num |-> EffectiveLoad(b) * (c + 2 * ok) * (d + 3 * t)
                  + 300 * Stalled(f) * c * d,
        den |-> c * d]

\* load * (1 + 2 (1 - success rate)) * (1 + 3 timeouts/dispatched) + 3 stalled
\* in hundredths.  The weight it is divided by is 1 for every backend.
loadScore(b) ==
    LET f  == flow[b]
        c  == IF f.completed = 0 THEN 1 ELSE f.completed
        ok == IF f.completed = 0 THEN 1 ELSE f.success
        d  == IF f.dispatched = 0 THEN 1 ELSE f.dispatched
        t  == IF f.dispatched = 0 THEN 0 ELSE f.timeout
    IN [num |-> EffectiveLoad(b) * (c + 2 * (c - ok)) * (d + 3 * t)
                  + 300 * Stalled(f) * c * d,
        den |-> c * d]

Lighter(a, b) ==
    LET x == loadScore(a) y == loadScore(b) IN x.num * y.den < y.num * x.den

\* The backends pickLeastLoaded may return: with equal scores the map's order
\* decides, whatever the key's hash.
pickLeastLoaded(P) == {b \in P : \A a \in P : ~Lighter(a, b)}

isOverloaded(b) ==
    \/ MaxConcurrency > 0 /\ inflight[b] >= MaxConcurrency
    \/ KVLimit > 0 /\ scraped[b].fresh /\ scraped[b].kv >= KVLimit
    \/ Stalled(flow[b]) > StallLimit
-----------------------------------------------------------------------------
(* Steps of one request.                                                   *)

Go(r, step) == pc' = [pc EXCEPT ![r] = step]

FirstStep(r) == IF Sticky /\ KeyOf[r] # NoKey THEN "lookup" ELSE "choose"

\* Balancer.Select collects the healthy backends.
Scan(r) ==
    LET P == {b \in Backends : healthy[b]} IN
    /\ pc[r] = "scan"
    /\ pool' = [pool EXCEPT ![r] = P]
    /\ Go(r, IF P = {} THEN "rescan" ELSE FirstStep(r))
    /\ UNCHANGED <<entries, lru, now, health, counts, chooser, pin, tgt>>

\* Mutated form: the pool is left empty when no unhealthy backend is found.
RescanNoForce(r) ==
    /\ pc[r] = "rescan"
    /\ pool' = [pool EXCEPT ![r] = {b \in Backends : ~healthy[b]}]
    /\ Go(r, FirstStep(r))
    /\ UNCHANGED <<entries, lru, now, health, counts, chooser, pin, tgt>>

\* Last resort: ShouldRetry(0) is true of every backend still unhealthy.  Were
\* they all healthy again by now, one of them is forced in.
Rescan(r) ==
    LET P == {b \in Backends : ~healthy[b]} IN
    /\ pc[r] = "rescan"
    /\ \/ P # {} /\ pool' = [pool EXCEPT ![r] = P]
       \/ P = {} /\ \E b \in Backends : pool' = [pool EXCEPT ![r] = {b}]
    /\ Go(r, FirstStep(r))
    /\ UNCHANGED <<entries, lru, now, health, counts, chooser, pin, tgt>>

\* store.Get
Lookup(r) ==
    /\ pc[r] = "lookup"
    /\ pin' = [pin EXCEPT ![r] =
                 IF Fresh(KeyOf[r]) THEN entries[KeyOf[r]].backend ELSE None]
    /\ Go(r, "honour")
    /\ UNCHANGED <<entries, lru, now, health, counts, chooser, pool, tgt>>

Usable(b) == ~failing[b] /\ ~isOverloaded(b)

\* Mutated form: a pinned backend that ramps up is passed over.
HonourUnlessRamping(r) ==
    /\ pc[r] = "honour"
    /\ IF pin[r] \in pool[r] /\ Usable(pin[r]) /\ ~ramping[pin[r]]
       THEN /\ tgt' = [tgt EXCEPT ![r] = pin[r]]
            /\ Touch(KeyOf[r])
            /\ Go(r, "count")
       ELSE Go(r, "choose") /\ UNCHANGED <<entries, lru, tgt>>
    /\ UNCHANGED <<now, health, counts, chooser, pool, pin>>

\* The pinned backend is taken if it is in the pool, not cooling down and not
\* overloaded; its entry is touched.
Honour(r) ==
    /\ pc[r] = "honour"
    /\ IF pin[r] \in pool[r] /\ Usable(pin[r])
       THEN /\ tgt' = [tgt EXCEPT ![r] = pin[r]]
            /\ Touch(KeyOf[r])
            /\ Go(r, "count")
       ELSE Go(r, "choose") /\ UNCHANGED <<entries, lru, tgt>>
    /\ UNCHANGED <<now, health, counts, chooser, pool, pin>>

\* Mutated form: backends that ramp up are not told apart.
TierIgnoresRamp(P) ==
    LET cooling == {b \in P : failing[b]}
    IN IF cooling # P THEN P \ cooling ELSE cooling

\* The preferred tier of a pool: settled backends, else those that ramp up,
\* else those in cooldown.
Tier(P) ==
    LET cooling == {b \in P : failing[b]}
        warming == {b \in P \ cooling : ramping[b]}
        settled == P \ (cooling \cup warming)
    IN IF settled # {} THEN settled ELSE IF warming # {} THEN warming ELSE cooling

\* The backends the group's Selector may return from a pool in any order.
Choices(P) ==
    CASE strategy = "single"       -> {s[1] : s \in SeqExt!SetToSeqs(P)}
      [] strategy = "round_robin"  -> {s[(turn % Len(s)) + 1] : s \in SeqExt!SetToSeqs(P)}
      [] strategy = "least_loaded" -> pickLeastLoaded(P)
      [] Sticky                    -> pickLeastLoaded(Tier(P))

Choose(r) ==
    /\ pc[r] = "choose"
    /\ \E b \in Choices(pool[r]) : tgt' = [tgt EXCEPT ![r] = b]
    /\ turn' = IF strategy = "round_robin" THEN turn + 1 ELSE turn
    /\ Go(r, IF FirstStep(r) = "lookup" THEN "pin" ELSE "count")
    /\ UNCHANGED <<entries, lru, now, health, counts, strategy, pool, pin>>

\* Pin the choice, unless it ramps up or cools down by now.
Pin(r) ==
    /\ pc[r] = "pin"
    /\ IF ramping[tgt[r]] \/ failing[tgt[r]] THEN UNCHANGED store
                                             ELSE Set(KeyOf[r], tgt[r])
    /\ Go(r, "count")
    /\ UNCHANGED <<now, health, counts, chooser, pool, pin, tgt>>

\* Incr and Dispatch, on one balancer (RequestLifecycle tells them apart, as a
\* reload can come between them).
Count(r) ==
    /\ pc[r] = "count"
    /\ inflight' = [inflight EXCEPT ![tgt[r]] = @ + 1]
    /\ flow' = [flow EXCEPT ![tgt[r]].dispatched = @ + 1]
    /\ Go(r, "sent")
    /\ UNCHANGED <<entries, lru, now, health, chooser, pool, pin, tgt>>

\* FlowStats.Complete
CompletedFlow(f, o) ==
    [dispatched |-> f.dispatched, completed |-> f.completed + 1,
     success |-> f.success + (IF o = "ok" THEN 1 ELSE 0),
     timeout |-> f.timeout + (IF o = "timeout" THEN 1 ELSE 0)]

\* A request routed to a backend of the group by itself, or passed through to
\* it: no selection, neither Incr nor Dispatch.
Bypass(r) ==
    /\ pc[r] = "scan"
    /\ \E b \in Backends : tgt' = [tgt EXCEPT ![r] = b]
    /\ Go(r, "stray")
    /\ UNCHANGED <<entries, lru, now, health, counts, chooser, pool, pin>>

\* A counted request the handler gives up before the backend is reached (body
\* not rewritten, URL not parsed, no slot): it returns without completing it.
Abandon(r) ==
    /\ pc[r] = "sent"
    /\ Go(r, "dropped")
    /\ UNCHANGED <<entries, lru, now, health, counts, chooser, pool, pin, tgt>>

\* Where a finished request goes: a broken one of the group on to InvalidatePin,
\* which returns at once without a key or without sticky selection.
After(r, o) ==
    IF pc[r] = "stray" THEN "strayed"
    ELSE IF o = "broken" /\ FirstStep(r) = "lookup" THEN "blame"
    ELSE IF o = "broken" THEN "failed" ELSE "done"

\* CompleteAndDecr, of every request whose backend is in the group, counted or not.
Finish(r) ==
    /\ pc[r] \in {"sent", "stray"}
    /\ \E o \in Outcomes :
        /\ flow' = [flow EXCEPT ![tgt[r]] = CompletedFlow(@, o)]
        /\ Go(r, After(r, o))
    /\ inflight' = [inflight EXCEPT ![tgt[r]] = @ - 1]
    /\ UNCHANGED <<entries, lru, now, health, chooser, pool, pin, tgt>>

\* InvalidatePin: whatever the key is pinned to now starts its cooldown ...
Blame(r) ==
    /\ pc[r] = "blame"
    /\ failing' = IF Fresh(KeyOf[r])
                  THEN [failing EXCEPT ![entries[KeyOf[r]].backend] = TRUE]
                  ELSE failing
    /\ Go(r, "unpin")
    /\ UNCHANGED <<entries, lru, now, healthy, ramping, scraped, counts, chooser,
                   pool, pin, tgt>>

\* ... and the key's pin, whatever it is by then, is removed.
Unpin(r) ==
    /\ pc[r] = "unpin"
    /\ Delete(KeyOf[r])
    /\ Go(r, "failed")
    /\ UNCHANGED <<now, health, counts, chooser, pool, pin, tgt>>
-----------------------------------------------------------------------------
(* The rest of the balancer.                                               *)

\* Probes, request outcomes and timers change health and ramp-up.
HealthChange(b) ==
    /\ b \in Unsteady
    /\ \E h, w \in BOOLEAN : /\ healthy' = [healthy EXCEPT ![b] = h]
                             /\ ramping' = [ramping EXCEPT ![b] = w]
    /\ UNCHANGED <<entries, lru, now, failing, scraped, counts, chooser, local>>

CoolDown(b) ==
    /\ failing[b]
    /\ failing' = [failing EXCEPT ![b] = FALSE]
    /\ UNCHANGED <<entries, lru, now, healthy, ramping, scraped, counts, chooser, local>>

Scrape(b) ==
    /\ \E m \in Scrapes \ {scraped[b]} : scraped' = [scraped EXCEPT ![b] = m]
    /\ UNCHANGED <<entries, lru, now, healthy, ramping, failing, counts, chooser, local>>

SelTick == Tick /\ UNCHANGED <<health, counts, chooser, local>>

Step(r) ==
    \/ Scan(r) \/ Rescan(r) \/ Lookup(r) \/ Honour(r) \/ Choose(r) \/ Pin(r)
    \/ Count(r) \/ Bypass(r) \/ Abandon(r) \/ Finish(r) \/ Blame(r) \/ Unpin(r)

SelNext ==
    \/ \E r \in Reqs : Step(r)
    \/ \E b \in Backends : HealthChange(b) \/ CoolDown(b) \/ Scrape(b)
    \/ SelTick

SelSpec == SelInit /\ [][SelNext]_all
-----------------------------------------------------------------------------
(* Properties.                                                             *)

Selecting == {"lookup", "honour", "choose"}
Chosen    == {"pin", "count", "sent", "dropped", "stray", "strayed",
              "blame", "unpin", "failed", "done"}

(* The state keeps its shape, and a request past selection has a backend.  *)
SelTypeOK ==
    /\ TypeOK
    /\ healthy \in [Backends -> BOOLEAN]
    /\ ramping \in [Backends -> BOOLEAN]
    /\ failing \in [Backends -> BOOLEAN]
    /\ scraped \in [Backends -> Scrapes]
    /\ inflight \in [Backends -> Int]
    /\ flow \in [Backends -> [dispatched : Nat, completed : Nat,
                              success : Nat, timeout : Nat]]
    /\ strategy \in Strategies /\ turn \in Nat
    /\ pc \in [Reqs -> {"scan", "rescan"} \cup Selecting \cup Chosen]
    /\ pool \in [Reqs -> SUBSET Backends]
    /\ pin \in [Reqs -> Backends \cup {None}]
    /\ tgt \in [Reqs -> Backends \cup {None}]
    /\ \A r \in Reqs : pc[r] \in Chosen => tgt[r] \in Backends

(* Balancer.Select never hands its Selector an empty pool (which would be  *)
(* answered with 503), even if every backend is unhealthy, or turns        *)
(* healthy again between the two scans.                                    *)
NeverEmpty == \A r \in Reqs : pc[r] \in Selecting => pool[r] # {}

\* A lower share of what completed on a succeeded; of what was sent, timed out.
SuccessWorse(a, b) ==
    flow[a].success * flow[b].completed < flow[b].success * flow[a].completed

TimeoutsNoWorse(a, b) ==
    flow[a].timeout * flow[b].dispatched <= flow[b].timeout * flow[a].dispatched

Tried(b) == flow[b].dispatched > 0 /\ flow[b].completed > 0

(* As long as a load is not negative, the score never prefers the backend  *)
(* that is worse in every respect: one with no more load and stalls, at    *)
(* least the success rate and at most the timeout rate of another is never *)
(* scored above it.  (InFlight falls below zero when completions of        *)
(* uncounted requests are taken off; the penalties then lower the score.)  *)
ScoreMonotone ==
    \A a, b \in Backends :
        (/\ 0 <= EffectiveLoad(a) /\ EffectiveLoad(a) <= EffectiveLoad(b)
         /\ Stalled(flow[a]) <= Stalled(flow[b])
         /\ Tried(a) /\ Tried(b)
         /\ ~SuccessWorse(a, b) /\ TimeoutsNoWorse(a, b))
          => ~Lighter(b, a)
=============================================================================
