------------------------------ MODULE Defenders ------------------------------
(***************************************************************************)
(* The request defenders: checkDefenders runs zero-content detection and   *)
(* then loop detection on every routed request, before a backend is        *)
(* selected.  The loop detector keeps one entry per (affinity key, last    *)
(* user message) in a map shared by all requests; a key here stands for    *)
(* that pair (the map is indexed by the hash of both).                     *)
(*                                                                         *)
(* checkLoop holds the mutex, so it is one step; the entry is then looked  *)
(* up a second time WITHOUT the mutex (getEntry), so a request that was    *)
(* found looping applies its verdict in a step of its own, after whatever  *)
(* other requests did to the map.  Message texts carry no data here: a     *)
(* request has a key or no user message, and is blank or not.              *)
(***************************************************************************)
EXTENDS Integers, FiniteSets, Sequences, Functions

CONSTANTS
    Reqs,          \* requests, each arriving once
    Keys,          \* pairs of affinity key and last user message
    Routes,        \* routes of the configuration
    NoBlock,       \* a defender block that the configuration leaves out
    Setups,        \* configurations: a block per defender, global and per route
    Window,        \* the default window_seconds, in ticks
    CleanupEvery,  \* checkLoop sweeps the map when its size is a multiple of
    CleanupMin,    \* CleanupEvery and above CleanupMin (1000 and 100)
    MaxTime        \* bound: ticks of the clock

\* A defender's block as it is read from the file, nothing checked.
LoopBlock == [enabled : BOOLEAN, threshold : Int, window : Int, action : STRING,
              escalateAfter : Int, escalateAction : STRING]
ZeroBlock == [enabled : BOOLEAN, action : STRING]

ASSUME DefendersAssumption ==
    /\ IsFiniteSet(Reqs) /\ IsFiniteSet(Keys)
    /\ Window \in Nat \ {0} /\ MaxTime \in Nat
    /\ CleanupEvery \in Nat \ {0} /\ CleanupMin \in Nat
    /\ "global" \notin Routes
    /\ Setups \subseteq [Routes \cup {"global"} ->
                         [loop : LoopBlock \cup {NoBlock}, zero : ZeroBlock \cup {NoBlock}]]
    /\ NoBlock \notin LoopBlock \cup ZeroBlock

VARIABLES
    defenders,  \* the blocks of the configuration that is running
    now,        \* the clock
    table,      \* loopDetector.state
    req,        \* per request: where it is, and the key and action it carries
    crashed,    \* the runtime has stopped the process
    log         \* history: every checkLoop, with its verdict

vars == <<defenders, now, table, req, crashed, log>>

-----------------------------------------------------------------------------
(* Configuration: defaults, overridden by the global block, overridden by  *)
(* the route's.  A block that is present always decides "enabled"; its     *)
(* other fields count when they are set (0 and "" mean unset).             *)

LoopDefault ==
    [enabled |-> TRUE, threshold |-> 3, window |-> Window,
     action |-> "inject_forcing_message",
     escalateAfter |-> 2, escalateAction |-> "refuse_429"]

ZeroDefault == [enabled |-> TRUE, action |-> "refuse_400"]

Override(base, block) ==
    IF block = NoBlock THEN base
    ELSE [f \in DOMAIN base |->
            IF f = "enabled" THEN block.enabled
            ELSE IF f \in {"action", "escalateAction"}
                 THEN IF block[f] # "" THEN block[f] ELSE base[f]
                 ELSE IF block[f] > 0 THEN block[f] ELSE base[f]]

GetLoopDetection(rt) ==
    Override(Override(LoopDefault, defenders["global"].loop), defenders[rt].loop)

GetZeroContentDetection(rt) ==
    Override(Override(ZeroDefault, defenders["global"].zero), defenders[rt].zero)

-----------------------------------------------------------------------------
Idle == [pc |-> "new"]

Init ==
    /\ defenders \in Setups
    /\ now = 0
    /\ table = << >>
    /\ req = [r \in Reqs |-> Idle]
    /\ crashed = FALSE
    /\ log = << >>

Answer(r, outcome) == req' = [req EXCEPT ![r] = [pc |-> outcome]]

ShortCircuits(action) == action \in {"refuse_400", "inject_minimal_response"}

\* A blank message in a large payload, when the action short-circuits; any
\* other action lets the request go on to loop detection.
RefuseZeroContent(r, rt) ==
    LET zc == GetZeroContentDetection(rt) IN
    /\ ~crashed /\ req[r] = Idle
    /\ zc.enabled /\ ShortCircuits(zc.action)
    /\ Answer(r, "zeroContent")
    /\ UNCHANGED <<defenders, now, table, crashed, log>>

\* No user message (TRUE), or loop detection is off: the map is not touched.
SkipLoopDetection(r, rt, noUser) ==
    /\ ~crashed /\ req[r] = Idle
    /\ noUser \/ ~GetLoopDetection(rt).enabled
    /\ Answer(r, "forwarded")
    /\ UNCHANGED <<defenders, now, table, crashed, log>>

-----------------------------------------------------------------------------
(* checkLoop, under the mutex.                                             *)

\* Mutated form: an entry never expires.
NeverStale(e, w) == FALSE

\* Mutated form: the end of the window is outside it.
StaleAtEnd(e, w) == now - e.firstSeen >= w

Stale(e, w) == now - e.firstSeen > w

\* Mutated form: the map is swept only above the multiple it should stop at.
SweptLate(w) ==
    IF Cardinality(DOMAIN table) % CleanupEvery = 0
       /\ Cardinality(DOMAIN table) > CleanupMin + CleanupEvery
    THEN Restrict(table, {k \in DOMAIN table : ~Stale(table[k], w)})
    ELSE table

\* The window is that of the request that happens to trigger the sweep.
Swept(w) ==
    IF Cardinality(DOMAIN table) % CleanupEvery = 0
       /\ Cardinality(DOMAIN table) > CleanupMin
    THEN Restrict(table, {k \in DOMAIN table : ~Stale(table[k], w)})
    ELSE table

Open(t, k, w) == k \in DOMAIN t /\ ~Stale(t[k], w)

NewWindow == [verdict |-> "none",
              entry |-> [count |-> 1, firstSeen |-> now, escaped |-> FALSE]]

\* Mutated form: one arrival more than the threshold is let pass.
RepeatLate(e, c) ==
    LET n == e.count + 1 IN
    CASE n <= c.threshold ->
            [verdict |-> "none", entry |-> [e EXCEPT !.count = n]]
      [] n > c.threshold /\ (e.escaped \/ n >= c.threshold + c.escalateAfter) ->
            [verdict |-> "escalated",
             entry |-> [count |-> n, firstSeen |-> e.firstSeen, escaped |-> TRUE]]
      [] OTHER ->
            [verdict |-> "detected", entry |-> [e EXCEPT !.count = c.threshold]]

\* One more arrival in a window that is open.  Once escaped is set, every
\* further arrival in the window is escalated; a first detection takes the
\* count back to the threshold.
Repeat(e, c) ==
    LET n == e.count + 1 IN
    CASE n < c.threshold ->
            [verdict |-> "none", entry |-> [e EXCEPT !.count = n]]
      [] n >= c.threshold /\ (e.escaped \/ n >= c.threshold + c.escalateAfter) ->
            [verdict |-> "escalated",
             entry |-> [count |-> n, firstSeen |-> e.firstSeen, escaped |-> TRUE]]
      [] OTHER ->
            [verdict |-> "detected", entry |-> [e EXCEPT !.count = c.threshold]]

CheckLoop(r, rt, k) ==
    LET c == GetLoopDetection(rt)
        t == Swept(c.window)
        v == IF Open(t, k, c.window) THEN Repeat(t[k], c) ELSE NewWindow
    IN  /\ ~crashed /\ req[r] = Idle
        /\ c.enabled
        /\ table' = [x \in DOMAIN t \cup {k} |-> IF x = k THEN v.entry ELSE t[x]]
        /\ log' = Append(log, [key |-> k, at |-> now, route |-> rt,
                               verdict |-> v.verdict])
        /\ IF v.verdict = "none" THEN Answer(r, "forwarded")
           ELSE req' = [req EXCEPT ![r] =
                    [pc |-> "detected", key |-> k,
                     action |-> IF v.verdict = "escalated"
                                THEN c.escalateAction ELSE c.action]]
        /\ UNCHANGED <<defenders, now, crashed>>

-----------------------------------------------------------------------------
(* After the mutex: getEntry and applyLoopDetected.                        *)

\* A sweep since the check may have taken the entry away; entry.count is then
\* a read through nil, the handler panics and net/http drops the request.
ApplyLoopDetected(r) ==
    /\ ~crashed /\ req[r].pc = "detected"
    /\ Answer(r, CASE req[r].key \notin DOMAIN table -> "panicked"
                   [] req[r].key \in DOMAIN table ->
                        CASE req[r].action = "refuse_429" -> "refused"
                          [] req[r].action = "inject_forcing_message" -> "injected"
                          [] OTHER -> "forwarded")
    /\ UNCHANGED <<defenders, now, table, crashed, log>>

\* getEntry reads the map while another request is inside checkLoop and
\* writes it (a new entry, or a sweep that deletes): the runtime may notice
\* and stop the process.
ConcurrentMapAccess(r, q) ==
    /\ ~crashed /\ req[r].pc = "detected"
    /\ req[q] = Idle
    /\ \E rt \in Routes, k \in Keys :
          LET c == GetLoopDetection(rt) IN
          /\ c.enabled
          /\ Swept(c.window) # table \/ ~Open(table, k, c.window)
    /\ crashed' = TRUE
    /\ UNCHANGED <<defenders, now, table, req, log>>

Tick ==
    /\ ~crashed /\ now < MaxTime
    /\ now' = now + 1
    /\ UNCHANGED <<defenders, table, req, crashed, log>>

Next ==
    \/ \E r \in Reqs, rt \in Routes :
          \/ RefuseZeroContent(r, rt)
          \/ \E noUser \in BOOLEAN : SkipLoopDetection(r, rt, noUser)
          \/ \E k \in Keys : CheckLoop(r, rt, k)
    \/ \E r \in Reqs : ApplyLoopDetected(r)
    \/ \E r, q \in Reqs : ConcurrentMapAccess(r, q)
    \/ Tick

Spec == Init /\ [][Next]_vars

-----------------------------------------------------------------------------
(* Properties.                                                             *)

\* An entry has counted at least one arrival and was opened in the past; a
\* request that carries a verdict carries a key and an action that is set.
TypeOK ==
    /\ defenders \in Setups
    /\ now \in 0 .. MaxTime
    /\ DOMAIN table \subseteq Keys
    /\ \A k \in DOMAIN table :
          table[k] \in [count : Nat \ {0}, firstSeen : 0 .. now, escaped : BOOLEAN]
    /\ \A r \in Reqs :
          \/ req[r] \in [pc : {"new", "forwarded", "injected", "refused",
                               "zeroContent", "panicked"}]
          \/ req[r].pc = "detected" /\ req[r].key \in Keys
             /\ req[r].action # ""
    /\ crashed \in BOOLEAN

\* The checks of entry i's key that fell within w ticks before it.
Recent(i, w) ==
    {h \in 1 .. i : log[h].key = log[i].key /\ log[i].at - log[h].at <= w}

\* checkLoop never accuses wrongly: a detected request is at least the
\* consecutive_threshold'th with its key within its route's window_seconds,
\* also when routes with other thresholds and windows share the entry, reset
\* its count and sweep the map.
NoFalseAlarm ==
    \A i \in DOMAIN log :
       LET c == GetLoopDetection(log[i].route) IN
       log[i].verdict # "none" => Cardinality(Recent(i, c.window)) >= c.threshold

\* The routes that detect loops agree on the threshold and the window.
Agreed(c) ==
    \A rt \in Routes :
       LET d == GetLoopDetection(rt) IN
       d.enabled => d.threshold = c.threshold /\ d.window = c.window

AtLeastOne(n) == IF n < 1 THEN 1 ELSE n

\* A loop cannot hide: the detector's windows are fixed and not sliding, so a
\* burst that straddles two of them may go unnoticed, but never by more than
\* twice the arrivals that a single window lets pass.
MissBound ==
    \A i \in DOMAIN log :
       LET c == GetLoopDetection(log[i].route) IN
       Agreed(c) =>
          Cardinality({h \in Recent(i, c.window) : log[h].verdict = "none"})
             <= 2 * AtLeastOne(c.threshold - 1)

\* The keys seen within w ticks before check i.
LiveAt(i, w) == {log[h].key : h \in {g \in 1 .. i : log[i].at - log[g].at <= w}}

\* The map outgrows a size at which checkLoop sweeps only if that many keys
\* were live in one window: stale entries alone never push it past the limit.
SweepBound ==
    \A rt \in Routes, m \in 1 .. Cardinality(Keys) :
       LET c == GetLoopDetection(rt)
           limit == m * CleanupEvery
       IN  /\ c.enabled /\ Agreed(c)
           /\ limit > CleanupMin
           /\ Cardinality(DOMAIN table) > limit
           => \E i \in DOMAIN log : Cardinality(LiveAt(i, c.window)) >= limit

\* The handler panics on the entry it looks up again only if another request's
\* check fell between its own and the lookup, of another key, when the map had
\* reached a size at which it is swept and the entry was older than the window
\* of that other request's route.
PanicLaw ==
    \A r \in Reqs : req[r].pc = "panicked" =>
       \E i, j \in DOMAIN log :
          /\ i < j /\ log[i].verdict # "none" /\ log[j].key # log[i].key
          /\ Cardinality({log[h].key : h \in 1 .. j - 1}) >= CleanupEvery
          /\ \E h \in 1 .. i :
                /\ log[h].key = log[i].key
                /\ log[j].at - log[h].at > GetLoopDetection(log[j].route).window

\* What LOAD-BALANCING.md asks for: once a request was detected, the
\* escalate_after'th further identical one is escalated.  Only arrivals within
\* one window of the key's first are considered.
Escalates ==
    \A i, j \in DOMAIN log :
       LET c == GetLoopDetection(log[j].route)
           Further == {h \in i + 1 .. j : log[h].key = log[i].key}
       IN  /\ log[i].key = log[j].key
           /\ log[i].verdict = "detected"
           /\ Cardinality(Further) >= c.escalateAfter
           /\ \A h \in 1 .. j : log[h].key = log[j].key => h \in Recent(j, c.window)
           => log[j].verdict = "escalated"
=============================================================================
