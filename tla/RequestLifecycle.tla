--------------------------- MODULE RequestLifecycle ---------------------------
(***************************************************************************)
(* One proxied request from arrival to the release of its concurrency      *)
(* slot (Server.proxyRequest, modifyResponse and the reverse proxy's       *)
(* ErrorHandler), interleaved with other requests and with Server.Reload.  *)
(*                                                                         *)
(* The module is about the ACCOUNTING: every request moves counters that   *)
(* other requests steer by (a backend's InFlight and flow counters, the    *)
(* per-backend semaphores, the active-request gauge, the buffered bytes),  *)
(* through several return paths, while a reload replaces the objects the   *)
(* counters live in.  Which backend a group selects is left open here      *)
(* (Selection says which); bodies, headers and responses carry no data the *)
(* accounting depends on.                                                  *)
(*                                                                         *)
(* A configuration is named by its generation: generation 0 is the one the *)
(* server started with and each reload installs the next.  A balancer, a   *)
(* router and a semaphore map are named by the generation of the           *)
(* configuration they were built from.                                     *)
(***************************************************************************)
EXTENDS Integers, FiniteSets

CONSTANTS
    Reqs,      \* requests, each arriving once
    Backends,  \* backend ids over all configurations
    MaxGen,    \* bound: number of reloads
    Known,     \* Known[g]: the backends of configuration g
    Default,   \* Default[g]: its default backend, None = there is none
    Groups,    \* group names over all configurations
    Members,   \* Members[g][G]: its backends whose group field is G
    Declared,  \* Declared[g]: the groups it configures (cfg.Groups)
    MaxConc,   \* MaxConc[b]: max_concurrency, 0 = unlimited
    Routes     \* Routes[r]: the kinds of route request r may be for

Gens == 0 .. MaxGen
None == -1

ASSUME ConstantsAssumption ==
    /\ IsFiniteSet(Reqs)
    /\ MaxGen \in Nat
    /\ Known \in [Gens -> SUBSET Backends]
    /\ \A g \in Gens : Default[g] \in Known[g] \cup {None}
    /\ Members \in [Gens -> [Groups -> SUBSET Backends]]
    /\ \A g \in Gens, G \in Groups : Members[g][G] \subseteq Known[g]
    /\ \A g \in Gens, G, H \in Groups :
          G # H => Members[g][G] \cap Members[g][H] = {}
    /\ Declared \in [Gens -> SUBSET Groups]
    /\ MaxConc \in [Backends -> Nat]
    /\ Routes \in [Reqs -> SUBSET {"group", "direct", "passthrough"}]

VARIABLES
    rtrGen,     \* s.rtr, s.cfg, s.semaphores: generation each points to
    cfgGen,
    semGen,
    bal,        \* s.balancer: its generation, None = nil
    reload,     \* next step of Reload, "idle" when none runs
    pc,         \* where each request is
    route,      \* the kind of route it resolved to
    cfgOf,      \* cfg, the snapshot the handler took
    rtrOf,      \* generation of the router that produced res
    grp,        \* res.Group, the group its route names
    tgt,        \* backend id the request is bound to
    semOf,      \* generation of the semaphore captured by release
    inflight,   \* inflight[g][b]: BackendState.InFlight in balancer g
    dispatched, \* FlowStats.dispatched, FlowStats.completed
    completed,
    slots,      \* slots[g][b]: tokens in the semaphore channel
    active,     \* ActiveRequests gauge per backend
    buffered,   \* bufferedBytes, in bodies
    incGen,     \* history: balancer whose InFlight the request raised
    dspGen,     \* history: balancer that counted it as dispatched
    decGen      \* history: balancer that completed it, and lowered InFlight

pointers == <<rtrGen, cfgGen, semGen, bal, reload>>
snapshot == <<route, cfgOf, rtrOf, grp, tgt>>
flows    == <<inflight, dispatched, completed, incGen, dspGen, decGen>>
vars     == <<pointers, pc, snapshot, semOf, flows, slots, active, buffered>>

\* The ways a request can end: refused before any accounting, returning
\* early after a backend was chosen, panicking (before the body is buffered,
\* after the gauge was raised, or after the exchange), served.
Refused   == {"rejected"}
Abandoned == {"emptyRejected", "encodeFailed", "urlFailed", "slotCanceled"}
Panicked  == {"panicked", "recordPanicked", "settlePanicked"}
Ended     == Refused \cup Abandoned \cup Panicked \cup {"done"}
Working   == {"arrived", "loaded", "grouped", "selecting", "selected",
              "incremented", "prepared", "noBackend", "buffered", "recording",
              "admitted", "waiting", "upstream", "streaming", "completing",
              "invalidating", "returning", "aborting"}

Zero == [g \in Gens |-> [b \in Backends |-> 0]]

BalancerOf(g) == IF Declared[g] = {} THEN None ELSE g

\* The backends balancer g keeps a state for.
Balanced(g) == UNION {Members[g][G] : G \in Declared[g]}

Limited(g, b) == b \in Known[g] /\ MaxConc[b] > 0

Init ==
    /\ rtrGen = 0 /\ cfgGen = 0 /\ semGen = 0
    /\ bal = BalancerOf(0)
    /\ reload = "idle"
    /\ pc = [r \in Reqs |-> "arrived"]
    /\ route = [r \in Reqs |-> "none"]
    /\ cfgOf = [r \in Reqs |-> None]
    /\ rtrOf = [r \in Reqs |-> None]
    /\ grp = [r \in Reqs |-> None]
    /\ tgt = [r \in Reqs |-> None]
    /\ semOf = [r \in Reqs |-> None]
    /\ inflight = Zero /\ dispatched = Zero /\ completed = Zero
    /\ slots = Zero
    /\ active = [b \in Backends |-> 0]
    /\ buffered = 0
    /\ incGen = [r \in Reqs |-> None]
    /\ dspGen = [r \in Reqs |-> None]
    /\ decGen = [r \in Reqs |-> None]

Goto(r, here, there) == pc[r] = here /\ pc' = [pc EXCEPT ![r] = there]

-----------------------------------------------------------------------------
(* Server.Reload: a sequence of stores that requests see one by one.       *)

\* Mutated form: the configuration is stored before the router.
ReloadConfigFirst ==
    /\ reload = "idle" /\ cfgGen < MaxGen
    /\ cfgGen' = cfgGen + 1
    /\ reload' = "config"
    /\ UNCHANGED <<rtrGen, semGen, bal, pc, snapshot, semOf, flows, slots,
                   active, buffered>>

ReloadRouter ==
    /\ reload = "idle" /\ rtrGen < MaxGen
    /\ rtrGen' = rtrGen + 1
    /\ reload' = "config"
    /\ UNCHANGED <<cfgGen, semGen, bal, pc, snapshot, semOf, flows, slots,
                   active, buffered>>

ReloadConfig ==
    /\ reload = "config"
    /\ cfgGen' = rtrGen
    /\ reload' = "semaphores"
    /\ UNCHANGED <<rtrGen, semGen, bal, pc, snapshot, semOf, flows, slots,
                   active, buffered>>

ReloadSemaphores ==
    /\ reload = "semaphores"
    /\ semGen' = rtrGen
    /\ reload' = "balancer"
    /\ UNCHANGED <<rtrGen, cfgGen, bal, pc, snapshot, semOf, flows, slots,
                   active, buffered>>

\* balancer.New probes every backend before it returns, so requests run
\* against the new configuration and the old balancer for a while.
ReloadBalancer ==
    /\ reload = "balancer"
    /\ bal' = BalancerOf(rtrGen)
    /\ reload' = "idle"
    /\ UNCHANGED <<rtrGen, cfgGen, semGen, pc, snapshot, semOf, flows, slots,
                   active, buffered>>

Reload == ReloadRouter \/ ReloadConfig \/ ReloadSemaphores \/ ReloadBalancer
-----------------------------------------------------------------------------
(* Server.proxyRequest up to the choice of a backend.                      *)

\* Unreadable, oversized or invalid JSON body.
RejectBody(r) ==
    /\ Goto(r, "arrived", "rejected")
    /\ UNCHANGED <<pointers, snapshot, semOf, flows, slots, active, buffered>>

LoadConfig(r) ==
    /\ Goto(r, "arrived", "loaded")
    /\ cfgOf' = [cfgOf EXCEPT ![r] = cfgGen]
    /\ UNCHANGED <<pointers, route, rtrOf, grp, tgt, semOf, flows, slots,
                   active, buffered>>

\* Unknown model without passthrough, or a defender's short circuit.
Reject(r) ==
    /\ Goto(r, "loaded", "rejected")
    /\ rtrOf' = [rtrOf EXCEPT ![r] = rtrGen]
    /\ UNCHANGED <<pointers, route, cfgOf, grp, tgt, semOf, flows, slots,
                   active, buffered>>

Bind(r, kind, b) ==
    /\ Goto(r, "loaded", "prepared")
    /\ rtrOf' = [rtrOf EXCEPT ![r] = rtrGen]
    /\ route' = [route EXCEPT ![r] = kind]
    /\ tgt' = [tgt EXCEPT ![r] = b]
    /\ UNCHANGED <<pointers, cfgOf, grp, semOf, flows, slots, active, buffered>>

\* A single-backend route names a backend of the router's configuration;
\* nothing keeps that backend out of a group.
RouteDirect(r) ==
    /\ "direct" \in Routes[r]
    /\ \E b \in Known[rtrGen] : Bind(r, "direct", b)

\* passthrough_unrouted: the default backend of the cfg snapshot.
RoutePassthrough(r) ==
    /\ "passthrough" \in Routes[r]
    /\ pc[r] = "loaded"
    /\ Default[cfgOf[r]] # None
    /\ Bind(r, "passthrough", Default[cfgOf[r]])

\* The router asks for a backend with that group field, not for the group's
\* declaration.
RouteGroup(r) ==
    /\ "group" \in Routes[r]
    /\ Goto(r, "loaded", "grouped")
    /\ \E G \in Groups : /\ Members[rtrGen][G] # {}
                         /\ grp' = [grp EXCEPT ![r] = G]
    /\ rtrOf' = [rtrOf EXCEPT ![r] = rtrGen]
    /\ route' = [route EXCEPT ![r] = "group"]
    /\ UNCHANGED <<pointers, cfgOf, tgt, semOf, flows, slots, active, buffered>>

-----------------------------------------------------------------------------
(* The load-balancing block.  s.balancer is a plain field, read anew by    *)
(* the nil test, by Select, by Incr and by Dispatch.                       *)

\* No balancer: fall back to res.Backend, a member of the route's group.
SkipBalancer(r) ==
    /\ bal = None
    /\ Goto(r, "grouped", "prepared")
    /\ \E b \in Members[rtrOf[r]][grp[r]] : tgt' = [tgt EXCEPT ![r] = b]
    /\ route' = [route EXCEPT ![r] = "direct"]
    /\ UNCHANGED <<pointers, cfgOf, rtrOf, grp, semOf, flows, slots, active,
                   buffered>>

\* cfg.Groups[res.Group] is nil when the snapshot does not declare the group:
\* dereferencing it panics.
ReadGroupConfig(r) ==
    /\ bal # None
    /\ Goto(r, "grouped", IF grp[r] \in Declared[cfgOf[r]] THEN "selecting"
                                                           ELSE "panicked")
    /\ UNCHANGED <<pointers, snapshot, semOf, flows, slots, active, buffered>>

\* The backends Select can choose from: none if the balancer does not know
\* the group.
Pool(g, G) == IF G \in Declared[g] THEN Members[g][G] ELSE {}

\* Balancer.Select: some member of the group, as the balancer knows it.
Select(r) ==
    /\ bal # None
    /\ Goto(r, "selecting", "selected")
    /\ \E b \in Pool(bal, grp[r]) : tgt' = [tgt EXCEPT ![r] = b]
    /\ UNCHANGED <<pointers, route, cfgOf, rtrOf, grp, semOf, flows, slots,
                   active, buffered>>

\* selErr: the balancer's group is unknown or empty, 503.
SelectFails(r) ==
    /\ bal # None
    /\ Pool(bal, grp[r]) = {}
    /\ Goto(r, "selecting", "rejected")
    /\ UNCHANGED <<pointers, snapshot, semOf, flows, slots, active, buffered>>

\* Select, Incr or Dispatch finds that a reload dropped the balancer.
NilBalancer(r) ==
    /\ bal = None
    /\ \E s \in {"selecting", "selected", "incremented"} : Goto(r, s, "panicked")
    /\ UNCHANGED <<pointers, snapshot, semOf, flows, slots, active, buffered>>

\* Incr ignores an id the balancer does not have.
Incr(r) ==
    LET b == tgt[r] IN
    /\ bal # None
    /\ Goto(r, "selected", "incremented")
    /\ IF b \in Balanced(bal)
       THEN /\ inflight' = [inflight EXCEPT ![bal][b] = @ + 1]
            /\ incGen' = [incGen EXCEPT ![r] = bal]
       ELSE UNCHANGED <<inflight, incGen>>
    /\ UNCHANGED <<pointers, snapshot, semOf, dispatched, completed, dspGen,
                   decGen, slots, active, buffered>>

\* So does Dispatch; backend stays nil if the snapshot has no such backend.
Dispatch(r) ==
    LET b == tgt[r] IN
    /\ bal # None
    /\ Goto(r, "incremented", IF b \in Known[cfgOf[r]] THEN "prepared"
                                                       ELSE "noBackend")
    /\ IF b \in Balanced(bal)
       THEN /\ dispatched' = [dispatched EXCEPT ![bal][b] = @ + 1]
            /\ dspGen' = [dspGen EXCEPT ![r] = bal]
       ELSE UNCHANGED <<dispatched, dspGen>>
    /\ UNCHANGED <<pointers, snapshot, semOf, inflight, completed, incGen,
                   decGen, slots, active, buffered>>
-----------------------------------------------------------------------------
(* From a chosen backend to the upstream call.                             *)

\* The selected id is not in the cfg snapshot: backend is nil and the next
\* field access panics, unless the empty-message check answers first.
NoBackend(r) ==
    /\ \E end \in {"panicked", "emptyRejected"} : Goto(r, "noBackend", end)
    /\ UNCHANGED <<pointers, snapshot, semOf, flows, slots, active, buffered>>

\* checkEmptyMessages refuses the request.
RejectEmpty(r) ==
    /\ Goto(r, "prepared", "emptyRejected")
    /\ UNCHANGED <<pointers, snapshot, semOf, flows, slots, active, buffered>>

EncodeError(r) ==
    /\ Goto(r, "prepared", "encodeFailed")
    /\ UNCHANGED <<pointers, snapshot, semOf, flows, slots, active, buffered>>

Encode(r) ==
    /\ Goto(r, "prepared", "buffered")
    /\ buffered' = buffered + 1
    /\ UNCHANGED <<pointers, snapshot, semOf, flows, slots, active>>

InvalidURL(r) ==
    /\ Goto(r, "buffered", "urlFailed")
    /\ UNCHANGED <<pointers, snapshot, semOf, flows, slots, active, buffered>>

\* The gauge is raised and the balancer tested before it is asked for its
\* totals.
Admit(r) ==
    /\ Goto(r, "buffered", IF bal = None THEN "admitted" ELSE "recording")
    /\ active' = [active EXCEPT ![tgt[r]] = @ + 1]
    /\ UNCHANGED <<pointers, snapshot, semOf, flows, slots, buffered>>

\* TotalInFlight and AffinityCacheSize, on a balancer that may be gone.
Record(r) ==
    /\ Goto(r, "recording", IF bal = None THEN "recordPanicked" ELSE "admitted")
    /\ UNCHANGED <<pointers, snapshot, semOf, flows, slots, active, buffered>>

\* acquireSemaphore looks the channel up once.
Enqueue(r) ==
    /\ Goto(r, "admitted", "waiting")
    /\ semOf' = [semOf EXCEPT ![r] = semGen]
    /\ UNCHANGED <<pointers, snapshot, flows, slots, active, buffered>>

\* A send on the channel, or no channel at all.
AcquireSlot(r) ==
    LET g == semOf[r]
        b == tgt[r]
    IN
    /\ Goto(r, "waiting", "upstream")
    /\ IF Limited(g, b)
       THEN /\ slots[g][b] < MaxConc[b]
            /\ slots' = [slots EXCEPT ![g][b] = @ + 1]
       ELSE UNCHANGED slots
    /\ UNCHANGED <<pointers, snapshot, semOf, flows, active, buffered>>

\* The client goes away while the request queues for a slot.
CancelWait(r) ==
    /\ Goto(r, "waiting", "slotCanceled")
    /\ Limited(semOf[r], tgt[r])
    /\ active' = [active EXCEPT ![tgt[r]] = @ - 1]
    /\ UNCHANGED <<pointers, snapshot, semOf, flows, slots, buffered>>
-----------------------------------------------------------------------------
(* The end of the upstream exchange.                                       *)

\* Mutated form: Decr is left out.
CompleteOnly(r) ==
    LET b == tgt[r] IN
    /\ bal # None
    /\ Goto(r, "completing", "returning")
    /\ IF b \in Balanced(bal)
       THEN /\ completed' = [completed EXCEPT ![bal][b] = @ + 1]
            /\ decGen' = [decGen EXCEPT ![r] = bal]
       ELSE UNCHANGED <<completed, decGen>>
    /\ UNCHANGED <<pointers, snapshot, semOf, inflight, dispatched, incGen,
                   dspGen, slots, active, buffered>>

\* Balancer.CompleteAndDecr on whatever balancer is installed now, for every
\* request, whether or not the balancer dispatched it.  A failure of a
\* balanced request goes on to its pin.
CompleteAndDecr(r) ==
    LET b == tgt[r] IN
    /\ bal # None
    /\ \/ Goto(r, "completing", "returning")
       \/ route[r] = "group" /\ Goto(r, "completing", "invalidating")
    /\ IF b \in Balanced(bal)
       THEN /\ completed' = [completed EXCEPT ![bal][b] = @ + 1]
            /\ inflight' = [inflight EXCEPT ![bal][b] = @ - 1]
            /\ decGen' = [decGen EXCEPT ![r] = bal]
       ELSE UNCHANGED <<completed, inflight, decGen>>
    /\ UNCHANGED <<pointers, snapshot, semOf, dispatched, incGen, dspGen, slots,
                   active, buffered>>

\* The pin itself is Selection's.
InvalidatePin(r) ==
    /\ bal # None
    /\ Goto(r, "invalidating", "returning")
    /\ UNCHANGED <<pointers, snapshot, semOf, flows, slots, active, buffered>>

\* The balancer that passed the nil test is gone when it is used: the
\* handler panics, which still runs the deferred release.
NilAtEnd(r) ==
    /\ bal = None
    /\ \E s \in {"completing", "invalidating"} : Goto(r, s, "aborting")
    /\ UNCHANGED <<pointers, snapshot, semOf, flows, slots, active, buffered>>

\* What ErrorHandler, the buffered response and onClose begin with.
Settle(r, here) ==
    /\ Goto(r, here, IF bal = None THEN "returning" ELSE "completing")
    /\ buffered' = buffered - 1
    /\ active' = [active EXCEPT ![tgt[r]] = @ - 1]
    /\ UNCHANGED <<pointers, snapshot, semOf, flows, slots>>

\* Mutated form: an unreadable body is settled by modifyResponse too.
ErrorHandlerTwice(r) ==
    /\ Goto(r, "upstream", IF bal = None THEN "returning" ELSE "completing")
    /\ buffered' = buffered - 2
    /\ active' = [active EXCEPT ![tgt[r]] = @ - 1]
    /\ UNCHANGED <<pointers, snapshot, semOf, flows, slots>>

\* Transport error, client gone before the headers, or a buffered response
\* whose body could not be read (modifyResponse returns the error).
ErrorHandler(r) == Settle(r, "upstream")

\* Buffered (non-streaming or non-200) response: settled before it is copied.
BufferResponse(r) == Settle(r, "upstream")

\* Streaming 200: settled by onClose, when the copy ends.
StartStream(r) ==
    /\ Goto(r, "upstream", "streaming")
    /\ UNCHANGED <<pointers, snapshot, semOf, flows, slots, active, buffered>>

CloseStream(r) == Settle(r, "streaming")

\* How the handler leaves: normally, or by the panic of NilAtEnd.
Leave(r) == \/ Goto(r, "returning", "done")
            \/ Goto(r, "aborting", "settlePanicked")

\* Mutated form: release looks the semaphore map up again.
ReleaseCurrent(r) ==
    LET b == tgt[r] IN
    /\ Leave(r)
    /\ IF Limited(semGen, b) THEN slots' = [slots EXCEPT ![semGen][b] = @ - 1]
                             ELSE UNCHANGED slots
    /\ UNCHANGED <<pointers, snapshot, semOf, flows, active, buffered>>

\* Mutated form: the deferred release is forgotten.
ReleaseForgotten(r) ==
    /\ Leave(r)
    /\ UNCHANGED <<pointers, snapshot, semOf, flows, slots, active, buffered>>

\* ServeHTTP returned (or aborted): the deferred release runs.
Release(r) ==
    LET g == semOf[r]
        b == tgt[r]
    IN
    /\ Leave(r)
    /\ IF Limited(g, b) THEN slots' = [slots EXCEPT ![g][b] = @ - 1]
                        ELSE UNCHANGED slots
    /\ UNCHANGED <<pointers, snapshot, semOf, flows, active, buffered>>
-----------------------------------------------------------------------------
Choose(r)  == \/ RejectBody(r) \/ LoadConfig(r) \/ Reject(r)
              \/ RouteDirect(r) \/ RoutePassthrough(r) \/ RouteGroup(r)
              \/ SkipBalancer(r) \/ ReadGroupConfig(r) \/ Select(r)
              \/ SelectFails(r) \/ NilBalancer(r) \/ Incr(r) \/ Dispatch(r)
Forward(r) == \/ NoBackend(r) \/ RejectEmpty(r) \/ EncodeError(r)
              \/ Encode(r) \/ InvalidURL(r) \/ Admit(r) \/ Record(r)
              \/ Enqueue(r) \/ AcquireSlot(r)
Respond(r) == \/ ErrorHandler(r) \/ BufferResponse(r) \/ StartStream(r)
              \/ CloseStream(r) \/ CompleteAndDecr(r) \/ InvalidatePin(r)
              \/ NilAtEnd(r) \/ Release(r)

Serve(r) == Choose(r) \/ Forward(r) \/ Respond(r)

Next == Reload \/ \E r \in Reqs : Serve(r) \/ CancelWait(r)

\* A request's goroutine keeps running; an upstream exchange ends, because
\* the idle timeout or the client ends one that stalls.  Clients need not
\* cancel and nobody need reload.
Fairness == \A r \in Reqs : WF_vars(Serve(r))

Spec == Init /\ [][Next]_vars /\ Fairness
-----------------------------------------------------------------------------
(* Properties.                                                             *)

(* Every counter that is a count (semaphore tokens, gauge, buffered bodies, *)
(* dispatches) stays a natural number; InFlight alone may not.             *)
TypeOK ==
    /\ rtrGen \in Gens /\ cfgGen \in Gens /\ semGen \in Gens
    /\ bal \in Gens \cup {None}
    /\ reload \in {"idle", "config", "semaphores", "balancer"}
    /\ pc \in [Reqs -> Working \cup Ended]
    /\ route \in [Reqs -> {"none", "group", "direct", "passthrough"}]
    /\ cfgOf \in [Reqs -> Gens \cup {None}]
    /\ rtrOf \in [Reqs -> Gens \cup {None}]
    /\ grp \in [Reqs -> Groups \cup {None}]
    /\ tgt \in [Reqs -> Backends \cup {None}]
    /\ semOf \in [Reqs -> Gens \cup {None}]
    /\ inflight \in [Gens -> [Backends -> Int]]
    /\ dispatched \in [Gens -> [Backends -> Nat]]
    /\ completed \in [Gens -> [Backends -> Nat]]
    /\ slots \in [Gens -> [Backends -> Nat]]
    /\ active \in [Backends -> Nat]
    /\ buffered \in Nat
    /\ incGen \in [Reqs -> Gens \cup {None}]
    /\ dspGen \in [Reqs -> Gens \cup {None}]
    /\ decGen \in [Reqs -> Gens \cup {None}]

Outstanding(g, b) == {r \in Reqs : tgt[r] = b /\ incGen[r] = g /\ decGen[r] # g}
Unmatched(g, b)   == {r \in Reqs : tgt[r] = b /\ decGen[r] = g /\ incGen[r] # g}
DispatchedOnly(g, b)  == {r \in Reqs : tgt[r] = b /\ dspGen[r] = g /\ incGen[r] # g}
IncrementedOnly(g, b) == {r \in Reqs : tgt[r] = b /\ incGen[r] = g /\ dspGen[r] # g}

(* In every balancer the InFlight counter of a backend is the requests it  *)
(* counted and that did not come back to it, minus those that came back    *)
(* without having been counted (CompleteAndDecr on a direct route, or      *)
(* after a reload); and the stalled count dispatched - completed that      *)
(* overload detection reads differs from it by exactly the requests whose  *)
(* Incr and Dispatch a reload tore apart.  No return path counts twice.    *)
InFlightLaw ==
    \A g \in Gens, b \in Backends :
        /\ inflight[g][b] =
             Cardinality(Outstanding(g, b)) - Cardinality(Unmatched(g, b))
        /\ dispatched[g][b] - completed[g][b] =
             inflight[g][b] + Cardinality(DispatchedOnly(g, b))
                            - Cardinality(IncrementedOnly(g, b))

(* The tokens in a backend's semaphore are those of the requests between   *)
(* acquireSemaphore and the deferred release, never more than              *)
(* max_concurrency: no path releases twice, releases the wrong channel     *)
(* after a reload, or ends while holding a token.                          *)
Holding(g, b) == {r \in Reqs : /\ tgt[r] = b /\ semOf[r] = g /\ Limited(g, b)
                               /\ pc[r] \in {"upstream", "streaming", "completing",
                                             "invalidating", "returning", "aborting"}}
SemaphoreLaw ==
    \A g \in Gens, b \in Backends :
        /\ slots[g][b] = Cardinality(Holding(g, b))
        /\ MaxConc[b] > 0 => slots[g][b] <= MaxConc[b]

(* The ActiveRequests gauge of a backend counts the requests that queue    *)
(* for it or talk to it, on every path, the canceled wait and the unread   *)
(* body included, and for ever those that a reload made panic on their way *)
(* to the queue.                                                           *)
ActiveLaw ==
    \A b \in Backends :
        active[b] = Cardinality({r \in Reqs :
            /\ tgt[r] = b
            /\ pc[r] \in {"recording", "admitted", "waiting", "upstream",
                          "streaming", "recordPanicked"}})

(* The bufferedBytes counter is the bodies of the requests in flight plus  *)
(* those of the three ends that do not give theirs back: the unparsable    *)
(* URL, the canceled wait, and the panic over a balancer that a reload     *)
(* dropped between its nil test and its totals.                            *)
BufferedLaw ==
    buffered = Cardinality({r \in Reqs :
        pc[r] \in {"buffered", "recording", "admitted", "waiting", "upstream",
                   "streaming", "urlFailed", "slotCanceled", "recordPanicked"}})

(* A handler never combines an older router with a newer configuration:    *)
(* Reload stores the router first and the handler loads it last.           *)
SnapshotOrder == \A r \in Reqs : rtrOf[r] # None => cfgOf[r] <= rtrOf[r]

(* A request queued for a slot is served, canceled or answered: a slot is  *)
(* returned by every request that took one.                                *)
Served == \A r \in Reqs : pc[r] = "waiting" ~> pc[r] \in Ended

-----------------------------------------------------------------------------
(* What the code says of a reload and does not keep to (a finding of the   *)
(* project).                                                               *)

(* Reload "atomically swaps in a new config and router" and in-flight      *)
(* requests continue with the old one: no handler sees a mixture it cannot *)
(* handle.                                                                 *)
ReloadTransparent == \A r \in Reqs : pc[r] \notin Panicked
=============================================================================
