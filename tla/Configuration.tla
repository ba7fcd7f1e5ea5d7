----------------------------- MODULE Configuration -----------------------------
(***************************************************************************)
(* What a configuration file means: whether config.Load accepts it, where  *)
(* the router and the handler send a model of it, and which monitoring     *)
(* goroutines balancer.New starts for it (internal/config/config.go,       *)
(* internal/router/router.go, internal/balancer/balancer.go).              *)
(*                                                                         *)
(* A file is a record of                                                   *)
(*   parses     the file can be read, is YAML and its port ranges expand   *)
(*   blank      it has no YAML document: empty, or nothing but comments    *)
(*   backends   sequence of [id, group, def, usable]; usable: base_url is  *)
(*              set and the type is a known one                            *)
(*   routes     sequence of [model, backend, group, auto, text, vision,    *)
(*              prompts]; prompts: how many system_prompt operations       *)
(*   groups     the declared groups, each [health, alive, scrape,          *)
(*              negative]: whether its health checks, alive probes and     *)
(*              scrapes are enabled, and the interval of its health checks *)
(*              is below zero                                              *)
(*   passthrough   server.passthrough_unrouted                             *)
(*   listen     the TLS and plaintext settings of the two listeners        *)
(* "" is the empty name, as in the source.                                 *)
(***************************************************************************)
EXTENDS Integers, FiniteSets, Sequences

SetExt == INSTANCE FiniteSetsExt

Entry == [id : STRING, group : STRING, def : BOOLEAN, usable : BOOLEAN]
RouteEntry == [model : STRING, backend : STRING, group : STRING, auto : BOOLEAN,
               text : STRING, vision : STRING, prompts : Nat]
GroupSettings == [health : BOOLEAN, alive : BOOLEAN, scrape : BOOLEAN, negative : BOOLEAN]

\* The types Config, Backend, Route and Group of the source.
WellFormed(c) ==
    /\ {c.parses, c.blank, c.passthrough} \subseteq BOOLEAN
    /\ c.backends \in Seq(Entry) /\ c.routes \in Seq(RouteEntry)
    /\ DOMAIN c.groups \subseteq STRING
    /\ \A g \in DOMAIN c.groups : c.groups[g] \in GroupSettings
-----------------------------------------------------------------------------
(* Load and ValidateListenPolicy.                                          *)

validateBackends(bs) ==
    /\ \A i \in DOMAIN bs : bs[i].id # "" /\ bs[i].usable
    /\ Cardinality({i \in DOMAIN bs : bs[i].def}) <= 1

\* Mutated form: a route may name a backend that does not exist.
validateRoutesUnknown(rs, ids) ==
    /\ \A i \in DOMAIN rs :
         /\ rs[i].model # ""
         /\ ~(rs[i].backend # "" /\ rs[i].group # "")
         /\ rs[i].backend # "" \/ rs[i].group # "" \/ rs[i].auto
         /\ rs[i].auto => rs[i].text # "" /\ rs[i].vision # ""
         /\ rs[i].prompts <= 1
    /\ \A i, j \in DOMAIN rs : rs[i].model = rs[j].model => i = j

\* Neither a group's name nor the targets of an auto_route are looked up.
validateRoutes(rs, ids) ==
    /\ \A i \in DOMAIN rs :
         /\ rs[i].model # ""
         /\ ~(rs[i].backend # "" /\ rs[i].group # "")
         /\ rs[i].backend # "" \/ rs[i].group # "" \/ rs[i].auto
         /\ rs[i].backend # "" => rs[i].backend \in ids
         /\ rs[i].auto => rs[i].text # "" /\ rs[i].vision # ""
         /\ rs[i].prompts <= 1
    /\ \A i, j \in DOMAIN rs : rs[i].model = rs[j].model => i = j

\* An id may be listed twice.
BackendIDs(c) == {c.backends[i].id : i \in DOMAIN c.backends}

validate(c) == validateBackends(c.backends) /\ validateRoutes(c.routes, BackendIDs(c))

\* normalizeMapToList takes the first document of a file that parses, and panics
\* when there is none.
LoadPanics(c) == c.parses /\ c.blank

Loads(c) == c.parses /\ ~c.blank /\ validate(c)

ValidateListenPolicy(c) ==
    LET l == c.listen IN
    /\ l.tls \/ l.allowPlaintext
    /\ l.metrics => l.metricsTLS \/ l.loopback \/ l.metricsPlaintext

\* main starts, and a reload installs, what passes both.
Accepted(c) == Loads(c) /\ ValidateListenPolicy(c)
-----------------------------------------------------------------------------
(* Lookups: indices of c.backends, 0 for none.  The map of ids keeps the   *)
(* last entry of an id.                                                    *)

Backend(c, id) == SetExt!Max({0} \cup {i \in DOMAIN c.backends : c.backends[i].id = id})

DefaultBackend(c) ==
    LET marked == {i \in DOMAIN c.backends : c.backends[i].def} IN
    IF marked # {} THEN SetExt!Min(marked) ELSE IF c.backends # <<>> THEN 1 ELSE 0

GroupBackends(c, g) == {i \in DOMAIN c.backends : c.backends[i].group = g}

\* The entries of routeByModel for m: at most one once validated.
Route(c, m) == {c.routes[i] : i \in {j \in DOMAIN c.routes : c.routes[j].model = m}}
-----------------------------------------------------------------------------
(* Router.resolve and the routing part of the handler.                     *)

\* The route a request for m ends at: an auto route is followed once, a second
\* one is a cycle.  Empty for every error.
Target(c, m, vision) ==
    {r \in Route(c, m) : ~r.auto}
      \cup UNION {{t \in Route(c, IF vision THEN r.vision ELSE r.text) : ~t.auto} :
                    r \in {a \in Route(c, m) : a.auto}}

\* Routes whose backend or group is there to be used.
Resolvable(c, r) == IF r.group # "" THEN GroupBackends(c, r.group) # {}
                                    ELSE Backend(c, r.backend) # 0

resolve(c, m, vision) == {r \in Target(c, m, vision) : Resolvable(c, r)}

Balanced(c) == DOMAIN c.groups # {}

\* Where the handler sends a request that resolved to r: the entries of
\* c.backends it may forward to.  0 is the panic on the missing settings of a
\* group that is not declared while another one is.
Forwarded(c, r) ==
    IF r.group = "" THEN {Backend(c, r.backend)}
    ELSE IF ~Balanced(c) THEN {SetExt!Min(GroupBackends(c, r.group))}
    ELSE IF r.group \notin DOMAIN c.groups THEN {0}
    ELSE {Backend(c, c.backends[i].id) : i \in GroupBackends(c, r.group)}

\* The fate of a request for m: a status, a panic or the entry it is sent to.
Fates(c, m, vision) ==
    IF resolve(c, m, vision) # {}
    THEN {IF i = 0 THEN [panic |-> TRUE] ELSE [entry |-> i] :
            i \in UNION {Forwarded(c, r) : r \in resolve(c, m, vision)}}
    ELSE IF ~c.passthrough THEN {[status |-> 404]}
    ELSE IF DefaultBackend(c) = 0 THEN {[status |-> 503]}
    ELSE {[entry |-> DefaultBackend(c)]}
-----------------------------------------------------------------------------
(* What the file itself says.                                              *)

\* What validation leaves to the operator: ids are listed once, an auto route
\* leads to routes that are not automatic, and a route's group has a backend and
\* is declared when any is.
Sound(c) ==
    LET rs == {c.routes[i] : i \in DOMAIN c.routes} IN
    /\ Cardinality(BackendIDs(c)) = Len(c.backends)
    /\ \A r \in rs : r.auto => \A t \in {r.text, r.vision} : \E d \in Route(c, t) : ~d.auto
    /\ \A r \in rs : r.group # "" =>
         GroupBackends(c, r.group) # {} /\ (Balanced(c) => r.group \in DOMAIN c.groups)

\* The entries a route names.
Named(c, r) == {i \in DOMAIN c.backends :
                  IF r.group # "" THEN c.backends[i].group = r.group
                                  ELSE c.backends[i].id = r.backend}

\* What may become of a request for a model without a route: a 404, or with
\* passthrough the backend marked default, or the first one.
Unrouted(c, f) ==
    \/ ~c.passthrough /\ f = [status |-> 404]
    \/ c.passthrough /\ c.backends = <<>> /\ f = [status |-> 503]
    \/ c.passthrough /\ \E k \in DOMAIN c.backends :
         /\ f = [entry |-> k]
         /\ c.backends[k].def \/ (k = 1 /\ \A j \in DOMAIN c.backends : ~c.backends[j].def)

\* A request for m gets where the file says: to the backend, or a backend of the
\* group, that its route names, through at most one auto route, and no handler
\* panics.
Serves(c, m, vision) ==
    LET F == Fates(c, m, vision) IN
    /\ F # {}
    /\ \A r \in Route(c, m) :
         LET n == IF ~r.auto THEN m ELSE IF vision THEN r.vision ELSE r.text IN
         \E e \in Route(c, n) : ~e.auto /\ F \subseteq {[entry |-> k] : k \in Named(c, e)}
    /\ Route(c, m) = {} => \A f \in F : Unrouted(c, f)
-----------------------------------------------------------------------------
(* The goroutines balancer.New starts, as pairs of a backend id and a kind.*)
(* Group settings are met in map order: first[id] is the one met first for *)
(* a backend, up[id] whether its metrics answered the scrape of New.       *)

GroupsOf(c, id) ==
    {g \in DOMAIN c.groups : \E i \in GroupBackends(c, g) : c.backends[i].id = id}

BalancedIDs(c) == {id \in BackendIDs(c) : GroupsOf(c, id) # {}}

Scrapes(c, id) == \E g \in GroupsOf(c, id) : c.groups[g].scrape

\* A health check whose interval is negative (only 0 gets the default) is doomed:
\* time.NewTicker panics after its first probe.
startMonitoring(c, first, up) ==
    LET scraped == {id \in BalancedIDs(c) : Scrapes(c, id) /\ up[id]}
        checked == {id \in BalancedIDs(c) \ scraped : c.groups[first[id]].health}
        doomed  == {id \in checked : c.groups[first[id]].negative}
    IN scraped \X {"scrape"} \cup (checked \ doomed) \X {"health"} \cup doomed \X {"doomed"}

startAliveChecks(c, first) ==
    {id \in BalancedIDs(c) : c.groups[first[id]].alive} \X {"alive"}

\* Mutated form: a configured scrape counts as a probe.
startPassiveRecoveryUnscraped(c) ==
    {id \in BalancedIDs(c) : \A g \in GroupsOf(c, id) :
       ~c.groups[g].health /\ ~c.groups[g].alive /\ ~c.groups[g].scrape} \X {"passive"}

\* Every group is asked here, the first one only above.
startPassiveRecovery(c) ==
    {id \in BalancedIDs(c) : \A g \in GroupsOf(c, id) :
       ~c.groups[g].health /\ ~c.groups[g].alive} \X {"passive"}

\* All the sets of goroutines New may start.
Monitors(c) ==
    LET firsts == {f \in [BalancedIDs(c) -> DOMAIN c.groups] :
                     \A id \in BalancedIDs(c) : f[id] \in GroupsOf(c, id)}
        ups    == [BalancedIDs(c) -> BOOLEAN]
    IN {startMonitoring(c, f, up) \cup startAliveChecks(c, a) \cup startPassiveRecovery(c) :
          f \in firsts, a \in firsts, up \in ups}
=============================================================================
