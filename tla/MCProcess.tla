------------------------------- MODULE MCProcess -------------------------------
(***************************************************************************)
(* Files for the process, and a larger family of files on which the        *)
(* routing is checked against what the configuration says.                 *)
(***************************************************************************)
EXTENDS Process

Listed(id, g, def) == [id |-> id, group |-> g, def |-> def, usable |-> TRUE]

RouteTo(m, b, g)  == [model |-> m, backend |-> b, group |-> g, auto |-> FALSE,
                      text |-> "", vision |-> "", prompts |-> 0]
RouteAuto(m, t, v) == [model |-> m, backend |-> "", group |-> "", auto |-> TRUE,
                       text |-> t, vision |-> v, prompts |-> 0]

Plain == [tls |-> FALSE, allowPlaintext |-> TRUE, metrics |-> TRUE,
          metricsTLS |-> FALSE, loopback |-> TRUE, metricsPlaintext |-> FALSE]

File(bs, rs, gs, pass) ==
    [parses |-> TRUE, blank |-> FALSE, backends |-> bs, routes |-> rs, groups |-> gs,
     passthrough |-> pass, listen |-> Plain]

Group(h, a, s) == [health |-> h, alive |-> a, scrape |-> s, negative |-> FALSE]

\* No group; a group probed by scrapes only; one whose health checks become
\* scrapes, beside one with alive probes; a backend in two groups of which one
\* has no probe; a backend whose health checks have a negative interval; a file
\* that would bind the metrics in plain text; one with a route to a backend that
\* is not there; one with nothing in it.
Single == File(<<Listed("a", "", TRUE)>>, <<RouteTo("m", "a", "")>>, <<>>, FALSE)
Scraped == File(<<Listed("a", "g", FALSE)>>, <<RouteTo("m", "", "g")>>,
                [g |-> Group(FALSE, FALSE, TRUE)], FALSE)
Mixed == File(<<Listed("a", "g", FALSE), Listed("b", "h", FALSE)>>,
              <<RouteTo("m", "", "g")>>,
              [g |-> Group(TRUE, FALSE, TRUE), h |-> Group(FALSE, TRUE, FALSE)], FALSE)
Twice == File(<<Listed("a", "g", FALSE), Listed("a", "h", FALSE)>>,
              <<RouteTo("m", "", "g")>>,
              [g |-> Group(TRUE, FALSE, FALSE), h |-> Group(FALSE, FALSE, FALSE)], FALSE)
Rushed == [Scraped EXCEPT !.groups.g = [@ EXCEPT !.health = TRUE, !.negative = TRUE]]
Exposed == [Single EXCEPT !.listen.loopback = FALSE]
Dangling == [Single EXCEPT !.routes = <<RouteTo("m", "z", "")>>]

Blank == [Single EXCEPT !.blank = TRUE, !.backends = <<>>, !.routes = <<>>]

MCContents == {Single, Scraped, Mixed, Twice, Rushed, Exposed, Dangling, Blank}
-----------------------------------------------------------------------------
(* Routing on a family of files: up to two entries and two routes over two *)
(* ids, models and groups, with repeated, missing and unknown names.       *)

Entries(ids) == {Listed(id, g, def) : id \in ids, g \in {"", "g", "h"}, def \in BOOLEAN}
RoutesFor(m) ==
    {RouteTo(m, b, "") : b \in {"a", "b", "z"}} \cup {RouteTo(m, "", g) : g \in {"g", "h"}}
      \cup {RouteAuto(m, t, v) : t \in {"m", "n"}, v \in {"n", "x"}}

\* The first entry and the first route have the first name without loss.
Lists(heads, tails) == {<<>>} \cup {<<x>> : x \in heads} \cup {<<x, y>> : x \in heads, y \in tails}

MCFamily == {File(bs, rs, [g \in G |-> Group(TRUE, FALSE, FALSE)], pass) :
             bs \in Lists(Entries({"a"}), Entries({"a", "b"})),
             rs \in Lists(RoutesFor("m"), RoutesFor("m") \cup RoutesFor("n")),
             G \in SUBSET {"g", "h"}, pass \in BOOLEAN}

MCModels == {"m", "n", "x", "unrouted"}
=============================================================================
