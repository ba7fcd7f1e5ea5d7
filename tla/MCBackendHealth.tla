--------------------------- MODULE MCBackendHealth ---------------------------
(* The configurations of a group for TLC: those that probe its backends,   *)
(* and those that rely on passive recovery.                                *)
EXTENDS BackendHealth

Setup(h, s, a, slow) == [health |-> h, scrape |-> s, alive |-> a, slow |-> slow]

\* A health probe that may hand over to a scraper, and two probers at once.
Probed == {Setup(TRUE, TRUE, FALSE, FALSE), Setup(TRUE, FALSE, TRUE, FALSE)}

\* Nothing probes, with and without scraping, and requests may time out.
Unprobed == {Setup(FALSE, s, FALSE, TRUE) : s \in BOOLEAN}

All == Probed \cup Unprobed
=============================================================================
