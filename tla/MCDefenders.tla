----------------------------- MODULE MCDefenders -----------------------------
(* Configurations of the defenders for TLC.                                *)
EXTENDS Defenders, TLC

Loop(on, n, w, a, m) ==
    [enabled |-> on, threshold |-> n, window |-> w, action |-> a,
     escalateAfter |-> m, escalateAction |-> ""]
Zero(on, a) == [enabled |-> on, action |-> a]

Blocks(l, z) == [loop |-> l, zero |-> z]
None == Blocks(NoBlock, NoBlock)

Setup(g, a, b) == "global" :> g @@ "a" :> a @@ "b" :> b

\* Two is a loop on route a, and b detects none; routes that agree on what
\* a loop is and not on what to do; routes that agree on nothing; defaults.
Several ==
    {Setup(Blocks(Loop(TRUE, 2, 0, "", 1), NoBlock),
           None, Blocks(Loop(FALSE, 0, 0, "", 0), Zero(FALSE, ""))),
     Setup(Blocks(Loop(TRUE, 2, 0, "refuse_429", 0), Zero(TRUE, "")),
           None, Blocks(Loop(TRUE, 0, 0, "drain_to_idle", 1), NoBlock)),
     Setup(Blocks(Loop(FALSE, 2, 0, "", 0), NoBlock),
           Blocks(Loop(TRUE, 0, 2, "", 1), NoBlock),
           Blocks(Loop(TRUE, 3, 0, "", 0), Zero(TRUE, "flag"))),
     Setup(None, None, None)}

Defaults == {Setup(None, None, None)}

Symmetry == Permutations(Reqs) \cup Permutations(Keys)
=============================================================================
