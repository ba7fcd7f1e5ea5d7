------------------------------ MODULE MCCapture ------------------------------
(* Configurations of the capture for TLC: a window of two, the default     *)
(* window of one, and one that is refused for its size, without groups.    *)
EXTENDS Capture

Setting(m, grouped) == [enabled |-> TRUE, folder |-> "usable", max |-> m, groups |-> grouped]

ReloadedSettings ==
    [g \in Gens |-> CASE g = 0 -> Setting(2, TRUE)
                      [] g = 1 -> Setting(0, TRUE)
                      [] OTHER -> Setting(4, FALSE)]
=============================================================================
