------------------------------ MODULE MCStreamBody ------------------------------
(***************************************************************************)
(* Bodies of four lines: whole messages, repeated ends, counts that are    *)
(* never settled, lines without meaning, and one body with longer lines, an*)
(* empty one and a last one that never ends.                               *)
(***************************************************************************)
EXTENDS StreamBody

FourLines(a, b, c, d) == <<a, NL, b, NL, c, NL, d, NL>>

MCBodies == {
    FourLines("start", "usage", "stop", "done"),
    FourLines("text", "think", "text", "usage"),
    FourLines("start", "stop", "usage", "done"),
    FourLines("usage", "junk", "usage", "text"),
    <<"junk", "usage", NL, NL, "text", "text", NL, "stop">>}
=============================================================================
