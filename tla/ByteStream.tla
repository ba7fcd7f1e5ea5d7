------------------------------ MODULE ByteStream ------------------------------
(***************************************************************************)
(* What the reverse proxy wants of a streamed body, without the goroutine, *)
(* its channel and the bytes left over: the caller is given the backend's  *)
(* bytes from the first on, each once; the end the backend gave comes      *)
(* after the last of them; reading may instead end with a timeout; and the *)
(* request is settled once, when the body is closed.                       *)
(***************************************************************************)
EXTENDS Integers, Sequences

CONSTANTS Bytes, PSize

VARIABLES
    sent, end,       \* the backend: bytes it sent, how it ended
    given, outcome,  \* the caller: the bytes it has, the error that ended its reading
    gone,            \* the client has left
    told             \* how the request was settled

vars == <<sent, end, given, outcome, gone, told>>

Beginning(n) == [i \in 1 .. n |-> i]

Init == /\ sent = 0 /\ end = "none"
        /\ given = <<>> /\ outcome = "none"
        /\ gone = FALSE /\ told = <<>>

Send == /\ end = "none"
        /\ \/ sent < Bytes /\ sent' = sent + 1 /\ UNCHANGED end
           \/ end' \in {"eof", "reset", "netTimeout"} /\ UNCHANGED sent
        /\ UNCHANGED <<given, outcome, gone, told>>

Reading == outcome = "none" /\ told = <<>>

\* At most PSize bytes more, the end only behind the last byte sent.
Read(n) ==
    LET m == Len(given) + n IN
    /\ Reading /\ m <= sent
    /\ given' = Beginning(m)
    /\ outcome' \in {"none"} \cup (IF m = sent THEN {end} ELSE {})
    /\ UNCHANGED <<sent, end, gone, told>>

GiveUp == /\ Reading
          /\ outcome' = "timeout"
          /\ UNCHANGED <<sent, end, given, gone, told>>

\* The request to the backend is canceled, unless the backend has ended already.
Leave == /\ ~gone /\ told = <<>>
         /\ gone' = TRUE
         /\ end' = IF end = "none" THEN "canceled" ELSE end
         /\ UNCHANGED <<sent, given, outcome, told>>

\* A timeout is blamed on a client that left and on a connection that timed out;
\* every other end, a wait for the backend given up included, counts as success.
Close == /\ told = <<>>
         /\ told' = <<IF gone \/ outcome = "netTimeout" THEN "timeout" ELSE "success">>
         /\ UNCHANGED <<sent, end, given, outcome, gone>>

Next == Send \/ (\E n \in 0 .. PSize : Read(n)) \/ GiveUp \/ Leave \/ Close

Spec == Init /\ [][Next]_vars
=============================================================================
