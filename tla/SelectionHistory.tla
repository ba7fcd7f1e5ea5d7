---------------------------- MODULE SelectionHistory ----------------------------
(***************************************************************************)
(* Selection with, for each request under way, what has been true in every *)
(* state since it scanned the pool: the properties compare the backend it  *)
(* ends up with with that, because no single state of the run says what    *)
(* the request was entitled to.                                            *)
(***************************************************************************)
EXTENDS Selection

VARIABLE since   \* per request: [kept, settled, warming, cooling]

histVars == <<all, since>>

Good(b, k) ==
    healthy[b] /\ Usable(b) /\ Fresh(k) /\ entries[k].backend = b

Settled == {b \in Backends : healthy[b] /\ ~failing[b] /\ ~ramping[b]}
Warming == {b \in Backends : ramping[b]}
Cooling == {b \in Backends : failing[b]}

\* The backend k's pin rightly leads to, as a set.
KeptBy(k) == {b \in Backends : k \in Keys /\ Good(b, k)}

Now(r) == [kept |-> KeptBy(KeyOf[r]), settled |-> Settled,
           warming |-> Warming, cooling |-> Cooling]

Nothing == [kept |-> {}, settled |-> {}, warming |-> {}, cooling |-> {}]

\* What is in both.
Still(x, y) == [kept |-> x.kept \cap y.kept, settled |-> x.settled \cap y.settled,
                warming |-> x.warming \cap y.warming, cooling |-> x.cooling \cap y.cooling]

Watched == {"rescan", "pin", "count"} \cup Selecting

HInit == SelInit /\ since = [r \in Reqs |-> Nothing]

HNext ==
    /\ SelNext
    /\ since' = [r \in Reqs |->
          IF pc'[r] \notin Watched THEN Nothing
          ELSE IF pc[r] = "scan" THEN Now(r)'
          ELSE Still(since[r], Now(r)')]

HSpec == HInit /\ [][HNext]_histVars

Picked(r) == pc[r] \in {"pin", "count"}

(* A session keeps its backend: a request whose key has been pinned, since *)
(* it scanned the pool, to one backend that stayed healthy, out of         *)
(* cooldown and not overloaded is sent there, whatever other requests of   *)
(* the same key, scrapes and health changes did meanwhile.                 *)
SessionKept ==
    \A r \in Reqs : Picked(r) /\ Sticky => \A b \in since[r].kept : tgt[r] = b

(* With a settled backend to go to all along, a request is never sent to   *)
(* one that cooled down all along, and to one that ramped up all along     *)
(* only by its pin.                                                        *)
Sheltered ==
    \A r \in Reqs :
        Picked(r) /\ Sticky /\ since[r].settled # {}
          => /\ tgt[r] \notin since[r].cooling
             /\ tgt[r] \in since[r].warming => tgt[r] = pin[r]
=============================================================================
