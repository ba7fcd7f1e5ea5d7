------------------------------- MODULE PinTable -------------------------------
(***************************************************************************)
(* What the balancer wants of an affinity store, without the linked list:  *)
(* a bounded table of pins, each with the time it was last seen.  A pin    *)
(* makes room for another only if no pin was seen longer ago.              *)
(***************************************************************************)
EXTENDS Integers, FiniteSets

CONSTANTS Keys, Backends, MaxSize, TTL

VARIABLES pins, now

vars == <<pins, now>>

Pin == [backend : Backends, seen : Nat]

Restricted(K) == [k \in K |-> pins[k]]

Oldest(k) == \A x \in DOMAIN pins : pins[k].seen <= pins[x].seen

Stamped(K, k, b) == [x \in K \cup {k} |-> IF x = k THEN [backend |-> b, seen |-> now]
                                                   ELSE pins[x]]

Init == pins = [k \in {} |-> 0] /\ now = 0

Tick == now' = now + 1 /\ UNCHANGED pins

\* (Re)pin k, in place of an oldest pin when the table is full.
Assign(k, b) ==
    /\ UNCHANGED now
    /\ \/ /\ k \in DOMAIN pins \/ Cardinality(DOMAIN pins) < MaxSize
          /\ pins' = Stamped(DOMAIN pins, k, b)
       \/ /\ k \notin DOMAIN pins /\ Cardinality(DOMAIN pins) = MaxSize
          /\ \E v \in DOMAIN pins :
                Oldest(v) /\ pins' = Stamped(DOMAIN pins \ {v}, k, b)
       \/ MaxSize = 0 /\ UNCHANGED pins

Refresh(k) ==
    /\ k \in DOMAIN pins
    /\ pins' = [pins EXCEPT ![k].seen = now]
    /\ UNCHANGED now

\* Unpinning, expiry and migration drop pins and change no other.
Drop(K) == pins' = Restricted(DOMAIN pins \ K) /\ UNCHANGED now

Next ==
    \/ Tick
    \/ \E k \in Keys, b \in Backends : Assign(k, b)
    \/ \E k \in Keys : Refresh(k) \/ Drop({k})
    \/ Drop({k \in DOMAIN pins : now - pins[k].seen > TTL})
    \/ \E B \in SUBSET Backends : Drop({k \in DOMAIN pins : pins[k].backend \notin B})

Spec == Init /\ [][Next]_vars
=============================================================================
