---------------------------- MODULE AffinityStore ----------------------------
(***************************************************************************)
(* inMemoryStore (internal/balancer/store.go): the affinity pins of one    *)
(* group, a map beside a doubly linked list that holds the same keys in    *)
(* order of use, most recent first.  Every operation runs under the        *)
(* store's mutex, so each is one action.                                   *)
(***************************************************************************)
EXTENDS Integers, Sequences, FiniteSets

CONSTANTS
    Keys,      \* affinity keys
    Backends,  \* backend ids
    MaxSize,   \* maxSize: affinity.max_entries
    TTL,       \* ttl
    MaxTime    \* bound: length of a run in clock ticks

ASSUME StoreAssumption == MaxSize \in Nat /\ TTL \in Nat /\ MaxTime \in Nat

VARIABLES
    entries,   \* entries: key -> [backend, seen]
    lru,       \* lru: the keys, front = most recently used
    now        \* time.Now()

store == <<entries, lru>>
vars  == <<entries, lru, now>>

Entry == [backend : Backends, seen : Nat]

Elems(l) == {l[i] : i \in 1 .. Len(l)}

\* The lists that removing the other elements one by one can leave: those
\* with exactly the elements K, in the order they have in l.
Sublists(l, K) ==
    {m \in UNION {[1 .. n -> K] : n \in 0 .. Len(l)} :
        /\ Elems(m) = K
        /\ \A i, j \in 1 .. Len(m) : i < j =>
              \E p, q \in 1 .. Len(l) : p < q /\ l[p] = m[i] /\ l[q] = m[j]}

Restricted(K) == [k \in K |-> entries[k]]

Init ==
    /\ entries = [k \in {} |-> 0]
    /\ lru = <<>>
    /\ now = 0

-----------------------------------------------------------------------------
\* Get: an entry older than the TTL is a miss, but stays in the table.
Fresh(k) == k \in DOMAIN entries /\ now - entries[k].seen <= TTL

MoveToFront(k) ==
    \E rest \in Sublists(lru, DOMAIN entries \ {k}) : lru' = <<k>> \o rest

\* Mutated form: re-pinning an existing key leaves the list alone.
SetInPlace(k, b) ==
    LET stamp == [backend |-> b, seen |-> now]
        front == <<k>> \o lru
        kept  == IF Len(front) <= MaxSize THEN front ELSE SubSeq(front, 1, MaxSize)
    IN
    IF k \in DOMAIN entries
    THEN /\ entries' = [entries EXCEPT ![k] = stamp]
         /\ UNCHANGED lru
    ELSE /\ lru' = kept
         /\ entries' = [x \in Elems(kept) |-> IF x = k THEN stamp ELSE entries[x]]

\* Set: an existing entry is overwritten and moved to the front; a new one
\* is pushed there and the tail evicted while the table is over capacity.
Set(k, b) ==
    LET stamp == [backend |-> b, seen |-> now]
        front == <<k>> \o lru
        kept  == IF Len(front) <= MaxSize THEN front ELSE SubSeq(front, 1, MaxSize)
    IN
    IF k \in DOMAIN entries
    THEN /\ entries' = [entries EXCEPT ![k] = stamp]
         /\ MoveToFront(k)
    ELSE /\ lru' = kept
         /\ entries' = [x \in Elems(kept) |-> IF x = k THEN stamp ELSE entries[x]]

Touch(k) ==
    IF k \in DOMAIN entries
    THEN entries' = [entries EXCEPT ![k].seen = now] /\ MoveToFront(k)
    ELSE UNCHANGED store

\* Take the keys of K out of the map and of the list.
Remove(K) ==
    /\ entries' = Restricted(DOMAIN entries \ K)
    /\ lru' \in Sublists(lru, DOMAIN entries \ K)

\* Mutated form: the list element is forgotten.
DeleteEntryOnly(k) ==
    /\ entries' = Restricted(DOMAIN entries \ {k})
    /\ UNCHANGED lru

Delete(k) == Remove({k})

EvictExpired == Remove({k \in DOMAIN entries : now - entries[k].seen > TTL})

Migrate(kept) == Remove({k \in DOMAIN entries : entries[k].backend \notin kept})

Tick == now < MaxTime /\ now' = now + 1 /\ UNCHANGED store
-----------------------------------------------------------------------------
Operation ==
    \/ \E k \in Keys, b \in Backends : Set(k, b)
    \/ \E k \in Keys : Touch(k) \/ Delete(k)
    \/ EvictExpired
    \/ \E kept \in SUBSET Backends : Migrate(kept)

Next == Tick \/ (Operation /\ UNCHANGED now)

Spec == Init /\ [][Next]_vars
-----------------------------------------------------------------------------
(* Properties.                                                             *)

(* The map and the list never hold a key outside the alphabet or an entry  *)
(* of another shape.                                                       *)
TypeOK ==
    /\ now \in Nat
    /\ DOMAIN entries \subseteq Keys
    /\ entries \in [DOMAIN entries -> Entry]
    /\ lru \in Seq(Keys)

(* Map and list hold the same keys, each once, whatever sequence of Set,   *)
(* Touch, Delete, EvictExpired and Migrate came before: an eviction finds  *)
(* the map entry of the list's tail, and a move finds its list element.    *)
MapListAgree ==
    /\ Elems(lru) = DOMAIN entries
    /\ \A i, j \in 1 .. Len(lru) : lru[i] = lru[j] => i = j

(* The table never exceeds max_entries between two operations. *)
Bounded == Cardinality(DOMAIN entries) <= MaxSize

(* The list is in order of LastSeen, so that the tail an over-full Set     *)
(* evicts is an entry nobody was seen before: no pin is lost while an      *)
(* older one stays.                                                        *)
RecencyOrder ==
    \A i, j \in 1 .. Len(lru) :
        i < j => entries[lru[i]].seen >= entries[lru[j]].seen

Table == INSTANCE PinTable WITH pins <- entries

(* The store implements the bounded table of pins: every operation maps to *)
(* one of PinTable's, evictions included.                                  *)
Implements == Table!Spec
=============================================================================
