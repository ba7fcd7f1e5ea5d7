---------------------------- MODULE BalancerProofs -----------------------------
(***************************************************************************)
(* Proofs about the affinity store and about the selection that uses it,   *)
(* for any requests, keys, backends, capacity, TTL, limits and strategy.   *)
(* The store comes first; its inductive invariant is the conjunction of    *)
(* the checked invariants with Past: no entry is stamped with a time to    *)
(* come.  Without it a fresh stamp at the front of the list would not be   *)
(* known to be the newest.  Then the control of the requests, from which   *)
(* follows that selection uses the store only through its operations, so   *)
(* that the store's theorems hold there, and what a session is entitled to.*)
(***************************************************************************)
EXTENDS SelectionHistory, SequenceTheorems, FiniteSetTheorems, TLAPS

Distinct(l) == \A i, j \in 1 .. Len(l) : l[i] = l[j] => i = j

Past == \A k \in DOMAIN entries : entries[k].seen <= now

SInv == TypeOK /\ MapListAgree /\ Bounded /\ RecencyOrder /\ Past
-----------------------------------------------------------------------------
(* Lists.                                                                  *)

\* A list has finitely many elements, no more than its length.
LEMMA ElemsFinite ==
  ASSUME NEW S, NEW l \in Seq(S)
  PROVE  /\ IsFiniteSet(Elems(l))
         /\ Cardinality(Elems(l)) <= Len(l)
<1>1. Len(l) \in Nat /\ l \in [1 .. Len(l) -> S]
  BY LenProperties
<1>2. l \in [1 .. Len(l) -> Elems(l)]
  BY <1>1 DEF Elems
<1>3. l \in Surjection(1 .. Len(l), Elems(l))
  BY <1>2 DEF Surjection, Elems
<1>4. IsFiniteSet(1 .. Len(l)) /\ Cardinality(1 .. Len(l)) = Len(l)
  BY <1>1, FS_Interval
<1> QED
  BY <1>3, <1>4, FS_Surjection

\* What a sublist of a list without repetitions is.
LEMMA SublistFacts ==
  ASSUME NEW S, NEW l \in Seq(S), Distinct(l), NEW K \in SUBSET S, NEW m \in Sublists(l, K)
  PROVE  /\ m \in Seq(K)
         /\ m \in Seq(S)
         /\ Elems(m) = K
         /\ Distinct(m)
         /\ \A i, j \in 1 .. Len(m) : i < j =>
               \E p, q \in 1 .. Len(l) : p < q /\ l[p] = m[i] /\ l[q] = m[j]
<1>0. Len(l) \in Nat
  BY LenProperties
<1>1. PICK n \in 0 .. Len(l) : m \in [1 .. n -> K]
  BY DEF Sublists
<1>2. m \in Seq(K)
  BY <1>0, <1>1, SeqDef
<1>3. m \in Seq(S)
  BY <1>2, SeqMonotonic
<1>4. Elems(m) = K
  BY DEF Sublists
<1>5. \A i, j \in 1 .. Len(m) : i < j =>
         \E p, q \in 1 .. Len(l) : p < q /\ l[p] = m[i] /\ l[q] = m[j]
  BY DEF Sublists
<1>6. Distinct(m)
  <2> SUFFICES ASSUME NEW i \in 1 .. Len(m), NEW j \in 1 .. Len(m), m[i] = m[j], i # j
               PROVE  FALSE
    BY DEF Distinct
  <2>1. Len(m) \in Nat
    BY <1>2, LenProperties
  <2>2. CASE i < j
    <3>1. PICK p, q \in 1 .. Len(l) : p < q /\ l[p] = m[i] /\ l[q] = m[j]
      BY <1>5, <2>2
    <3> QED
      BY <1>0, <3>1 DEF Distinct
  <2>3. CASE j < i
    <3>1. PICK p, q \in 1 .. Len(l) : p < q /\ l[p] = m[j] /\ l[q] = m[i]
      BY <1>5, <2>3
    <3> QED
      BY <1>0, <3>1 DEF Distinct
  <2> QED
    BY <2>1, <2>2, <2>3
<1> QED
  BY <1>2, <1>3, <1>4, <1>5, <1>6

\* A key that is not in a list without repetitions can be put in front of it.
LEMMA FrontFacts ==
  ASSUME NEW S, NEW k \in S, NEW m \in Seq(S), Distinct(m), k \notin Elems(m)
  PROVE  LET f == <<k>> \o m
         IN  /\ f \in Seq(S)
             /\ Len(f) = Len(m) + 1
             /\ f[1] = k
             /\ \A i \in 2 .. Len(f) : i - 1 \in 1 .. Len(m) /\ f[i] = m[i - 1]
             /\ Elems(f) = {k} \cup Elems(m)
             /\ Distinct(f)
<1> DEFINE f == <<k>> \o m
<1>0. Len(m) \in Nat
  BY LenProperties
<1>1. <<k>> \in Seq(S) /\ Len(<<k>>) = 1 /\ <<k>>[1] = k
  OBVIOUS
<1>2. /\ f \in Seq(S)
      /\ Len(f) = Len(m) + 1
      /\ \A i \in 1 .. 1 + Len(m) : f[i] = IF i <= 1 THEN <<k>>[i] ELSE m[i - 1]
  BY <1>1, ConcatProperties
<1>3. f[1] = k
  BY <1>0, <1>1, <1>2
<1>4. \A i \in 2 .. Len(f) : i - 1 \in 1 .. Len(m) /\ f[i] = m[i - 1]
  BY <1>0, <1>2
<1>5. Elems(f) = {k} \cup Elems(m)
  <2>1. ASSUME NEW x \in Elems(f) PROVE x \in {k} \cup Elems(m)
    <3>1. PICK i \in 1 .. Len(f) : x = f[i]
      BY <2>1 DEF Elems
    <3>2. i = 1 \/ i \in 2 .. Len(f)
      BY <1>0, <1>2
    <3> QED
      BY <1>3, <1>4, <3>1, <3>2 DEF Elems
  <2>2. k \in Elems(f)
    <3>1. 1 \in 1 .. Len(f)
      BY <1>0, <1>2
    <3> QED
      BY <1>3, <3>1 DEF Elems
  <2>3. ASSUME NEW x \in Elems(m) PROVE x \in Elems(f)
    <3>1. PICK i \in 1 .. Len(m) : x = m[i]
      BY <2>3 DEF Elems
    <3>2. i + 1 \in 1 .. Len(f) /\ i + 1 \in 2 .. Len(f) /\ (i + 1) - 1 = i
      BY <1>0, <1>2
    <3> QED
      BY <1>4, <3>1, <3>2 DEF Elems
  <2> QED
    BY <2>1, <2>2, <2>3
<1>6. Distinct(f)
  <2> SUFFICES ASSUME NEW i \in 1 .. Len(f), NEW j \in 1 .. Len(f), f[i] = f[j]
               PROVE  i = j
    BY DEF Distinct
  <2>0. \A x \in 1 .. Len(m) : m[x] # k
    BY DEF Elems
  <2>1. (i = 1 \/ i \in 2 .. Len(f)) /\ (j = 1 \/ j \in 2 .. Len(f))
    BY <1>0, <1>2
  <2>2. CASE i \in 2 .. Len(f) /\ j \in 2 .. Len(f)
    <3>1. i - 1 \in 1 .. Len(m) /\ j - 1 \in 1 .. Len(m) /\ m[i - 1] = m[j - 1]
      BY <1>4, <2>2
    <3>2. i - 1 = j - 1
      BY <3>1 DEF Distinct
    <3> QED
      BY <1>0, <1>2, <3>2
  <2> QED
    BY <1>3, <1>4, <2>0, <2>1, <2>2
<1> QED
  BY <1>2, <1>3, <1>4, <1>5, <1>6

\* So can a prefix of a list be taken.
LEMMA PrefixFacts ==
  ASSUME NEW S, NEW l \in Seq(S), Distinct(l), NEW n \in Nat, n <= Len(l)
  PROVE  LET p == SubSeq(l, 1, n)
         IN  /\ p \in Seq(S)
             /\ Len(p) = n
             /\ \A i \in 1 .. n : i \in 1 .. Len(l) /\ p[i] = l[i]
             /\ Elems(p) \subseteq Elems(l)
             /\ Distinct(p)
<1> DEFINE p == SubSeq(l, 1, n)
<1>0. Len(l) \in Nat /\ l \in [1 .. Len(l) -> S]
  BY LenProperties
<1>1. \A i \in 1 .. n : i \in 1 .. Len(l) /\ l[i] \in S
  BY <1>0
<1>2. /\ p \in Seq(S)
      /\ Len(p) = IF 1 <= n THEN n - 1 + 1 ELSE 0
      /\ \A i \in 1 .. n - 1 + 1 : p[i] = l[1 + i - 1]
  BY <1>1, SubSeqProperties
<1>3. Len(p) = n /\ \A i \in 1 .. n : p[i] = l[i]
  BY <1>2
<1>4. Elems(p) \subseteq Elems(l)
  BY <1>1, <1>3 DEF Elems
<1>5. Distinct(p)
  BY <1>1, <1>3 DEF Distinct
<1> QED
  BY <1>1, <1>2, <1>3, <1>4, <1>5
-----------------------------------------------------------------------------
(* Recency.                                                                *)

Ordered(l, e) == \A i, j \in 1 .. Len(l) : i < j => e[l[i]].seen >= e[l[j]].seen

\* A sublist of an ordered list is ordered.
LEMMA SublistOrdered ==
  ASSUME NEW S, NEW l \in Seq(S), Distinct(l), NEW K \in SUBSET S,
         NEW m \in Sublists(l, K), NEW e, Ordered(l, e)
  PROVE  Ordered(m, e)
<1>1. \A i, j \in 1 .. Len(m) : i < j =>
         \E p, q \in 1 .. Len(l) : p < q /\ l[p] = m[i] /\ l[q] = m[j]
  BY SublistFacts
<1> QED
  BY <1>1 DEF Ordered

\* A list stays ordered when only entries outside it change.
LEMMA OrderedSame ==
  ASSUME NEW S, NEW l \in Seq(S), NEW e, NEW f, Ordered(l, e),
         \A x \in Elems(l) : f[x].seen = e[x].seen
  PROVE  Ordered(l, f)
<1>1. \A i \in 1 .. Len(l) : l[i] \in Elems(l)
  BY DEF Elems
<1> QED
  BY <1>1 DEF Ordered

\* A key stamped with the present goes in front of an ordered list.
LEMMA FrontOrdered ==
  ASSUME SInv, NEW k \in Keys, NEW m \in Seq(Keys), Distinct(m), k \notin Elems(m),
         Elems(m) \subseteq DOMAIN entries, Ordered(m, entries), NEW e, e[k].seen = now,
         \A x \in Elems(m) : e[x].seen = entries[x].seen
  PROVE  Ordered(<<k>> \o m, e)
<1> DEFINE f == <<k>> \o m
<1>0. Len(m) \in Nat
  BY LenProperties
<1>1. /\ Len(f) = Len(m) + 1
      /\ f[1] = k
      /\ \A i \in 2 .. Len(f) : i - 1 \in 1 .. Len(m) /\ f[i] = m[i - 1]
  BY FrontFacts
<1>2. Ordered(m, e)
  BY OrderedSame
<1>3. \A i \in 1 .. Len(m) : m[i] \in Elems(m)
  BY DEF Elems
<1>4. \A i \in 2 .. Len(f) : e[f[i]].seen <= now
  BY <1>1, <1>3 DEF SInv, Past
<1> SUFFICES ASSUME NEW i \in 1 .. Len(f), NEW j \in 1 .. Len(f), i < j
             PROVE  e[f[i]].seen >= e[f[j]].seen
  BY DEF Ordered
<1>5. j \in 2 .. Len(f)
  BY <1>0, <1>1
<1>6. CASE i = 1
  <2>1. e[f[j]].seen \in Nat
    BY <1>1, <1>3, <1>5 DEF SInv, TypeOK, Entry
  <2> QED
    BY <1>1, <1>4, <1>5, <1>6, <2>1 DEF SInv, TypeOK
<1>7. CASE i # 1
  <2>1. i \in 2 .. Len(f) /\ i - 1 < j - 1
    BY <1>0, <1>1, <1>7
  <2> QED
    BY <1>1, <1>2, <1>5, <2>1 DEF Ordered
<1> QED
  BY <1>6, <1>7
-----------------------------------------------------------------------------
(* The operations.                                                         *)

\* The invariant in terms of lists: what the operations establish.
LEMMA Restate ==
  SInv <=> /\ TypeOK /\ Bounded /\ Past
           /\ Elems(lru) = DOMAIN entries /\ Distinct(lru)
           /\ Ordered(lru, entries)
  BY DEF SInv, MapListAgree, RecencyOrder, Distinct, Ordered

\* Likewise of the next state.
LEMMA RestateNext ==
  SInv' <=> /\ TypeOK' /\ Bounded' /\ Past'
            /\ Elems(lru') = DOMAIN entries' /\ Distinct(lru')
            /\ Ordered(lru', entries')
  BY DEF SInv, MapListAgree, RecencyOrder, Distinct, Ordered, Elems

\* Removing keys from map and list, as Delete, EvictExpired and Migrate do.
LEMMA RemoveKeeps ==
  ASSUME SInv, NEW K, Remove(K), UNCHANGED now
  PROVE  SInv'
<1> DEFINE D == DOMAIN entries \ K
<1>0. /\ TypeOK /\ Bounded /\ Past /\ Elems(lru) = DOMAIN entries
      /\ Distinct(lru) /\ Ordered(lru, entries)
  BY Restate
<1>1. entries' = [k \in D |-> entries[k]] /\ lru' \in Sublists(lru, D)
  BY DEF Remove, Restricted
<1>2. DOMAIN entries' = D /\ D \in SUBSET Keys /\ \A k \in D : entries'[k] = entries[k]
  BY <1>0, <1>1 DEF TypeOK
<1>3. lru \in Seq(Keys)
  BY <1>0 DEF TypeOK
<1>4. lru' \in Seq(Keys) /\ Elems(lru') = D /\ Distinct(lru')
  BY <1>0, <1>1, <1>2, <1>3, SublistFacts
<1>5. Ordered(lru', entries)
  BY <1>0, <1>1, <1>2, <1>3, SublistOrdered
<1>6. Ordered(lru', entries')
  BY <1>2, <1>4, <1>5, OrderedSame
<1>7. TypeOK' /\ Past'
  <2>1. entries' \in [DOMAIN entries' -> Entry]
    BY <1>0, <1>1, <1>2 DEF TypeOK
  <2> QED
    BY <1>0, <1>2, <1>4, <2>1 DEF TypeOK, Past
<1>8. Bounded'
  <2>1. IsFiniteSet(DOMAIN entries)
    BY <1>0, <1>3, ElemsFinite
  <2>2. IsFiniteSet(D) /\ Cardinality(D) <= Cardinality(DOMAIN entries)
    BY <2>1, FS_Subset
  <2>3. Cardinality(D) \in Nat /\ Cardinality(DOMAIN entries) \in Nat
    BY <2>1, <2>2, FS_CardinalityType
  <2> QED
    BY <1>0, <1>2, <2>2, <2>3, StoreAssumption DEF Bounded
<1> QED
  BY <1>2, <1>4, <1>6, <1>7, <1>8, RestateNext

\* Restamping a key that is in the table and moving it to the front.
LEMMA MoveToFrontKeeps ==
  ASSUME SInv, NEW k \in DOMAIN entries, NEW b \in Backends, MoveToFront(k),
         entries' = [entries EXCEPT ![k] = [backend |-> b, seen |-> now]],
         UNCHANGED now
  PROVE  SInv'
<1> DEFINE D == DOMAIN entries \ {k}
<1>0. /\ TypeOK /\ Bounded /\ Past /\ Elems(lru) = DOMAIN entries
      /\ Distinct(lru) /\ Ordered(lru, entries)
  BY Restate
<1>1. /\ DOMAIN entries' = DOMAIN entries
      /\ entries'[k] = [backend |-> b, seen |-> now]
      /\ \A x \in D : entries'[x] = entries[x]
  OBVIOUS
<1>2. PICK rest \in Sublists(lru, D) : lru' = <<k>> \o rest
  BY DEF MoveToFront
<1>3. lru \in Seq(Keys) /\ D \in SUBSET Keys /\ k \in Keys
  BY <1>0 DEF TypeOK
<1>4. rest \in Seq(Keys) /\ Elems(rest) = D /\ Distinct(rest)
  BY <1>0, <1>3, SublistFacts
<1>5. Ordered(rest, entries)
  BY <1>0, <1>3, SublistOrdered
<1>6. lru' \in Seq(Keys) /\ Elems(lru') = {k} \cup D /\ Distinct(lru')
  BY <1>2, <1>3, <1>4, FrontFacts
<1>7. entries'[k].seen = now /\ \A x \in Elems(rest) : entries'[x].seen = entries[x].seen
  BY <1>1, <1>4
<1>8. Ordered(<<k>> \o rest, entries')
  BY <1>3, <1>4, <1>5, <1>7, FrontOrdered
<1>9. TypeOK'
  BY <1>0, <1>1, <1>6 DEF TypeOK, Entry
<1>10. Past'
  BY <1>0, <1>1 DEF Past, TypeOK
<1>11. Bounded'
  BY <1>0, <1>1 DEF Bounded
<1> QED
  BY <1>1, <1>2, <1>6, <1>8, <1>9, <1>10, <1>11, RestateNext

\* What Set leaves of the list when it pushes a new key.
Kept(k) == LET front == <<k>> \o lru IN
           IF Len(front) <= MaxSize THEN front ELSE SubSeq(front, 1, MaxSize)

\* The list after a push and the evictions: the new key and, of the old ones,
\* the most recently used.
LEMMA KeptFacts ==
  ASSUME SInv, NEW k \in Keys \ DOMAIN entries
  PROVE  /\ Kept(k) \in Seq(Keys)
         /\ Distinct(Kept(k))
         /\ Len(Kept(k)) <= MaxSize
         /\ Elems(Kept(k)) \subseteq {k} \cup DOMAIN entries
         /\ \A e : Ordered(<<k>> \o lru, e) => Ordered(Kept(k), e)
<1> DEFINE f == <<k>> \o lru
<1>0. TypeOK /\ Elems(lru) = DOMAIN entries /\ Distinct(lru)
  BY Restate
<1>1. lru \in Seq(Keys) /\ k \notin Elems(lru)
  BY <1>0 DEF TypeOK
<1>2. f \in Seq(Keys) /\ Elems(f) = {k} \cup DOMAIN entries /\ Distinct(f)
  BY <1>0, <1>1, FrontFacts
<1>3. Len(f) \in Nat
  BY <1>2, LenProperties
<1>4. CASE Len(f) <= MaxSize
  BY <1>2, <1>4 DEF Kept
<1>5. CASE ~(Len(f) <= MaxSize)
  <2>1. Kept(k) = SubSeq(f, 1, MaxSize)
    BY <1>5 DEF Kept
  <2>2. MaxSize \in Nat /\ MaxSize <= Len(f)
    BY <1>3, <1>5, StoreAssumption
  <2> HIDE DEF f
  <2>3. /\ Kept(k) \in Seq(Keys)
        /\ Len(Kept(k)) = MaxSize
        /\ \A i \in 1 .. MaxSize : i \in 1 .. Len(f) /\ Kept(k)[i] = f[i]
        /\ Elems(Kept(k)) \subseteq Elems(f)
        /\ Distinct(Kept(k))
    BY <1>2, <2>1, <2>2, PrefixFacts
  <2>4. \A e : Ordered(f, e) => Ordered(Kept(k), e)
    BY <2>3 DEF Ordered
  <2>5. Len(Kept(k)) <= MaxSize /\ Elems(Kept(k)) \subseteq {k} \cup DOMAIN entries
    BY <1>2, <2>2, <2>3
  <2> QED
    BY <2>3, <2>4, <2>5, Zenon DEF f
<1> QED
  BY <1>4, <1>5

\* Pushing a new key.
LEMMA InsertKeeps ==
  ASSUME SInv, NEW k \in Keys \ DOMAIN entries, NEW b \in Backends,
         lru' = Kept(k),
         entries' = [x \in Elems(Kept(k)) |->
                       IF x = k THEN [backend |-> b, seen |-> now] ELSE entries[x]],
         UNCHANGED now
  PROVE  SInv'
<1>0. /\ TypeOK /\ Past /\ Elems(lru) = DOMAIN entries
      /\ Distinct(lru) /\ Ordered(lru, entries) /\ lru \in Seq(Keys)
  BY Restate DEF TypeOK
<1>1. /\ Kept(k) \in Seq(Keys)
      /\ Distinct(Kept(k))
      /\ Len(Kept(k)) <= MaxSize
      /\ Elems(Kept(k)) \subseteq {k} \cup DOMAIN entries
      /\ \A e : Ordered(<<k>> \o lru, e) => Ordered(Kept(k), e)
  BY KeptFacts
<1>2. DOMAIN entries' = Elems(Kept(k))
  OBVIOUS
<1>3. DOMAIN entries' \subseteq Keys
  BY <1>0, <1>1, <1>2 DEF TypeOK
<1>4. \A x \in DOMAIN entries' :
         entries'[x] = IF x = k THEN [backend |-> b, seen |-> now] ELSE entries[x]
  OBVIOUS
<1>5. \A x \in DOMAIN entries' : entries'[x] \in Entry /\ entries'[x].seen <= now
  BY <1>0, <1>1, <1>2, <1>4 DEF TypeOK, Past, Entry
<1>6. TypeOK' /\ Past'
  <2>1. entries' \in [DOMAIN entries' -> Entry]
    BY <1>2, <1>5
  <2> QED
    BY <1>0, <1>1, <1>3, <1>5, <2>1 DEF TypeOK, Past
<1>7. Ordered(lru', entries')
  <2> DEFINE e == [x \in {k} \cup DOMAIN entries |->
                     IF x = k THEN [backend |-> b, seen |-> now] ELSE entries[x]]
  <2>1. e[k].seen = now /\ \A x \in Elems(lru) : e[x].seen = entries[x].seen
    BY <1>0
  <2>2. Ordered(<<k>> \o lru, e)
    BY <1>0, <2>1, FrontOrdered
  <2>3. Ordered(Kept(k), e)
    BY <1>1, <2>2
  <2>4. \A x \in Elems(Kept(k)) : entries'[x].seen = e[x].seen
    BY <1>1
  <2> HIDE DEF e
  <2> QED
    BY <1>1, <2>3, <2>4, OrderedSame
<1>8. Bounded'
  <2>1. Len(Kept(k)) \in Nat /\ MaxSize \in Nat
    BY <1>1, LenProperties, StoreAssumption
  <2>2. IsFiniteSet(Elems(Kept(k))) /\ Cardinality(Elems(Kept(k))) <= Len(Kept(k))
    BY <1>1, ElemsFinite
  <2>3. Cardinality(Elems(Kept(k))) \in Nat
    BY <2>2, FS_CardinalityType
  <2> QED
    BY <1>1, <1>2, <2>1, <2>2, <2>3 DEF Bounded
<1> QED
  BY <1>1, <1>2, <1>6, <1>7, <1>8, RestateNext

\* Set, of a key that is in the table or not.
LEMMA SetKeeps ==
  ASSUME SInv, NEW k \in Keys, NEW b \in Backends, Set(k, b), UNCHANGED now
  PROVE  SInv'
<1>1. CASE k \in DOMAIN entries
  BY <1>1, MoveToFrontKeeps DEF Set
<1>2. CASE k \notin DOMAIN entries
  <2>1. /\ lru' = Kept(k)
        /\ entries' = [x \in Elems(Kept(k)) |->
                         IF x = k THEN [backend |-> b, seen |-> now] ELSE entries[x]]
    BY <1>2 DEF Set, Kept
  <2> QED
    BY <1>2, <2>1, InsertKeeps
<1> QED
  BY <1>1, <1>2

\* Touch restamps a key with the backend it has.
LEMMA TouchKeeps ==
  ASSUME SInv, NEW k \in Keys, Touch(k), UNCHANGED now
  PROVE  SInv'
<1>1. CASE k \in DOMAIN entries
  <2>1. entries[k] \in Entry
    BY <1>1 DEF SInv, TypeOK
  <2>2. entries[k].backend \in Backends
    BY <2>1 DEF Entry
  <2>3. entries' = [entries EXCEPT ![k] = [backend |-> entries[k].backend, seen |-> now]]
    BY <1>1, <2>1 DEF Touch, Entry
  <2> QED
    BY <1>1, <2>2, <2>3, MoveToFrontKeeps DEF Touch
<1>2. CASE k \notin DOMAIN entries
  BY <1>2 DEF Touch, store, SInv, TypeOK, MapListAgree, Bounded, RecencyOrder, Past
<1> QED
  BY <1>1, <1>2
-----------------------------------------------------------------------------
\* The empty store satisfies the invariant.
LEMMA InitSInv == Init => SInv
<1> SUFFICES ASSUME Init PROVE SInv
  OBVIOUS
<1>1. DOMAIN entries = {} /\ lru = <<>> /\ Len(lru) = 0 /\ now = 0
  BY DEF Init
<1>2. Elems(lru) = {}
  BY <1>1 DEF Elems
<1>3. TypeOK
  BY <1>1 DEF TypeOK, Init
<1>4. Bounded
  BY <1>1, FS_EmptySet, StoreAssumption DEF Bounded
<1> QED
  BY <1>1, <1>2, <1>3, <1>4 DEF SInv, MapListAgree, RecencyOrder, Past

\* Every operation and every tick preserves it.
LEMMA NextSInv == SInv /\ [Next]_vars => SInv'
<1> SUFFICES ASSUME SInv, [Next]_vars PROVE SInv'
  OBVIOUS
<1>1. CASE Tick
  <2>1. now \in Nat /\ now' = now + 1 /\ UNCHANGED <<entries, lru>>
    BY <1>1 DEF Tick, store, SInv, TypeOK
  <2>2. \A k \in DOMAIN entries : entries[k].seen \in Nat
    BY DEF SInv, TypeOK, Entry
  <2> QED
    BY <2>1, <2>2 DEF SInv, TypeOK, MapListAgree, Bounded, RecencyOrder, Past
<1>2. CASE Operation /\ UNCHANGED now
  <2>1. ASSUME NEW k \in Keys, NEW b \in Backends, Set(k, b) PROVE SInv'
    BY <1>2, <2>1, SetKeeps
  <2>2. ASSUME NEW k \in Keys, Touch(k) PROVE SInv'
    BY <1>2, <2>2, TouchKeeps
  <2>3. ASSUME NEW k \in Keys, Delete(k) PROVE SInv'
    BY <1>2, <2>3, RemoveKeeps DEF Delete
  <2>4. CASE EvictExpired
    BY <1>2, <2>4, RemoveKeeps DEF EvictExpired
  <2>5. ASSUME NEW kept \in SUBSET Backends, Migrate(kept) PROVE SInv'
    BY <1>2, <2>5, RemoveKeeps DEF Migrate
  <2> QED
    BY <1>2, <2>1, <2>2, <2>3, <2>4, <2>5 DEF Operation
<1>3. CASE UNCHANGED vars
  BY <1>3 DEF vars, SInv, TypeOK, MapListAgree, Bounded, RecencyOrder, Past
<1> QED
  BY <1>1, <1>2, <1>3 DEF Next

\* The conjunction is an invariant of the specification.
LEMMA SInvAlways == Spec => []SInv
  BY InitSInv, NextSInv, PTL DEF Spec

(* Map and list of the store hold well-typed keys and entries, whatever    *)
(* operations were called.                                                 *)
THEOREM TypeCorrect == Spec => []TypeOK
<1>1. SInv => TypeOK
  BY DEF SInv
<1> QED
  BY <1>1, SInvAlways, PTL

(* The map and the linked list of inMemoryStore never disagree.            *)
THEOREM MapListAgreeHolds == Spec => []MapListAgree
<1>1. SInv => MapListAgree
  BY DEF SInv
<1> QED
  BY <1>1, SInvAlways, PTL

(* The store never holds more than max_entries pins, for any max_entries.  *)
THEOREM BoundedHolds == Spec => []Bounded
<1>1. SInv => Bounded
  BY DEF SInv
<1> QED
  BY <1>1, SInvAlways, PTL

(* The list is always in order of LastSeen, so an eviction never drops a   *)
(* pin that was seen after one it keeps.                                   *)
THEOREM RecencyOrderHolds == Spec => []RecencyOrder
<1>1. SInv => RecencyOrder
  BY DEF SInv
<1> QED
  BY <1>1, SInvAlways, PTL
-----------------------------------------------------------------------------
(* The store implements PinTable.                                          *)

\* Without repetitions, a list is as long as its set of elements is large.
LEMMA ElemsCount ==
  ASSUME NEW S, NEW l \in Seq(S), Distinct(l)
  PROVE  Cardinality(Elems(l)) = Len(l)
<1>1. Len(l) \in Nat /\ l \in [1 .. Len(l) -> S]
  BY LenProperties
<1>2. l \in [1 .. Len(l) -> Elems(l)]
  BY <1>1 DEF Elems
<1>3. l \in Surjection(1 .. Len(l), Elems(l)) /\ l \in Injection(1 .. Len(l), Elems(l))
  BY <1>2 DEF Surjection, Injection, IsInjective, Elems, Distinct
<1>4. IsFiniteSet(1 .. Len(l)) /\ Cardinality(1 .. Len(l)) = Len(l)
  BY <1>1, FS_Interval
<1> QED
  BY <1>3, <1>4, FS_Surjection

\* A push into a full store evicts exactly the tail of the list, an entry
\* seen no later than any other.
LEMMA EvictsOldest ==
  ASSUME SInv, NEW k \in Keys \ DOMAIN entries, MaxSize > 0, Len(<<k>> \o lru) > MaxSize
  PROVE  /\ Cardinality(DOMAIN entries) = MaxSize
         /\ \E v \in DOMAIN entries :
              /\ Elems(Kept(k)) = (DOMAIN entries \ {v}) \cup {k}
              /\ \A x \in DOMAIN entries : entries[v].seen <= entries[x].seen
<1> DEFINE f == <<k>> \o lru
<1>0. /\ Bounded /\ Elems(lru) = DOMAIN entries /\ Distinct(lru)
      /\ Ordered(lru, entries) /\ lru \in Seq(Keys)
  BY Restate DEF TypeOK
<1>1. Len(lru) \in Nat /\ MaxSize \in Nat
  BY <1>0, LenProperties, StoreAssumption
<1>2. Cardinality(DOMAIN entries) = Len(lru)
  BY <1>0, ElemsCount
<1>3. /\ f \in Seq(Keys) /\ Len(f) = Len(lru) + 1 /\ f[1] = k /\ Distinct(f)
      /\ Elems(f) = {k} \cup DOMAIN entries
      /\ \A i \in 2 .. Len(f) : i - 1 \in 1 .. Len(lru) /\ f[i] = lru[i - 1]
  BY <1>0, FrontFacts
<1>4. Len(lru) = MaxSize
  BY <1>0, <1>1, <1>2, <1>3 DEF Bounded
<1>5. Kept(k) = SubSeq(f, 1, MaxSize) /\ MaxSize <= Len(f)
  BY <1>1, <1>3, <1>4 DEF Kept
<1> HIDE DEF f
<1>6. /\ Len(Kept(k)) = MaxSize
      /\ \A i \in 1 .. MaxSize : i \in 1 .. Len(f) /\ Kept(k)[i] = f[i]
  BY <1>1, <1>3, <1>5, PrefixFacts
<1> DEFINE n == MaxSize + 1
           v == f[n]
<1>7. n \in 2 .. Len(f) /\ n = Len(f) /\ n \in 1 .. Len(f)
  BY <1>1, <1>3, <1>4
<1>8. v = lru[MaxSize] /\ MaxSize \in 1 .. Len(lru) /\ v \in DOMAIN entries
  BY <1>0, <1>1, <1>3, <1>4, <1>7 DEF Elems
<1>9. Elems(Kept(k)) = (DOMAIN entries \ {v}) \cup {k}
  <2>1. ASSUME NEW x \in Elems(Kept(k)) PROVE x \in (DOMAIN entries \ {v}) \cup {k}
    <3>1. PICK i \in 1 .. MaxSize : x = Kept(k)[i]
      BY <1>6, <2>1 DEF Elems
    <3>2. x = f[i] /\ i \in 1 .. Len(f) /\ i # n
      BY <1>1, <1>6, <3>1
    <3>3. x # v
      BY <1>3, <1>7, <3>2 DEF Distinct
    <3>4. x \in Elems(f)
      BY <3>2 DEF Elems
    <3> QED
      BY <1>3, <3>3, <3>4
  <2>2. ASSUME NEW x \in (DOMAIN entries \ {v}) \cup {k} PROVE x \in Elems(Kept(k))
    <3>1. k # v
      BY <1>8
    <3>2. x \in Elems(f) /\ x # v
      BY <1>3, <2>2, <3>1
    <3>3. PICK i \in 1 .. Len(f) : x = f[i]
      BY <3>2 DEF Elems
    <3>4. i # n
      BY <3>2, <3>3
    <3>5. i \in 1 .. MaxSize
      BY <1>1, <1>7, <3>4
    <3> QED
      BY <1>6, <3>3, <3>5 DEF Elems
  <2> QED
    BY <2>1, <2>2
<1>10. \A x \in DOMAIN entries : entries[v].seen <= entries[x].seen
  <2> SUFFICES ASSUME NEW x \in DOMAIN entries PROVE entries[v].seen <= entries[x].seen
    OBVIOUS
  <2>1. PICK i \in 1 .. Len(lru) : x = lru[i]
    BY <1>0 DEF Elems
  <2>2. entries[v].seen \in Nat /\ entries[x].seen \in Nat
    BY <1>8 DEF SInv, TypeOK, Entry
  <2>3. i < MaxSize \/ i = MaxSize
    BY <1>1, <1>4
  <2> QED
    BY <1>0, <1>8, <2>1, <2>2, <2>3 DEF Ordered
<1> QED
  BY <1>2, <1>4, <1>8, <1>9, <1>10

\* Both modules count with the same Cardinality.
LEMMA TableCardinality == ASSUME NEW S PROVE Table!Cardinality(S) = Cardinality(S)
  BY DEF Table!Cardinality, Cardinality

\* Set is an Assign of the table.
LEMMA SetRefines ==
  ASSUME SInv, NEW k \in Keys, NEW b \in Backends, Set(k, b), UNCHANGED now
  PROVE  Table!Assign(k, b)
<1> DEFINE stamp == [backend |-> b, seen |-> now]
<1>0. entries \in [DOMAIN entries -> Entry] /\ MaxSize \in Nat
  BY StoreAssumption DEF SInv, TypeOK
<1>1. CASE k \in DOMAIN entries
  <2>1. entries' = [entries EXCEPT ![k] = stamp]
    BY <1>1 DEF Set
  <2>2. entries' = [x \in DOMAIN entries \cup {k} |-> IF x = k THEN stamp ELSE entries[x]]
    BY <1>0, <1>1, <2>1
  <2> QED
    BY <1>1, <2>2 DEF Table!Assign, Table!Stamped
<1>2. CASE k \notin DOMAIN entries
  <2>0. lru \in Seq(Keys) /\ Elems(lru) = DOMAIN entries /\ Distinct(lru) /\ Bounded
    BY Restate DEF TypeOK
  <2>1. entries' = [x \in Elems(Kept(k)) |-> IF x = k THEN stamp ELSE entries[x]]
    BY <1>2 DEF Set, Kept
  <2>2. /\ Len(<<k>> \o lru) = Len(lru) + 1 /\ Len(lru) \in Nat
        /\ Elems(<<k>> \o lru) = {k} \cup DOMAIN entries
    BY <1>2, <2>0, FrontFacts, LenProperties
  <2>3. Cardinality(DOMAIN entries) = Len(lru)
    BY <2>0, ElemsCount
  <2>4. CASE Len(<<k>> \o lru) <= MaxSize
    <3>1. Elems(Kept(k)) = DOMAIN entries \cup {k}
      BY <2>2, <2>4 DEF Kept
    <3>2. Cardinality(DOMAIN entries) < MaxSize
      BY <1>0, <2>2, <2>3, <2>4
    <3>3. entries' = [x \in DOMAIN entries \cup {k} |-> IF x = k THEN stamp ELSE entries[x]]
      BY <2>1, <3>1, Zenon
    <3>4. entries' = Table!Stamped(DOMAIN entries, k, b)
      BY <3>3, Zenon DEF Table!Stamped
    <3> QED
      BY <3>2, <3>4, TableCardinality DEF Table!Assign
  <2>5. CASE Len(<<k>> \o lru) > MaxSize /\ MaxSize > 0
    <3>1. Cardinality(DOMAIN entries) = MaxSize
      BY <1>2, <2>5, EvictsOldest
    <3>2. PICK v \in DOMAIN entries :
             /\ Elems(Kept(k)) = (DOMAIN entries \ {v}) \cup {k}
             /\ \A x \in DOMAIN entries : entries[v].seen <= entries[x].seen
      BY <1>2, <2>5, EvictsOldest
    <3>3. entries' = [x \in (DOMAIN entries \ {v}) \cup {k} |->
                        IF x = k THEN stamp ELSE entries[x]]
      BY <2>1, <3>2, Zenon
    <3>4. Table!Oldest(v)
      BY <3>2 DEF Table!Oldest
    <3>5. entries' = Table!Stamped(DOMAIN entries \ {v}, k, b)
      BY <3>3, Zenon DEF Table!Stamped
    <3> QED
      BY <1>2, <3>1, <3>4, <3>5, TableCardinality DEF Table!Assign
  <2>6. CASE Len(<<k>> \o lru) > MaxSize /\ MaxSize = 0
    <3>1. Len(lru) = 0
      BY <2>0, <2>2, <2>3, <2>6 DEF Bounded
    <3>2. DOMAIN entries = {}
      BY <2>0, <3>1 DEF Elems
    <3>3. Len(Kept(k)) <= 0 /\ Kept(k) \in Seq(Keys)
      BY <1>2, <2>6, KeptFacts
    <3>4. Len(Kept(k)) \in Nat
      BY <3>3, LenProperties
    <3>5. Elems(Kept(k)) = {}
      BY <3>3, <3>4 DEF Elems
    <3>6. entries' = entries
      BY <1>0, <2>1, <3>2, <3>5
    <3> QED
      BY <2>6, <3>6 DEF Table!Assign
  <2> QED
    BY <1>0, <2>2, <2>4, <2>5, <2>6
<1> QED
  BY <1>1, <1>2

\* Every step of the store is a step of the table, or changes nothing in it.
LEMMA StepRefines ==
  ASSUME SInv, [Next]_vars
  PROVE  [Table!Next]_(Table!vars)
<1>1. CASE Tick
  BY <1>1 DEF Tick, store, Table!Next, Table!Tick
<1>2. CASE Operation /\ UNCHANGED now
  <2>1. ASSUME NEW k \in Keys, NEW b \in Backends, Set(k, b) PROVE Table!Next
    BY <1>2, <2>1, SetRefines DEF Table!Next
  <2>2. ASSUME NEW k \in Keys, Touch(k) PROVE [Table!Next]_(Table!vars)
    <3>1. CASE k \in DOMAIN entries
      BY <1>2, <2>2, <3>1 DEF Touch, Table!Next, Table!Refresh
    <3>2. CASE k \notin DOMAIN entries
      BY <1>2, <2>2, <3>2 DEF Touch, store, Table!vars
    <3> QED
      BY <3>1, <3>2
  <2>3. ASSUME NEW k \in Keys, Delete(k) PROVE Table!Next
    BY <1>2, <2>3 DEF Delete, Remove, Restricted, Table!Next, Table!Drop, Table!Restricted
  <2>4. ASSUME EvictExpired PROVE Table!Next
    BY <1>2, <2>4
    DEF EvictExpired, Remove, Restricted, Table!Next, Table!Drop, Table!Restricted
  <2>5. ASSUME NEW kept \in SUBSET Backends, Migrate(kept) PROVE Table!Next
    BY <1>2, <2>5
    DEF Migrate, Remove, Restricted, Table!Next, Table!Drop, Table!Restricted
  <2> QED
    BY <1>2, <2>1, <2>2, <2>3, <2>4, <2>5 DEF Operation
<1>3. CASE UNCHANGED vars
  BY <1>3 DEF vars, Table!vars
<1> QED
  BY <1>1, <1>2, <1>3 DEF Next

(* The linked-list store implements the bounded table of pins for every    *)
(* capacity, zero included: whatever the list does, the table loses a pin  *)
(* to make room only if none was seen longer ago.                          *)
THEOREM Refinement == Spec => Implements
<1>1. Init => Table!Init
  BY DEF Init, Table!Init
<1>2. SInv /\ [Next]_vars => [Table!Next]_(Table!vars)
  BY StepRefines
<1> QED
  BY <1>1, <1>2, SInvAlways, PTL DEF Spec, Implements, Table!Spec
-----------------------------------------------------------------------------
(* Selection.                                                              *)

PCs == {"scan", "rescan"} \cup Selecting \cup Chosen

\* Steps only a request with a key and sticky selection gets to.
Keyed == {"lookup", "honour", "pin", "blame", "unpin"}

CtlType ==
    /\ strategy \in Strategies /\ turn \in Nat
    /\ pc \in [Reqs -> PCs]
    /\ pool \in [Reqs -> SUBSET Backends]
    /\ tgt \in [Reqs -> Backends \cup {None}]
    /\ failing \in [Backends -> BOOLEAN]

KeyedAt(r) == pc[r] \in Keyed => Sticky /\ KeyOf[r] \in Keys
ChosenAt(r) == pc[r] \in Chosen => tgt[r] \in Backends
PoolAt(r) == pc[r] \in Selecting => pool[r] # {}

Ctl == CtlType /\ \A r \in Reqs : KeyedAt(r) /\ ChosenAt(r) /\ PoolAt(r)
-----------------------------------------------------------------------------
\* The community module counts as the standard one does.
LEMMA SeqCardinality == ASSUME NEW S PROVE SeqExt!Cardinality(S) = Cardinality(S)
  BY DEF SeqExt!Cardinality, Cardinality

\* A list of a pool, in whatever order the map is ranged over.
LEMMA PoolLists ==
  ASSUME NEW P \in SUBSET Backends, P # {}, NEW s \in SeqExt!SetToSeqs(P)
  PROVE  Len(s) \in Nat \ {0} /\ s \in [1 .. Len(s) -> P]
<1>1. IsFiniteSet(P)
  BY SelectionAssumption, FS_Subset
<1>2. Cardinality(P) \in Nat \ {0}
  BY <1>1, FS_CardinalityType, FS_EmptySet
<1>3. s \in [1 .. Cardinality(P) -> P]
  BY SeqCardinality DEF SeqExt!SetToSeqs
<1>4. s \in Seq(P) /\ Len(s) = Cardinality(P)
  BY <1>2, <1>3
<1> QED
  BY <1>2, <1>3, <1>4

\* Whatever a Selector returns is in the pool it was given.
LEMMA ChoiceInPool ==
  ASSUME NEW P \in SUBSET Backends, P # {}, turn \in Nat, NEW b \in Choices(P),
         strategy \in Strategies
  PROVE  b \in P
<1>0. strategy \in {"single", "round_robin", "least_loaded", "sticky_least_loaded"}
  BY SelectionAssumption
<1>1. CASE strategy = "single"
  <2>1. PICK s \in SeqExt!SetToSeqs(P) : b = s[1]
    BY <1>1 DEF Choices, Sticky
  <2> QED
    BY <2>1, PoolLists
<1>2. CASE strategy = "round_robin"
  <2>1. PICK s \in SeqExt!SetToSeqs(P) : b = s[(turn % Len(s)) + 1]
    BY <1>2 DEF Choices, Sticky
  <2>2. Len(s) \in Nat \ {0} /\ s \in [1 .. Len(s) -> P]
    BY PoolLists
  <2>3. (turn % Len(s)) + 1 \in 1 .. Len(s)
    BY <2>2
  <2> QED
    BY <2>1, <2>2, <2>3
<1>3. CASE strategy = "least_loaded"
  BY <1>3 DEF Choices, Sticky, pickLeastLoaded
<1>4. CASE strategy = "sticky_least_loaded"
  BY <1>4 DEF Choices, Sticky, pickLeastLoaded, Tier
<1> QED
  BY <1>0, <1>1, <1>2, <1>3, <1>4
-----------------------------------------------------------------------------
(* The control of the requests.                                            *)

\* What remains to be shown of a step of request r.
LEMMA CtlStep ==
  ASSUME Ctl, NEW r \in Reqs, CtlType', strategy' = strategy,
         \A q \in Reqs \ {r} : pc'[q] = pc[q] /\ pool'[q] = pool[q] /\ tgt'[q] = tgt[q],
         (KeyedAt(r) /\ ChosenAt(r) /\ PoolAt(r))'
  PROVE  Ctl'
<1>1. ASSUME NEW q \in Reqs PROVE (KeyedAt(q) /\ ChosenAt(q) /\ PoolAt(q))'
  <2>1. CASE q = r
    BY <2>1
  <2>2. CASE q # r
    BY <2>2 DEF Ctl, KeyedAt, ChosenAt, PoolAt, Sticky
  <2> QED
    BY <2>1, <2>2
<1> QED
  BY <1>1 DEF Ctl

LEMMA FirstStepKeyed ==
  ASSUME NEW r \in Reqs
  PROVE  /\ FirstStep(r) \in {"lookup", "choose"}
         /\ FirstStep(r) = "lookup" => Sticky /\ KeyOf[r] \in Keys
  BY SelectionAssumption DEF FirstStep

LEMMA ScanCtl ==
  ASSUME Ctl, NEW r \in Reqs, Scan(r) \/ Rescan(r)
  PROVE  Ctl'
<1>0. CtlType
  BY DEF Ctl
<1>1. PICK P \in SUBSET Backends, s \in {"rescan", FirstStep(r)} :
        /\ pool' = [pool EXCEPT ![r] = P] /\ pc' = [pc EXCEPT ![r] = s]
        /\ s = "rescan" \/ P # {}
  BY DEF Scan, Rescan, Go
<1>2. UNCHANGED <<tgt, failing, strategy, turn>>
  BY DEF Scan, Rescan, health, chooser
<1>3. pc'[r] = s /\ pool'[r] = P /\ s \in {"rescan", "lookup", "choose"}
  BY <1>0, <1>1, FirstStepKeyed DEF CtlType
<1>4. CtlType'
  BY <1>0, <1>1, <1>2, <1>3 DEF CtlType, PCs, Selecting
<1>5. KeyedAt(r)'
  BY <1>1, <1>2, <1>3, FirstStepKeyed DEF KeyedAt, Keyed, Sticky
<1>6. ChosenAt(r)' /\ PoolAt(r)'
  BY <1>1, <1>3 DEF ChosenAt, PoolAt, Chosen, Selecting
<1> QED
  BY <1>0, <1>1, <1>2, <1>4, <1>5, <1>6, CtlStep DEF CtlType

LEMMA LookupCtl ==
  ASSUME Ctl, NEW r \in Reqs, Lookup(r)
  PROVE  Ctl'
<1>0. CtlType /\ KeyedAt(r) /\ PoolAt(r)
  BY DEF Ctl
<1>1. /\ pc[r] = "lookup" /\ pc' = [pc EXCEPT ![r] = "honour"]
      /\ UNCHANGED <<pool, tgt, failing, strategy, turn>>
  BY DEF Lookup, Go, health, chooser
<1>2. CtlType' /\ pc'[r] = "honour"
  BY <1>0, <1>1 DEF CtlType, PCs, Selecting
<1>3. (KeyedAt(r) /\ ChosenAt(r) /\ PoolAt(r))'
  BY <1>0, <1>1, <1>2 DEF KeyedAt, ChosenAt, PoolAt, Keyed, Chosen, Selecting, Sticky
<1> QED
  BY <1>0, <1>1, <1>2, <1>3, CtlStep DEF CtlType

LEMMA HonourCtl ==
  ASSUME Ctl, NEW r \in Reqs, Honour(r)
  PROVE  Ctl'
<1>0. CtlType /\ PoolAt(r)
  BY DEF Ctl
<1>1. pc[r] = "honour" /\ UNCHANGED <<pool, failing, strategy, turn>>
  BY DEF Honour, health, chooser
<1>2. \/ /\ pin[r] \in pool[r] /\ tgt' = [tgt EXCEPT ![r] = pin[r]]
         /\ pc' = [pc EXCEPT ![r] = "count"]
      \/ tgt' = tgt /\ pc' = [pc EXCEPT ![r] = "choose"]
  BY DEF Honour, Go
<1>3. pool[r] \subseteq Backends
  BY <1>0 DEF CtlType
<1>4. CtlType'
  BY <1>0, <1>1, <1>2, <1>3 DEF CtlType, PCs, Selecting, Chosen
<1>5. \/ pc'[r] = "count" /\ tgt'[r] \in Backends
      \/ pc'[r] = "choose"
  BY <1>0, <1>2, <1>3 DEF CtlType
<1>6. (KeyedAt(r) /\ ChosenAt(r) /\ PoolAt(r))'
  BY <1>0, <1>1, <1>5 DEF KeyedAt, ChosenAt, PoolAt, Keyed, Chosen, Selecting
<1> QED
  BY <1>0, <1>1, <1>2, <1>4, <1>6, CtlStep DEF CtlType

LEMMA ChooseCtl ==
  ASSUME Ctl, NEW r \in Reqs, Choose(r)
  PROVE  Ctl'
<1>0. CtlType /\ PoolAt(r)
  BY DEF Ctl
<1>1. PICK b \in Choices(pool[r]) : tgt' = [tgt EXCEPT ![r] = b]
  BY DEF Choose
<1>2. /\ pc[r] = "choose" /\ UNCHANGED <<pool, failing, strategy>>
      /\ pc' = [pc EXCEPT ![r] = IF FirstStep(r) = "lookup" THEN "pin" ELSE "count"]
      /\ turn' = IF strategy = "round_robin" THEN turn + 1 ELSE turn
  BY DEF Choose, Go, health
<1>3. b \in Backends
  BY <1>0, <1>2, ChoiceInPool DEF CtlType, PoolAt, Selecting
<1>4. CtlType'
  BY <1>0, <1>1, <1>2, <1>3 DEF CtlType, PCs, Chosen
<1>5. /\ pc'[r] = (IF FirstStep(r) = "lookup" THEN "pin" ELSE "count")
      /\ tgt'[r] \in Backends
  BY <1>0, <1>1, <1>2, <1>3 DEF CtlType
<1>6. (KeyedAt(r) /\ ChosenAt(r) /\ PoolAt(r))'
  BY <1>2, <1>5, FirstStepKeyed DEF KeyedAt, ChosenAt, PoolAt, Keyed, Chosen, Selecting, Sticky
<1> QED
  BY <1>0, <1>1, <1>2, <1>4, <1>6, CtlStep DEF CtlType

\* The steps after the choice.
LEMMA ChosenCtl ==
  ASSUME Ctl, NEW r \in Reqs, Pin(r) \/ Count(r) \/ Abandon(r) \/ Finish(r) \/ Blame(r) \/ Unpin(r)
  PROVE  Ctl'
<1>0. CtlType /\ ChosenAt(r) /\ KeyedAt(r)
  BY DEF Ctl
<1>1. UNCHANGED <<pool, tgt, strategy, turn>>
  BY DEF Pin, Count, Abandon, Finish, Blame, Unpin, chooser
<1>2. pc[r] \in Chosen
  BY DEF Pin, Count, Abandon, Finish, Blame, Unpin, Chosen
<1>3. PICK s \in {"count", "sent", "dropped", "strayed", "blame", "unpin", "failed", "done"} :
        /\ pc' = [pc EXCEPT ![r] = s]
        /\ s = "blame" => FirstStep(r) = "lookup"
        /\ s = "unpin" => pc[r] = "blame"
  BY DEF Pin, Count, Abandon, Finish, After, Blame, Unpin, Go
<1>4. failing' \in [Backends -> BOOLEAN]
  BY <1>0 DEF Pin, Count, Abandon, Finish, Blame, Unpin, health, CtlType
<1>5. CtlType' /\ pc'[r] = s
  BY <1>0, <1>1, <1>3, <1>4 DEF CtlType, PCs, Chosen
<1>6. (KeyedAt(r) /\ ChosenAt(r) /\ PoolAt(r))'
  BY <1>0, <1>1, <1>2, <1>3, <1>5, FirstStepKeyed
     DEF KeyedAt, ChosenAt, PoolAt, Keyed, Selecting, Sticky
<1> QED
  BY <1>0, <1>1, <1>3, <1>5, <1>6, CtlStep DEF CtlType

LEMMA BypassCtl ==
  ASSUME Ctl, NEW r \in Reqs, Bypass(r)
  PROVE  Ctl'
<1>0. CtlType
  BY DEF Ctl
<1>1. PICK b \in Backends : tgt' = [tgt EXCEPT ![r] = b]
  BY DEF Bypass
<1>2. UNCHANGED <<pool, failing, strategy, turn>> /\ pc' = [pc EXCEPT ![r] = "stray"]
  BY DEF Bypass, Go, health, chooser
<1>3. CtlType' /\ pc'[r] = "stray" /\ tgt'[r] \in Backends
  BY <1>0, <1>1, <1>2 DEF CtlType, PCs, Chosen
<1>4. (KeyedAt(r) /\ ChosenAt(r) /\ PoolAt(r))'
  BY <1>3 DEF KeyedAt, ChosenAt, PoolAt, Keyed, Selecting
<1> QED
  BY <1>0, <1>1, <1>2, <1>3, <1>4, CtlStep DEF CtlType

LEMMA InitCtl == SelInit => Ctl
  BY DEF SelInit, Ctl, CtlType, PCs, KeyedAt, ChosenAt, PoolAt, Keyed, Chosen, Selecting

LEMMA NextCtl == Ctl /\ [SelNext]_all => Ctl'
<1> SUFFICES ASSUME Ctl, [SelNext]_all PROVE Ctl'
  OBVIOUS
<1>1. ASSUME NEW r \in Reqs, Step(r) PROVE Ctl'
  BY <1>1, ScanCtl, LookupCtl, HonourCtl, ChooseCtl, BypassCtl, ChosenCtl DEF Step
<1>2. ASSUME UNCHANGED <<chooser, local>>, failing' \in [Backends -> BOOLEAN] PROVE Ctl'
  BY <1>2 DEF chooser, local, Ctl, CtlType, KeyedAt, ChosenAt, PoolAt, Sticky
<1>3. failing \in [Backends -> BOOLEAN]
  BY DEF Ctl, CtlType
<1>4. ASSUME NEW b \in Backends, HealthChange(b) \/ CoolDown(b) \/ Scrape(b) PROVE Ctl'
  BY <1>2, <1>3, <1>4 DEF HealthChange, CoolDown, Scrape
<1>5. CASE SelTick \/ UNCHANGED all
  BY <1>2, <1>3, <1>5 DEF SelTick, all, health
<1> QED
  BY <1>1, <1>4, <1>5 DEF SelNext

LEMMA AlwaysCtl == SelSpec => []Ctl
  BY InitCtl, NextCtl, PTL DEF SelSpec

\* With any number of backends, all of which may change their health between the
\* two passes of Balancer.Select, the Selector gets a backend to choose from.
THEOREM NeverEmptyHolds == SelSpec => []NeverEmpty
<1>1. Ctl => NeverEmpty
  BY DEF Ctl, PoolAt, NeverEmpty
<1> QED
  BY <1>1, AlwaysCtl, PTL
-----------------------------------------------------------------------------
(* The store under selection.                                              *)

\* Selection calls the store's operations and nothing else, with keys and backends
\* of its alphabet: what is true of every use of the store is true here.
THEOREM StoreUse == SelSpec => Spec
<1>1. SelInit => Init
  BY DEF SelInit
<1>2. ASSUME Ctl, [SelNext]_all PROVE [Next]_vars
  <2> USE DEF vars, store
  <2>1. ASSUME NEW r \in Reqs, Step(r) PROVE [Next]_vars
    <3>0. KeyedAt(r) /\ ChosenAt(r)
      BY <1>2 DEF Ctl
    <3>1. CASE Honour(r)
      <4>1. now' = now /\ (Touch(KeyOf[r]) \/ UNCHANGED store) /\ KeyOf[r] \in Keys
        BY <3>0, <3>1 DEF Honour, KeyedAt, Keyed
      <4> QED
        BY <4>1 DEF Next, Operation
    <3>2. CASE Pin(r)
      <4>1. /\ now' = now /\ (Set(KeyOf[r], tgt[r]) \/ UNCHANGED store)
            /\ KeyOf[r] \in Keys /\ tgt[r] \in Backends
        BY <3>0, <3>2 DEF Pin, KeyedAt, Keyed, ChosenAt, Chosen
      <4> QED
        BY <4>1 DEF Next, Operation
    <3>3. CASE Unpin(r)
      <4>1. now' = now /\ Delete(KeyOf[r]) /\ KeyOf[r] \in Keys
        BY <3>0, <3>3 DEF Unpin, KeyedAt, Keyed
      <4> QED
        BY <4>1 DEF Next, Operation
    <3>4. CASE Scan(r) \/ Rescan(r) \/ Lookup(r) \/ Choose(r)
      BY <3>4 DEF Scan, Rescan, Lookup, Choose
    <3>5. CASE Count(r) \/ Bypass(r) \/ Abandon(r) \/ Finish(r) \/ Blame(r)
      BY <3>5 DEF Count, Bypass, Abandon, Finish, Blame
    <3> QED
      BY <2>1, <3>1, <3>2, <3>3, <3>4, <3>5 DEF Step
  <2>2. ASSUME NEW b \in Backends, HealthChange(b) \/ CoolDown(b) \/ Scrape(b)
        PROVE  [Next]_vars
    BY <2>2 DEF HealthChange, CoolDown, Scrape
  <2>3. CASE SelTick \/ UNCHANGED all
    BY <2>3 DEF SelTick, Next, all
  <2> QED
    BY <1>2, <2>1, <2>2, <2>3 DEF SelNext
<1> QED
  BY <1>1, <1>2, AlwaysCtl, PTL DEF SelSpec, Spec

LEMMA AlwaysStore == SelSpec => []SInv
  BY StoreUse, SInvAlways, PTL
-----------------------------------------------------------------------------
(* The counters.                                                           *)

Flows == [dispatched : Nat, completed : Nat, success : Nat, timeout : Nat]

\* Requests dispatched to b and not completed: on their way or given up by the
\* handler after Dispatch.
Open(b) == {r \in Reqs : pc[r] \in {"sent", "dropped"} /\ tgt[r] = b}

\* Requests completed on b that were never dispatched to it.
Strayed(b) == {r \in Reqs : pc[r] = "strayed" /\ tgt[r] = b}

CountType == inflight \in [Backends -> Int] /\ flow \in [Backends -> Flows]

CountAt(b) ==
    /\ inflight[b] = Cardinality(Open(b)) - Cardinality(Strayed(b))
    /\ flow[b].dispatched - flow[b].completed = inflight[b]
    /\ flow[b].success + flow[b].timeout <= flow[b].completed

Counted == CountType /\ \A b \in Backends : CountAt(b)

LEMMA OpenFinite ==
  ASSUME NEW b
  PROVE  /\ IsFiniteSet(Open(b)) /\ Cardinality(Open(b)) \in Nat
         /\ IsFiniteSet(Strayed(b)) /\ Cardinality(Strayed(b)) \in Nat
<1>1. Open(b) \subseteq Reqs /\ Strayed(b) \subseteq Reqs
  BY DEF Open, Strayed
<1>2. IsFiniteSet(Open(b)) /\ IsFiniteSet(Strayed(b))
  BY <1>1, SelectionAssumption, FS_Subset
<1> QED
  BY <1>2, FS_CardinalityType

LEMMA InitCounted == SelInit => Counted
<1> SUFFICES ASSUME SelInit PROVE Counted
  OBVIOUS
<1>1. CountType
  BY DEF SelInit, CountType, Flows
<1>2. ASSUME NEW b \in Backends PROVE CountAt(b)
  <2>1. Open(b) = {} /\ Strayed(b) = {}
    BY DEF SelInit, Open, Strayed
  <2>2. Cardinality(Open(b)) = 0 /\ Cardinality(Strayed(b)) = 0
    BY <2>1, FS_EmptySet
  <2> QED
    BY <2>2 DEF SelInit, CountAt
<1> QED
  BY <1>1, <1>2 DEF Counted

\* A step that leaves the counters leaves the requests they count.
LEMMA CountsKept ==
  ASSUME Counted, UNCHANGED <<inflight, flow>>,
         \A q \in Reqs : /\ pc'[q] \in {"sent", "dropped"} <=> pc[q] \in {"sent", "dropped"}
                         /\ pc'[q] = "strayed" <=> pc[q] = "strayed"
                         /\ pc[q] \in {"sent", "dropped", "strayed"} => tgt'[q] = tgt[q]
  PROVE  Counted'
<1>1. ASSUME NEW b \in Backends PROVE Open(b)' = Open(b) /\ Strayed(b)' = Strayed(b)
  BY DEF Open, Strayed
<1>2. ASSUME NEW b \in Backends PROVE CountAt(b)'
  BY <1>1 DEF Counted, CountAt
<1> QED
  BY <1>2 DEF Counted, CountType

LEMMA CountCounted ==
  ASSUME Ctl, Counted, NEW r \in Reqs, Count(r)
  PROVE  Counted'
<1>t. PICK t \in Backends : t = tgt[r]
  BY DEF Ctl, ChosenAt, Chosen, Count
<1>0. CtlType /\ CountType
  BY DEF Ctl, Counted
<1>1. /\ pc[r] = "count" /\ pc' = [pc EXCEPT ![r] = "sent"] /\ tgt' = tgt
      /\ inflight' = [inflight EXCEPT ![t] = @ + 1]
      /\ flow' = [flow EXCEPT ![t].dispatched = @ + 1]
  BY <1>t DEF Count, Go
<1>2. /\ pc'[r] = "sent" /\ tgt'[r] = t
      /\ \A q \in Reqs \ {r} : pc'[q] = pc[q]
  BY <1>t, <1>0, <1>1 DEF CtlType
<1>3. /\ inflight' \in [Backends -> Int] /\ inflight'[t] = inflight[t] + 1
      /\ \A b \in Backends \ {t} : inflight'[b] = inflight[b]
  BY <1>0, <1>1 DEF CountType
<1>4. flow[t] \in Flows /\ inflight[t] \in Int
  BY <1>0 DEF CountType
<1>5. /\ flow'[t] = [flow[t] EXCEPT !.dispatched = @ + 1]
      /\ \A b \in Backends \ {t} : flow'[b] = flow[b]
      /\ flow' \in [Backends -> Flows]
  <2>1. [flow[t] EXCEPT !.dispatched = @ + 1] \in Flows
    BY <1>4 DEF Flows
  <2> QED
    BY <1>0, <1>1, <2>1 DEF CountType
<1>6. /\ flow'[t].dispatched = flow[t].dispatched + 1
      /\ flow'[t].completed = flow[t].completed
      /\ flow'[t].success = flow[t].success /\ flow'[t].timeout = flow[t].timeout
  BY <1>4, <1>5 DEF Flows
<1>7. ASSUME NEW b \in Backends PROVE Strayed(b)' = Strayed(b)
  BY <1>1, <1>2 DEF Strayed
<1>8. ASSUME NEW b \in Backends PROVE CountAt(b)'
  <2>0. CountAt(b)
    BY DEF Counted
  <2>1. CASE b = t
    <3>1. Open(t)' = Open(t) \cup {r} /\ r \notin Open(t)
      BY <1>t, <1>1, <1>2 DEF Open
    <3>2. Cardinality(Open(t)') = Cardinality(Open(t)) + 1
      BY <3>1, OpenFinite, FS_AddElement
    <3>3. Cardinality(Open(t)) \in Nat /\ Cardinality(Strayed(t)) \in Nat
      BY OpenFinite
    <3>4. inflight'[t] = Cardinality(Open(t)') - Cardinality(Strayed(t)')
      BY <2>0, <2>1, <3>2, <3>3, <1>3, <1>7 DEF CountAt
    <3>5. /\ flow'[t].dispatched - flow'[t].completed = inflight'[t]
          /\ flow'[t].success + flow'[t].timeout <= flow'[t].completed
      BY <2>0, <2>1, <1>3, <1>4, <1>6 DEF CountAt, Flows
    <3> QED
      BY <2>1, <3>4, <3>5 DEF CountAt
  <2>2. CASE b # t
    <3>1. Open(b)' = Open(b)
      BY <2>2, <1>1, <1>2 DEF Open
    <3> QED
      BY <2>0, <2>2, <3>1, <1>3, <1>5, <1>7 DEF CountAt
  <2> QED
    BY <2>1, <2>2
<1> QED
  BY <1>3, <1>5, <1>8 DEF Counted, CountType

\* What a completion does to the counters of a backend.
LEMMA CompletedFlowFacts ==
  ASSUME NEW f \in Flows, NEW o
  PROVE  LET g == CompletedFlow(f, o) IN
         /\ g \in Flows /\ g.dispatched = f.dispatched /\ g.completed = f.completed + 1
         /\ g.success + g.timeout <= f.success + f.timeout + 1
  BY DEF Flows, CompletedFlow

\* A completion takes a request off the open ones or adds one to the strayed.
LEMMA FinishSets ==
  ASSUME Ctl, NEW r \in Reqs, Finish(r), NEW t \in Backends, t = tgt[r]
  PROVE  /\ \A b \in Backends \ {t} : Open(b)' = Open(b) /\ Strayed(b)' = Strayed(b)
         /\ Cardinality(Open(t)') - Cardinality(Strayed(t)')
              = Cardinality(Open(t)) - Cardinality(Strayed(t)) - 1
<1>0. CtlType
  BY DEF Ctl
<1>1. PICK o \in Outcomes : pc' = [pc EXCEPT ![r] = After(r, o)]
  BY DEF Finish, Go
<1>2. /\ tgt' = tgt /\ pc'[r] = After(r, o) /\ pc[r] \in {"sent", "stray"}
      /\ \A q \in Reqs \ {r} : pc'[q] = pc[q]
  BY <1>0, <1>1 DEF Finish, CtlType
<1>3. /\ Cardinality(Open(t)) \in Nat /\ Cardinality(Strayed(t)) \in Nat
      /\ IsFiniteSet(Open(t)) /\ IsFiniteSet(Strayed(t))
  BY OpenFinite
<1>4. CASE pc[r] = "sent"
  <2>1. pc'[r] \notin {"sent", "dropped", "strayed"}
    BY <1>2, <1>4 DEF After
  <2>2. /\ Open(t)' = Open(t) \ {r} /\ r \in Open(t)
        /\ \A b \in Backends \ {t} : Open(b)' = Open(b)
        /\ \A b \in Backends : Strayed(b)' = Strayed(b)
    BY <1>2, <1>4, <2>1 DEF Open, Strayed
  <2>3. Cardinality(Open(t)') = Cardinality(Open(t)) - 1
    BY <1>3, <2>2, FS_RemoveElement
  <2> QED
    BY <1>3, <2>2, <2>3
<1>5. CASE pc[r] = "stray"
  <2>1. pc'[r] = "strayed"
    BY <1>2, <1>5 DEF After
  <2>2. /\ Strayed(t)' = Strayed(t) \cup {r} /\ r \notin Strayed(t)
        /\ \A b \in Backends \ {t} : Strayed(b)' = Strayed(b)
        /\ \A b \in Backends : Open(b)' = Open(b)
    BY <1>2, <1>5, <2>1 DEF Open, Strayed
  <2>3. Cardinality(Strayed(t)') = Cardinality(Strayed(t)) + 1
    BY <1>3, <2>2, FS_AddElement
  <2> QED
    BY <1>3, <2>2, <2>3
<1> QED
  BY <1>2, <1>4, <1>5

LEMMA FinishCounted ==
  ASSUME Ctl, Counted, NEW r \in Reqs, Finish(r)
  PROVE  Counted'
<1>t. PICK t \in Backends : t = tgt[r]
  BY DEF Ctl, ChosenAt, Chosen, Finish
<1>0. CountType
  BY DEF Counted
<1>1. inflight' = [inflight EXCEPT ![t] = @ - 1]
  BY <1>t DEF Finish
<1>2. PICK o \in Outcomes : flow' = [flow EXCEPT ![t] = CompletedFlow(flow[t], o)]
  BY <1>t DEF Finish
<1>3. /\ \A b \in Backends \ {t} : Open(b)' = Open(b) /\ Strayed(b)' = Strayed(b)
      /\ Cardinality(Open(t)') - Cardinality(Strayed(t)')
           = Cardinality(Open(t)) - Cardinality(Strayed(t)) - 1
  BY <1>t, FinishSets
<1>4. flow[t] \in Flows /\ inflight[t] \in Int
  BY <1>0 DEF CountType
<1>5. /\ inflight' \in [Backends -> Int] /\ inflight'[t] = inflight[t] - 1
      /\ \A b \in Backends \ {t} : inflight'[b] = inflight[b]
  BY <1>0, <1>1 DEF CountType
<1>6. CompletedFlow(flow[t], o) \in Flows
  BY <1>4, CompletedFlowFacts
<1>7. /\ flow'[t] = CompletedFlow(flow[t], o) /\ flow' \in [Backends -> Flows]
      /\ \A b \in Backends \ {t} : flow'[b] = flow[b]
  BY <1>0, <1>2, <1>6 DEF CountType
<1>8. ASSUME NEW b \in Backends PROVE CountAt(b)'
  <2>0. CountAt(b)
    BY DEF Counted
  <2>1. CASE b = t
    <3>1. /\ flow'[t].dispatched = flow[t].dispatched
          /\ flow'[t].completed = flow[t].completed + 1
          /\ flow'[t].success + flow'[t].timeout <= flow[t].success + flow[t].timeout + 1
          /\ flow'[t] \in Flows
      BY <1>4, <1>7, CompletedFlowFacts
    <3>2. inflight'[t] = Cardinality(Open(t)') - Cardinality(Strayed(t)')
      BY <2>0, <2>1, <1>3, <1>5 DEF CountAt
    <3>3. /\ flow[t].dispatched - flow[t].completed = inflight[t]
          /\ flow[t].success + flow[t].timeout <= flow[t].completed
      BY <2>0, <2>1 DEF CountAt
    <3>4. /\ flow[t].dispatched \in Nat /\ flow[t].completed \in Nat
          /\ flow[t].success \in Nat /\ flow[t].timeout \in Nat
          /\ flow'[t].success \in Nat /\ flow'[t].timeout \in Nat
      BY <1>4, <3>1 DEF Flows
    <3>5. /\ flow'[t].dispatched - flow'[t].completed = inflight'[t]
          /\ flow'[t].success + flow'[t].timeout <= flow'[t].completed
      BY <3>1, <3>3, <3>4, <1>4, <1>5
    <3> QED
      BY <2>1, <3>2, <3>5 DEF CountAt
  <2>2. CASE b # t
    BY <2>0, <2>2, <1>3, <1>5, <1>7 DEF CountAt
  <2> QED
    BY <2>1, <2>2
<1> QED
  BY <1>5, <1>7, <1>8 DEF Counted, CountType

LEMMA NextCounted == Ctl /\ Counted /\ [SelNext]_all => Counted'
<1> SUFFICES ASSUME Ctl, Counted, [SelNext]_all PROVE Counted'
  OBVIOUS
<1>0. CtlType
  BY DEF Ctl
<1>1. ASSUME NEW r \in Reqs, Step(r) PROVE Counted'
  <2> DEFINE Uncounted == {"scan", "rescan", "lookup", "choose", "honour", "count", "pin",
                           "stray", "blame", "unpin", "failed"}
  <2>0. ASSUME UNCHANGED <<inflight, flow>>, pc[r] \in Uncounted,
               \E s \in Uncounted : pc' = [pc EXCEPT ![r] = s],
               \A q \in Reqs \ {r} : tgt'[q] = tgt[q]
        PROVE  Counted'
    <3>1. pc'[r] \in Uncounted /\ \A q \in Reqs \ {r} : pc'[q] = pc[q]
      BY <1>0, <2>0 DEF CtlType
    <3> QED
      BY <2>0, <3>1, CountsKept
  <2>1. CASE Scan(r) \/ Rescan(r) \/ Lookup(r)
    <3>1. /\ UNCHANGED <<inflight, flow, tgt>> /\ pc[r] \in Uncounted
          /\ \E s \in Uncounted : pc' = [pc EXCEPT ![r] = s]
      BY <2>1, FirstStepKeyed DEF Scan, Rescan, Lookup, Go, counts
    <3> QED
      BY <2>0, <3>1
  <2>2. CASE Honour(r) \/ Choose(r) \/ Bypass(r)
    <3>1. /\ UNCHANGED <<inflight, flow>> /\ pc[r] \in Uncounted
          /\ \E s \in Uncounted : pc' = [pc EXCEPT ![r] = s]
      BY <2>2 DEF Honour, Choose, Bypass, Go, counts
    <3>2. \A q \in Reqs \ {r} : tgt'[q] = tgt[q]
      BY <1>0, <2>2 DEF Honour, Choose, Bypass, CtlType
    <3> QED
      BY <2>0, <3>1, <3>2
  <2>3. CASE Pin(r) \/ Blame(r) \/ Unpin(r)
    <3>1. /\ UNCHANGED <<inflight, flow, tgt>> /\ pc[r] \in Uncounted
          /\ \E s \in Uncounted : pc' = [pc EXCEPT ![r] = s]
      BY <2>3 DEF Pin, Blame, Unpin, Go, counts
    <3> QED
      BY <2>0, <3>1
  <2>4. CASE Abandon(r)
    <3>1. /\ UNCHANGED <<inflight, flow, tgt>> /\ pc[r] = "sent"
          /\ pc' = [pc EXCEPT ![r] = "dropped"]
      BY <2>4 DEF Abandon, Go, counts
    <3>2. pc'[r] = "dropped" /\ \A q \in Reqs \ {r} : pc'[q] = pc[q]
      BY <1>0, <3>1 DEF CtlType
    <3> QED
      BY <3>1, <3>2, CountsKept
  <2> QED
    BY <1>1, <2>1, <2>2, <2>3, <2>4, CountCounted, FinishCounted DEF Step
<1>2. ASSUME UNCHANGED <<counts, local>> PROVE Counted'
  BY <1>2, CountsKept DEF counts, local
<1>3. ASSUME NEW b \in Backends, HealthChange(b) \/ CoolDown(b) \/ Scrape(b) PROVE Counted'
  BY <1>2, <1>3 DEF HealthChange, CoolDown, Scrape
<1>4. CASE SelTick \/ UNCHANGED all
  BY <1>2, <1>4 DEF SelTick, all
<1> QED
  BY <1>1, <1>3, <1>4 DEF SelNext

\* Within one configuration InFlight of a backend, which selectors and overload test
\* read, is off by exactly the requests given up after Dispatch (too high, for good)
\* and those completed without ever being counted (too low, for good); and a backend
\* has no more successes and timeouts than completions.
THEOREM CountersAccounted == SelSpec => []Counted
  BY InitCounted, NextCounted, AlwaysCtl, PTL DEF SelSpec
-----------------------------------------------------------------------------
(* The score.                                                              *)

EnvType ==
    /\ healthy \in [Backends -> BOOLEAN]
    /\ ramping \in [Backends -> BOOLEAN]
    /\ scraped \in [Backends -> Scrapes]
    /\ pin \in [Reqs -> Backends \cup {None}]

LEMMA NextEnv == Ctl /\ SInv /\ EnvType /\ [SelNext]_all => EnvType'
<1> SUFFICES ASSUME Ctl, SInv, EnvType, [SelNext]_all PROVE EnvType'
  OBVIOUS
<1>1. ASSUME UNCHANGED <<healthy, ramping, scraped, pin>> PROVE EnvType'
  BY <1>1 DEF EnvType
<1>2. ASSUME NEW r \in Reqs, Step(r) PROVE EnvType'
  <2>1. CASE Lookup(r)
    <3>1. KeyOf[r] \in Keys
      BY <2>1 DEF Ctl, KeyedAt, Keyed, Lookup
    <3>2. Fresh(KeyOf[r]) => entries[KeyOf[r]].backend \in Backends
      BY <3>1 DEF SInv, TypeOK, Fresh, Entry
    <3>3. pin' \in [Reqs -> Backends \cup {None}]
      BY <2>1, <3>2 DEF Lookup, EnvType
    <3> QED
      BY <2>1, <3>3 DEF Lookup, EnvType, health
  <2>2. CASE ~Lookup(r)
    <3>1. UNCHANGED <<healthy, ramping, scraped, pin>>
      BY <1>2, <2>2 DEF Step, Scan, Rescan, Honour, Choose, Pin, Count, Bypass, Abandon,
                        Finish, Blame, Unpin, health
    <3> QED
      BY <3>1, <1>1
  <2> QED
    BY <2>1, <2>2
<1>3. ASSUME NEW b \in Backends, HealthChange(b) PROVE EnvType'
  BY <1>3 DEF HealthChange, EnvType, local
<1>4. ASSUME NEW b \in Backends, CoolDown(b) PROVE EnvType'
  BY <1>1, <1>4 DEF CoolDown, local
<1>5. ASSUME NEW b \in Backends, Scrape(b) PROVE EnvType'
  BY <1>5 DEF Scrape, EnvType, local
<1>6. CASE SelTick \/ UNCHANGED all
  BY <1>1, <1>6 DEF SelTick, all, health, local
<1> QED
  BY <1>2, <1>3, <1>4, <1>5, <1>6 DEF SelNext

LEMMA AlwaysEnv == SelSpec => []EnvType
<1>1. SelInit => EnvType
  BY DEF SelInit, EnvType
<1> QED
  BY <1>1, NextEnv, AlwaysCtl, AlwaysStore, PTL DEF SelSpec

\* Selection with its affinity store keeps the shape of its state, and a request
\* past Selector.Select has a backend: no strategy, pin or health flip of any
\* interleaving hands the proxy a nil target.  InFlight is any integer: it falls
\* below zero when requests that were never counted complete.
THEOREM SelTypeCorrect == SelSpec => []SelTypeOK
<1>1. Ctl /\ SInv /\ Counted /\ EnvType => SelTypeOK
  BY Zenon DEF Ctl, CtlType, ChosenAt, PCs, SInv, Counted, CountType, Flows, EnvType, SelTypeOK
<1> QED
  BY <1>1, AlwaysCtl, AlwaysStore, CountersAccounted, AlwaysEnv, PTL

\* Products of naturals grow with their factors.
LEMMA MulMono ==
  ASSUME NEW x \in Nat, NEW y \in Nat, NEW u \in Nat, NEW v \in Nat, x <= y, u <= v
  PROVE  x * u <= y * v /\ x * u \in Nat /\ y * v \in Nat
<1>1. x * u <= y * u
  OBVIOUS
<1>2. y * u <= y * v
  OBVIOUS
<1>3. x * u \in Nat /\ y * u \in Nat /\ y * v \in Nat
  OBVIOUS
<1> QED
  BY <1>1, <1>2, <1>3

\* Two scores as fractions, factor by factor: load, stalls, completed and
\* dispatched requests, and the two penalties.
Parts == [l : Nat, s : Nat, c : Nat, d : Nat, p : Nat, q : Nat]
PartsNum(x) == x.l * x.p * x.q + 300 * x.s * x.c * x.d
PartsDen(x) == x.c * x.d

LEMMA CrossScore ==
  ASSUME NEW x \in Parts, NEW y \in Parts
  PROVE  PartsNum(x) * PartsDen(y)
           = (x.l * (x.p * y.c)) * (x.q * y.d) + 300 * (x.s * ((x.c * y.c) * (x.d * y.d)))
<1>1. /\ x.l \in Nat /\ x.s \in Nat /\ x.c \in Nat /\ x.d \in Nat /\ x.p \in Nat
      /\ x.q \in Nat /\ y.c \in Nat /\ y.d \in Nat
  BY DEF Parts
<1> QED
  BY <1>1 DEF PartsNum, PartsDen

LEMMA ScoreArith ==
  ASSUME NEW x \in Parts, NEW y \in Parts, x.l <= y.l, x.s <= y.s,
         x.p * y.c <= y.p * x.c, x.q * y.d <= y.q * x.d
  PROVE  PartsNum(x) * PartsDen(y) <= PartsNum(y) * PartsDen(x)
<1>0. /\ x.l \in Nat /\ x.s \in Nat /\ x.c \in Nat /\ x.d \in Nat /\ x.p \in Nat
      /\ x.q \in Nat /\ y.l \in Nat /\ y.s \in Nat /\ y.c \in Nat /\ y.d \in Nat
      /\ y.p \in Nat /\ y.q \in Nat
  BY DEF Parts
<1> DEFINE P1 == x.p * y.c  P2 == y.p * x.c
           Q1 == x.q * y.d  Q2 == y.q * x.d
           CC == x.c * y.c  DD == x.d * y.d
<1>1. /\ P1 \in Nat /\ P2 \in Nat /\ Q1 \in Nat /\ Q2 \in Nat
      /\ CC \in Nat /\ DD \in Nat /\ P1 <= P2 /\ Q1 <= Q2
      /\ y.c * x.c = CC /\ y.d * x.d = DD
  BY <1>0
<1>2. /\ PartsNum(x) * PartsDen(y) = (x.l * P1) * Q1 + 300 * (x.s * (CC * DD))
      /\ PartsNum(y) * PartsDen(x) = (y.l * P2) * Q2 + 300 * (y.s * (CC * DD))
  <2>1. PartsNum(y) * PartsDen(x)
          = (y.l * P2) * Q2 + 300 * (y.s * ((y.c * x.c) * (y.d * x.d)))
    BY CrossScore
  <2>2. PartsNum(x) * PartsDen(y) = (x.l * P1) * Q1 + 300 * (x.s * (CC * DD))
    BY CrossScore
  <2> HIDE DEF P1, P2, Q1, Q2, CC, DD
  <2> QED
    BY <2>1, <2>2, <1>1
<1> HIDE DEF P1, P2, Q1, Q2, CC, DD
<1>3. x.l * P1 <= y.l * P2 /\ x.l * P1 \in Nat /\ y.l * P2 \in Nat
  BY <1>0, <1>1, MulMono
<1>4. (x.l * P1) * Q1 <= (y.l * P2) * Q2 /\ (x.l * P1) * Q1 \in Nat /\ (y.l * P2) * Q2 \in Nat
  BY <1>1, <1>3, MulMono
<1>5. CC * DD \in Nat
  BY <1>1
<1>6. /\ x.s * (CC * DD) <= y.s * (CC * DD)
      /\ x.s * (CC * DD) \in Nat /\ y.s * (CC * DD) \in Nat
  BY <1>0, <1>5, MulMono
<1> DEFINE A1 == (x.l * P1) * Q1   A2 == (y.l * P2) * Q2
           B1 == x.s * (CC * DD)   B2 == y.s * (CC * DD)
<1>7. A1 \in Nat /\ A2 \in Nat /\ B1 \in Nat /\ B2 \in Nat /\ A1 <= A2 /\ B1 <= B2
  BY <1>4, <1>6
<1> HIDE DEF A1, A2, B1, B2
<1>8. A1 + 300 * B1 <= A2 + 300 * B2
  BY <1>7
<1> QED
  BY <1>2, <1>8 DEF A1, A2, B1, B2

\* A higher success rate means a smaller penalty factor ...
LEMMA RateArith ==
  ASSUME NEW c1 \in Nat, NEW c2 \in Nat, NEW k1 \in Nat, NEW k2 \in Nat,
         k1 <= c1, k2 <= c2, k2 * c1 <= k1 * c2
  PROVE  (c1 + 2 * (c1 - k1)) * c2 <= (c2 + 2 * (c2 - k2)) * c1
<1>1. (c1 + 2 * (c1 - k1)) * c2 = 3 * (c1 * c2) - 2 * (k1 * c2)
  OBVIOUS
<1>2. (c2 + 2 * (c2 - k2)) * c1 = 3 * (c1 * c2) - 2 * (k2 * c1)
  OBVIOUS
<1> DEFINE X == c1 * c2  Y == k1 * c2  Z == k2 * c1
<1>3. X \in Int /\ Y \in Int /\ Z \in Int
  OBVIOUS
<1> HIDE DEF X, Y, Z
<1>4. Z <= Y 
  BY DEF Y, Z
<1>5. 3 * X - 2 * Y <= 3 * X - 2 * Z
  BY <1>3, <1>4
<1> QED
  BY <1>1, <1>2, <1>5 DEF X, Y, Z

\* ... and so does a lower timeout rate.
LEMMA TimeArith ==
  ASSUME NEW d1 \in Nat, NEW d2 \in Nat, NEW k1 \in Nat, NEW k2 \in Nat,
         k1 * d2 <= k2 * d1
  PROVE  (d1 + 3 * k1) * d2 <= (d2 + 3 * k2) * d1
<1>1. (d1 + 3 * k1) * d2 = d1 * d2 + 3 * (k1 * d2)
  OBVIOUS
<1>2. (d2 + 3 * k2) * d1 = d1 * d2 + 3 * (k2 * d1)
  OBVIOUS
<1> DEFINE X == d1 * d2  Y == k1 * d2  Z == k2 * d1
<1>3. X \in Int /\ Y \in Int /\ Z \in Int
  OBVIOUS
<1> HIDE DEF X, Y, Z
<1>4. Y <= Z
  BY DEF Y, Z
<1>5. X + 3 * Y <= X + 3 * Z
  BY <1>3, <1>4
<1> QED
  BY <1>1, <1>2, <1>5 DEF X, Y, Z

\* What the score is made of.
LEMMA ScoreParts ==
  ASSUME Counted, EnvType, NEW b \in Backends
  PROVE  /\ EffectiveLoad(b) \in Int /\ Stalled(flow[b]) \in Nat
         /\ flow[b] \in Flows
         /\ flow[b].success <= flow[b].completed
         /\ Tried(b) => /\ flow[b].dispatched \in Nat \ {0}
                        /\ flow[b].completed \in Nat \ {0}
<1>1. flow[b] \in Flows /\ inflight[b] \in Int
  BY DEF Counted, CountType
<1>2. flow[b].success + flow[b].timeout <= flow[b].completed
  BY DEF Counted, CountAt
<1>3. scraped[b].running \in Nat /\ scraped[b].kv \in Nat
  BY SelectionAssumption DEF EnvType
<1>4. EffectiveLoad(b) \in Int
  BY <1>1, <1>3 DEF EffectiveLoad
<1>5. Stalled(flow[b]) \in Nat
  BY <1>1 DEF Stalled, Flows
<1> QED
  BY <1>1, <1>2, <1>4, <1>5 DEF Flows, Tried

(* For every load that is not negative, every history of outcomes and      *)
(* every metric scraped, the score of a backend that is no worse than      *)
(* another in any respect is not above the other's (loadScore).            *)
THEOREM ScoreMonotoneHolds == SelSpec => []ScoreMonotone
<1>1. ASSUME Counted, EnvType PROVE ScoreMonotone
  <2> SUFFICES ASSUME NEW a \in Backends, NEW b \in Backends,
                      0 <= EffectiveLoad(a), EffectiveLoad(a) <= EffectiveLoad(b),
                      Stalled(flow[a]) <= Stalled(flow[b]),
                      Tried(a), Tried(b),
                      ~SuccessWorse(a, b), TimeoutsNoWorse(a, b)
               PROVE  ~Lighter(b, a)
    BY DEF ScoreMonotone
  <2> DEFINE Pen(f) == f.completed + 2 * (f.completed - f.success)
             Late(f) == f.dispatched + 3 * f.timeout
             Num(x) == EffectiveLoad(x) * Pen(flow[x]) * Late(flow[x])
                         + 300 * Stalled(flow[x]) * flow[x].completed * flow[x].dispatched
             Den(x) == flow[x].completed * flow[x].dispatched
  <2>1. /\ flow[a] \in Flows /\ flow[b] \in Flows
        /\ flow[a].success <= flow[a].completed /\ flow[b].success <= flow[b].completed
        /\ flow[a].dispatched \in Nat \ {0} /\ flow[a].completed \in Nat \ {0}
        /\ flow[b].dispatched \in Nat \ {0} /\ flow[b].completed \in Nat \ {0}
        /\ EffectiveLoad(a) \in Nat /\ EffectiveLoad(b) \in Nat
        /\ Stalled(flow[a]) \in Nat /\ Stalled(flow[b]) \in Nat
    BY <1>1, ScoreParts
  <2>2. /\ flow[a].success \in Nat /\ flow[b].success \in Nat
        /\ flow[a].timeout \in Nat /\ flow[b].timeout \in Nat
    BY <2>1 DEF Flows
  <2>3. ASSUME NEW x \in {a, b} PROVE loadScore(x) = [num |-> Num(x), den |-> Den(x)]
    <3>1. flow[x].completed # 0 /\ flow[x].dispatched # 0
      BY <2>1
    <3> QED
      BY <3>1 DEF loadScore
  <2>4. Pen(flow[a]) * flow[b].completed <= Pen(flow[b]) * flow[a].completed
    <3>1. flow[b].success * flow[a].completed <= flow[a].success * flow[b].completed
      BY <2>1, <2>2 DEF SuccessWorse
    <3> QED
      BY <2>1, <2>2, <3>1, RateArith
  <2>5. Late(flow[a]) * flow[b].dispatched <= Late(flow[b]) * flow[a].dispatched
    BY <2>1, <2>2, TimeArith DEF TimeoutsNoWorse
  <2>6. /\ Pen(flow[a]) \in Nat /\ Pen(flow[b]) \in Nat
        /\ Late(flow[a]) \in Nat /\ Late(flow[b]) \in Nat
    BY <2>1, <2>2
  <2> HIDE DEF Pen, Late
  <2> DEFINE At(x) == [l |-> EffectiveLoad(x), s |-> Stalled(flow[x]),
                       c |-> flow[x].completed, d |-> flow[x].dispatched,
                       p |-> Pen(flow[x]), q |-> Late(flow[x])]
  <2>7. Num(a) * Den(b) <= Num(b) * Den(a)
    <3>1. At(a) \in Parts /\ At(b) \in Parts
      BY <2>1, <2>6 DEF Parts
    <3>2. /\ At(a).l <= At(b).l /\ At(a).s <= At(b).s
          /\ At(a).p * At(b).c <= At(b).p * At(a).c
          /\ At(a).q * At(b).d <= At(b).q * At(a).d
      BY <2>4, <2>5
    <3>3. /\ PartsNum(At(a)) = Num(a) /\ PartsDen(At(a)) = Den(a)
          /\ PartsNum(At(b)) = Num(b) /\ PartsDen(At(b)) = Den(b)
      BY DEF PartsNum, PartsDen
    <3> HIDE DEF At, Num, Den
    <3>4. PartsNum(At(a)) * PartsDen(At(b)) <= PartsNum(At(b)) * PartsDen(At(a))
      BY <3>1, <3>2, ScoreArith
    <3> QED
      BY <3>3, <3>4
  <2>8. Num(a) \in Int /\ Num(b) \in Int /\ Den(a) \in Int /\ Den(b) \in Int
    BY <2>1, <2>6
  <2> HIDE DEF Num, Den
  <2>9. Num(a) * Den(b) \in Int /\ Num(b) * Den(a) \in Int
    BY <2>8
  <2>10. Lighter(b, a) <=> Num(b) * Den(a) < Num(a) * Den(b)
    BY <2>3 DEF Lighter
  <2> QED
    BY <2>7, <2>9, <2>10
<1> QED
  BY <1>1, CountersAccounted, AlwaysEnv, PTL
-----------------------------------------------------------------------------
(* What a request is entitled to.                                          *)

\* What was true in every state since the scan is true now.
SinceAt(r) ==
    pc[r] \in Watched =>
      /\ since[r].kept \subseteq KeptBy(KeyOf[r]) /\ since[r].settled \subseteq Settled
      /\ since[r].warming \subseteq Warming /\ since[r].cooling \subseteq Cooling

\* The second scan is made only if the first found no healthy backend.
RescanAt(r) == pc[r] = "rescan" => since[r].kept = {} /\ since[r].settled = {}

PoolKeptAt(r) ==
    pc[r] \in Selecting => since[r].kept \subseteq pool[r] /\ since[r].settled \subseteq pool[r]

\* The pin found is the one that still stands, if any stood all along; and a
\* request that goes on to choose has none.
PinAt(r) ==
    /\ pc[r] = "honour" => \A b \in since[r].kept : pin[r] = b
    /\ pc[r] = "choose" /\ Sticky => since[r].kept = {}

KeptAt(r) == Picked(r) /\ Sticky => \A b \in since[r].kept : tgt[r] = b

ShelterAt(r) ==
    Picked(r) /\ Sticky /\ since[r].settled # {}
      => /\ tgt[r] \notin since[r].cooling
         /\ tgt[r] \in since[r].warming => tgt[r] = pin[r]

HistAt(r) ==
    SinceAt(r) /\ RescanAt(r) /\ PoolKeptAt(r) /\ PinAt(r) /\ KeptAt(r) /\ ShelterAt(r)

HistInv == \A r \in Reqs : HistAt(r)

\* The record only shrinks, to what is true in the new state.
LEMMA SinceStep ==
  ASSUME HNext, NEW r \in Reqs, pc'[r] \in Watched
  PROVE  /\ SinceAt(r)'
         /\ pc[r] # "scan" => /\ since'[r].kept \subseteq since[r].kept
                              /\ since'[r].settled \subseteq since[r].settled
                              /\ since'[r].warming \subseteq since[r].warming
                              /\ since'[r].cooling \subseteq since[r].cooling
<1>1. since'[r] = IF pc[r] = "scan" THEN Now(r)' ELSE Still(since[r], Now(r)')
  BY DEF HNext
<1>2. /\ Now(r)'.kept = KeptBy(KeyOf[r])' /\ Now(r)'.settled = Settled'
      /\ Now(r)'.warming = Warming' /\ Now(r)'.cooling = Cooling'
  BY DEF Now
<1>3. CASE pc[r] = "scan"
  BY <1>1, <1>2, <1>3 DEF SinceAt
<1>4. CASE pc[r] # "scan"
  <2>1. /\ since'[r].kept = since[r].kept \cap Now(r)'.kept
        /\ since'[r].settled = since[r].settled \cap Now(r)'.settled
        /\ since'[r].warming = since[r].warming \cap Now(r)'.warming
        /\ since'[r].cooling = since[r].cooling \cap Now(r)'.cooling
    BY <1>1, <1>4 DEF Still
  <2> QED
    BY <1>2, <2>1 DEF SinceAt
<1> QED
  BY <1>3, <1>4

\* Nothing is claimed of a request outside selection.
LEMMA Unwatched ==
  ASSUME NEW r \in Reqs, pc'[r] \notin Watched
  PROVE  HistAt(r)'
<1>1. pc'[r] \notin Selecting \cup {"rescan", "pin", "count", "honour", "choose"}
  BY DEF Watched, Selecting
<1> QED
  BY <1>1 DEF HistAt, SinceAt, RescanAt, PoolKeptAt, PinAt, KeptAt, ShelterAt, Picked

\* The steps of others only make a request's record shrink.
LEMMA OtherHist ==
  ASSUME HNext, NEW r \in Reqs, HistAt(r), pc'[r] = pc[r], pool'[r] = pool[r],
         pin'[r] = pin[r], tgt'[r] = tgt[r], strategy' = strategy
  PROVE  HistAt(r)'
<1>1. CASE pc[r] \notin Watched
  BY <1>1, Unwatched
<1>2. CASE pc[r] \in Watched
  <2>1. /\ SinceAt(r)' /\ since'[r].kept \subseteq since[r].kept
        /\ since'[r].settled \subseteq since[r].settled
        /\ since'[r].warming \subseteq since[r].warming
        /\ since'[r].cooling \subseteq since[r].cooling
    <3>1. pc[r] # "scan"
      BY <1>2 DEF Watched, Selecting
    <3> QED
      BY <1>2, <3>1, SinceStep
  <2>2. RescanAt(r)' /\ PoolKeptAt(r)'
    BY <2>1 DEF HistAt, RescanAt, PoolKeptAt
  <2>3. PinAt(r)' /\ KeptAt(r)'
    BY <2>1 DEF HistAt, PinAt, KeptAt, Picked, Sticky
  <2>4. ShelterAt(r)'
    BY <2>1 DEF HistAt, ShelterAt, Picked, Sticky
  <2> QED
    BY <2>1, <2>2, <2>3, <2>4 DEF HistAt
<1> QED
  BY <1>1, <1>2

LEMMA ScanHist ==
  ASSUME Ctl, HNext, NEW r \in Reqs, Scan(r)
  PROVE  HistAt(r)'
<1> DEFINE P == {b \in Backends : healthy[b]}
<1>0. CtlType
  BY DEF Ctl
<1>1. /\ UNCHANGED <<healthy, strategy>> /\ pool'[r] = P
      /\ pc'[r] = IF P = {} THEN "rescan" ELSE FirstStep(r)
  BY <1>0 DEF Scan, Go, health, chooser, CtlType
<1>2. pc'[r] \in {"rescan", "lookup", "choose"}
      /\ (pc'[r] = "choose" /\ Sticky => KeyOf[r] = NoKey)
  BY <1>1 DEF FirstStep
<1>3. SinceAt(r)'
  BY <1>2, SinceStep DEF Watched, Selecting
<1>4. since'[r].kept \subseteq KeptBy(KeyOf[r])' /\ since'[r].settled \subseteq Settled'
  BY <1>2, <1>3 DEF SinceAt, Watched, Selecting
<1>5. KeptBy(KeyOf[r])' \subseteq P /\ Settled' \subseteq P
  BY <1>1 DEF KeptBy, Settled, Good
<1>6. KeyOf[r] = NoKey => KeptBy(KeyOf[r])' = {}
  BY SelectionAssumption DEF KeptBy
<1>7. RescanAt(r)' /\ PoolKeptAt(r)'
  <2>1. pc'[r] = "rescan" => P = {}
    BY <1>1 DEF FirstStep
  <2> QED
    BY <1>1, <1>4, <1>5, <2>1 DEF RescanAt, PoolKeptAt
<1>8. PinAt(r)'
  BY <1>1, <1>2, <1>4, <1>6 DEF PinAt, Sticky
<1>9. KeptAt(r)' /\ ShelterAt(r)'
  BY <1>2 DEF KeptAt, ShelterAt, Picked
<1> QED
  BY <1>3, <1>7, <1>8, <1>9 DEF HistAt

LEMMA RescanHist ==
  ASSUME Ctl, HNext, NEW r \in Reqs, HistAt(r), Rescan(r)
  PROVE  HistAt(r)'
<1>0. CtlType
  BY DEF Ctl
<1>1. pc[r] = "rescan" /\ pc'[r] \in {"lookup", "choose"}
  BY <1>0 DEF Rescan, Go, FirstStep, CtlType
<1>2. /\ SinceAt(r)' /\ since'[r].kept \subseteq since[r].kept
      /\ since'[r].settled \subseteq since[r].settled
  BY <1>1, SinceStep DEF Watched, Selecting
<1>3. since'[r].kept = {} /\ since'[r].settled = {}
  BY <1>1, <1>2 DEF HistAt, RescanAt
<1> QED
  BY <1>1, <1>2, <1>3 DEF HistAt, RescanAt, PoolKeptAt, PinAt, KeptAt, ShelterAt, Picked

LEMMA LookupHist ==
  ASSUME Ctl, HNext, EnvType, NEW r \in Reqs, HistAt(r), Lookup(r)
  PROVE  HistAt(r)'
<1>0. CtlType
  BY DEF Ctl
<1>1. /\ pc[r] = "lookup" /\ pc'[r] = "honour" /\ pool' = pool
      /\ pin'[r] = IF Fresh(KeyOf[r]) THEN entries[KeyOf[r]].backend ELSE None
      /\ UNCHANGED <<entries, now>>
  BY <1>0 DEF Lookup, Go, EnvType, CtlType
<1>2. /\ SinceAt(r)' /\ since'[r].kept \subseteq since[r].kept
      /\ since'[r].settled \subseteq since[r].settled
  BY <1>1, SinceStep DEF Watched, Selecting
<1>3. PoolKeptAt(r)'
  BY <1>1, <1>2 DEF HistAt, PoolKeptAt, Selecting
<1>4. ASSUME NEW b \in since'[r].kept PROVE pin'[r] = b
  <2>1. b \in KeptBy(KeyOf[r])
    BY <1>1, <1>2, <1>4 DEF HistAt, SinceAt, Watched, Selecting
  <2> QED
    BY <1>1, <2>1 DEF KeptBy, Good
<1> QED
  BY <1>1, <1>2, <1>3, <1>4 DEF HistAt, RescanAt, PinAt, KeptAt, ShelterAt, Picked

LEMMA HonourHist ==
  ASSUME Ctl, HNext, NEW r \in Reqs, HistAt(r), Honour(r)
  PROVE  HistAt(r)'
<1>0. CtlType
  BY DEF Ctl
<1>1. /\ pc[r] = "honour" /\ UNCHANGED <<pool, pin, failing, strategy>>
      /\ \/ pc'[r] = "count" /\ tgt'[r] = pin[r] /\ pin[r] \in pool[r] /\ Usable(pin[r])
         \/ pc'[r] = "choose" /\ ~(pin[r] \in pool[r] /\ Usable(pin[r]))
  BY <1>0 DEF Honour, Go, CtlType, health, chooser
<1>2. /\ SinceAt(r)' /\ since'[r].kept \subseteq since[r].kept
      /\ since'[r].settled \subseteq since[r].settled
  BY <1>1, SinceStep DEF Watched, Selecting
<1>3. \A b \in since[r].kept : pin[r] = b /\ b \in pool[r] /\ Usable(b)
  <2>1. since[r].kept \subseteq KeptBy(KeyOf[r]) /\ since[r].kept \subseteq pool[r]
    BY <1>1 DEF HistAt, SinceAt, PoolKeptAt, Watched, Selecting
  <2>2. \A b \in KeptBy(KeyOf[r]) : Usable(b)
    BY DEF KeptBy, Good
  <2>3. \A b \in since[r].kept : pin[r] = b
    BY <1>1 DEF HistAt, PinAt
  <2> QED
    BY <2>1, <2>2, <2>3
<1>4. CASE pc'[r] = "count"
  <2>1. KeptAt(r)'
    BY <1>1, <1>2, <1>3, <1>4 DEF KeptAt
  <2>2. tgt'[r] = pin'[r] /\ tgt'[r] \notin Cooling'
    BY <1>1, <1>4 DEF Usable, Cooling
  <2>3. since'[r].cooling \subseteq Cooling'
    BY <1>2, <1>4 DEF SinceAt, Watched
  <2>4. ShelterAt(r)'
    BY <2>2, <2>3 DEF ShelterAt
  <2> QED
    BY <1>2, <1>4, <2>1, <2>4 DEF HistAt, RescanAt, PoolKeptAt, PinAt, Selecting
<1>5. CASE pc'[r] = "choose"
  <2>1. since'[r].kept = {}
    BY <1>1, <1>2, <1>3, <1>5
  <2>2. PoolKeptAt(r)'
    BY <1>1, <1>2 DEF HistAt, PoolKeptAt, Selecting
  <2> QED
    BY <1>2, <1>5, <2>1, <2>2 DEF HistAt, RescanAt, PinAt, KeptAt, ShelterAt, Picked
<1> QED
  BY <1>1, <1>4, <1>5

\* With a settled backend in the pool the tier holds settled ones only.
LEMMA TierSettled ==
  ASSUME NEW P, NEW s \in P, ~failing[s], ~ramping[s], NEW b \in pickLeastLoaded(Tier(P))
  PROVE  b \in P /\ ~failing[b] /\ ~ramping[b]
<1>1. b \in Tier(P)
  BY DEF pickLeastLoaded
<1> DEFINE cooling == {x \in P : failing[x]}
           warming == {x \in P \ cooling : ramping[x]}
           settled == P \ (cooling \cup warming)
<1>2. s \in settled
  OBVIOUS
<1>3. Tier(P) = settled
  BY <1>2 DEF Tier
<1> QED
  BY <1>1, <1>3

LEMMA ChooseHist ==
  ASSUME Ctl, HNext, NEW r \in Reqs, HistAt(r), Choose(r)
  PROVE  HistAt(r)'
<1>0. CtlType
  BY DEF Ctl
<1>1. /\ pc[r] = "choose" /\ UNCHANGED <<pool, pin, failing, ramping, strategy>>
      /\ pc'[r] \in {"pin", "count"} /\ tgt'[r] \in Choices(pool[r])
  BY <1>0 DEF Choose, Go, CtlType, health
<1>2. /\ SinceAt(r)' /\ since'[r].kept \subseteq since[r].kept
      /\ since'[r].settled \subseteq since[r].settled
  BY <1>1, SinceStep DEF Watched, Selecting
<1>3. KeptAt(r)'
  BY <1>1, <1>2 DEF HistAt, PinAt, KeptAt, Sticky
<1>4. ASSUME Sticky, since'[r].settled # {}
      PROVE  tgt'[r] \notin since'[r].cooling /\ tgt'[r] \notin since'[r].warming
  <2>1. PICK s \in since[r].settled : TRUE
    BY <1>2, <1>4
  <2>2. s \in pool[r] /\ ~failing[s] /\ ~ramping[s]
    BY <1>1, <2>1 DEF HistAt, SinceAt, PoolKeptAt, Watched, Selecting, Settled
  <2>3. tgt'[r] \in pickLeastLoaded(Tier(pool[r]))
    BY <1>1, <1>4 DEF Choices, Sticky
  <2>4. ~failing[tgt'[r]] /\ ~ramping[tgt'[r]]
    BY <2>2, <2>3, TierSettled
  <2>5. tgt'[r] \notin Cooling' /\ tgt'[r] \notin Warming'
    BY <1>1, <2>4 DEF Cooling, Warming
  <2> QED
    BY <1>1, <1>2, <2>5 DEF SinceAt, Watched
<1>5. ShelterAt(r)'
  BY <1>1, <1>4 DEF ShelterAt, Sticky
<1> QED
  BY <1>1, <1>2, <1>3, <1>5 DEF HistAt, RescanAt, PoolKeptAt, PinAt, Selecting

LEMMA PinHist ==
  ASSUME Ctl, HNext, NEW r \in Reqs, HistAt(r), Pin(r)
  PROVE  HistAt(r)'
<1>0. CtlType
  BY DEF Ctl
<1>1. /\ pc[r] = "pin" /\ pc'[r] = "count" /\ UNCHANGED <<pin, tgt, strategy>>
  BY <1>0 DEF Pin, Go, CtlType, chooser
<1>2. /\ SinceAt(r)' /\ since'[r].kept \subseteq since[r].kept
      /\ since'[r].settled \subseteq since[r].settled
      /\ since'[r].warming \subseteq since[r].warming
      /\ since'[r].cooling \subseteq since[r].cooling
  BY <1>1, SinceStep DEF Watched
<1>3. KeptAt(r)'
  BY <1>1, <1>2 DEF HistAt, KeptAt, Picked, Sticky
<1>4. ShelterAt(r)'
  BY <1>1, <1>2 DEF HistAt, ShelterAt, Picked, Sticky
<1> QED
  BY <1>1, <1>2, <1>3, <1>4 DEF HistAt, RescanAt, PoolKeptAt, PinAt, Selecting

LEMMA InitHist == HInit => HistInv
<1> SUFFICES ASSUME HInit, NEW r \in Reqs PROVE HistAt(r)
  BY DEF HistInv
<1>1. pc[r] = "scan"
  BY DEF HInit, SelInit
<1> QED
  BY <1>1 DEF HistAt, SinceAt, RescanAt, PoolKeptAt, PinAt, KeptAt, ShelterAt, Picked,
              Watched, Selecting

LEMMA NextHist == Ctl /\ EnvType /\ HistInv /\ [HNext]_histVars => HistInv'
<1> SUFFICES ASSUME Ctl, EnvType, HistInv, [HNext]_histVars, NEW r \in Reqs PROVE HistAt(r)'
  BY DEF HistInv
<1>0. CtlType /\ HistAt(r)
  BY DEF Ctl, HistInv
<1>1. CASE UNCHANGED histVars
  <2>1. UNCHANGED <<since, pc, pool, pin, tgt, strategy, healthy, ramping, failing, scraped,
                    inflight, flow, entries, now>>
    BY <1>1 DEF histVars, all, health, counts, chooser, local
  <2>2. SinceAt(r)'
    <3>1. KeptBy(KeyOf[r])' = KeptBy(KeyOf[r])
      BY <2>1 DEF KeptBy, Good, Usable, isOverloaded, Fresh
    <3>2. Settled' = Settled /\ Warming' = Warming /\ Cooling' = Cooling
      BY <2>1 DEF Settled, Warming, Cooling
    <3> QED
      BY <1>0, <2>1, <3>1, <3>2 DEF HistAt, SinceAt
  <2>3. RescanAt(r)' /\ PoolKeptAt(r)' /\ PinAt(r)' /\ KeptAt(r)' /\ ShelterAt(r)'
    BY <1>0, <2>1 DEF HistAt, RescanAt, PoolKeptAt, PinAt, KeptAt, ShelterAt, Picked, Sticky
  <2> QED
    BY <2>2, <2>3 DEF HistAt
<1>2. CASE HNext
  <2>0. SelNext
    BY <1>2 DEF HNext
  <2>1. ASSUME NEW q \in Reqs, Step(q) PROVE HistAt(r)'
    <3>1. CASE q # r
      <4>1. /\ pc'[r] = pc[r] /\ pool'[r] = pool[r] /\ pin'[r] = pin[r] /\ tgt'[r] = tgt[r]
            /\ strategy' = strategy
        <5>1. CASE Scan(q) \/ Rescan(q) \/ Lookup(q)
          BY <1>0, <3>1, <5>1 DEF Scan, Rescan, Lookup, Go, chooser, CtlType, EnvType
        <5>2. CASE Honour(q) \/ Choose(q) \/ Pin(q)
          BY <1>0, <3>1, <5>2 DEF Honour, Choose, Pin, Go, chooser, CtlType, EnvType
        <5>3. CASE Count(q) \/ Finish(q) \/ Blame(q) \/ Unpin(q)
          BY <1>0, <3>1, <5>3 DEF Count, Finish, Blame, Unpin, Go, chooser, CtlType, EnvType
        <5>4. CASE Bypass(q) \/ Abandon(q)
          BY <1>0, <3>1, <5>4 DEF Bypass, Abandon, Go, chooser, CtlType, EnvType
        <5> QED
          BY <2>1, <5>1, <5>2, <5>3, <5>4 DEF Step
      <4> QED
        BY <1>0, <1>2, <4>1, OtherHist
    <3>2. CASE q = r
      <4>1. CASE Count(r) \/ Bypass(r) \/ Abandon(r) \/ Finish(r) \/ Blame(r) \/ Unpin(r)
        <5>1. pc'[r] \in {"sent", "dropped", "stray", "strayed", "blame", "unpin", "failed", "done"}
          BY <1>0, <4>1 DEF Count, Bypass, Abandon, Finish, After, Blame, Unpin, Go, CtlType
        <5> QED
          BY <5>1, Unwatched DEF Watched, Selecting
      <4> QED
        BY <1>0, <1>2, <2>1, <3>2, <4>1, ScanHist, RescanHist, LookupHist, HonourHist,
           ChooseHist, PinHist DEF Step
    <3> QED
      BY <3>1, <3>2
  <2>2. ASSUME UNCHANGED <<chooser, local>> PROVE HistAt(r)'
    BY <1>0, <1>2, <2>2, OtherHist DEF chooser, local
  <2>3. ASSUME NEW b \in Backends, HealthChange(b) \/ CoolDown(b) \/ Scrape(b) PROVE HistAt(r)'
    BY <2>2, <2>3 DEF HealthChange, CoolDown, Scrape
  <2>4. CASE SelTick
    BY <2>2, <2>4 DEF SelTick
  <2> QED
    BY <2>0, <2>1, <2>3, <2>4 DEF SelNext
<1> QED
  BY <1>1, <1>2

LEMMA HistoryRuns == HSpec => SelSpec
<1>1. HInit => SelInit
  BY DEF HInit
<1>2. [HNext]_histVars => [SelNext]_all
  BY DEF HNext, histVars
<1> QED
  BY <1>1, <1>2, PTL DEF HSpec, SelSpec

LEMMA AlwaysHist == HSpec => []HistInv
  BY InitHist, NextHist, HistoryRuns, AlwaysCtl, AlwaysEnv, PTL DEF HSpec

(* A session keeps its backend under every interleaving of requests,       *)
(* failures, scrapes and health changes (StickyLeastLoaded.Select).        *)
THEOREM SessionKeptHolds == HSpec => []SessionKept
<1>1. HistInv => SessionKept
  BY DEF HistInv, HistAt, KeptAt, SessionKept
<1> QED
  BY <1>1, AlwaysHist, PTL

(* A request with a settled backend to go to is kept from the ones that    *)
(* cool down, and from the ones that ramp up unless it is pinned there     *)
(* (StickyLeastLoaded.Select, its three tiers).                            *)
THEOREM ShelteredHolds == HSpec => []Sheltered
<1>1. HistInv => Sheltered
  BY DEF HistInv, HistAt, ShelterAt, Sheltered
<1> QED
  BY <1>1, AlwaysHist, PTL
=============================================================================
