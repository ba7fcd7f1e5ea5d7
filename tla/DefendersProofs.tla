---------------------------- MODULE DefendersProofs ----------------------------
(***************************************************************************)
(* Proofs about Defenders, for any requests, keys, routes, configuration   *)
(* and limits.  The detector keeps counts and the properties are about the *)
(* history of checks, so the invariant says what each entry of the map     *)
(* stands for in that history: the checks since it was opened, and, for    *)
(* the bound on what is missed, the ones of the window before it.          *)
(***************************************************************************)
EXTENDS Defenders, FiniteSetTheorems, SequenceTheorems, TLAPS

Verdicts == {"none", "detected", "escalated"}
Check    == [key : Keys, at : Nat, route : Routes, verdict : Verdicts]
Entries  == [count : Nat \ {0}, firstSeen : Nat, escaped : BOOLEAN]

DType ==
    /\ defenders \in Setups
    /\ now \in Nat
    /\ DOMAIN table \subseteq Keys /\ table \in [DOMAIN table -> Entries]
    /\ DOMAIN req = Reqs
    /\ \A r \in Reqs : req[r].pc = "detected" => req[r].key \in Keys
    /\ log \in Seq(Check)

\* Checks were made in the past, one after the other.
LogOrder ==
    \A h \in DOMAIN log :
      /\ log[h].at <= now
      /\ GetLoopDetection(log[h].route).enabled

\* The checks of k at f or later.
Since(k, f) == {h \in DOMAIN log : log[h].key = k /\ log[h].at >= f}

\* An entry was opened by a check of its key, and has counted no more checks
\* than there were since.
EntryAt(k) ==
    /\ table[k].firstSeen <= now
    /\ \E h \in DOMAIN log : log[h].key = k /\ log[h].at = table[k].firstSeen
    /\ table[k].count <= Cardinality(Since(k, table[k].firstSeen))

DInv == DType /\ LogOrder /\ \A k \in DOMAIN table : EntryAt(k)

-----------------------------------------------------------------------------
(* What a sweep takes from a request that was found looping.               *)

\* Check j swept the map while it held an entry opened by check h.
SweptAway(h, i, j) ==
    /\ i < j /\ log[j].key # log[i].key
    /\ Cardinality({log[g].key : g \in 1 .. j - 1}) >= CleanupEvery
    /\ log[h].key = log[i].key
    /\ log[j].at - log[h].at > GetLoopDetection(log[j].route).window

Lost(i) == \E j \in DOMAIN log : \E h \in 1 .. i : SweptAway(h, i, j)

Held(i) ==
    /\ log[i].key \in DOMAIN table
    /\ \E h \in 1 .. i :
          log[h].key = log[i].key /\ log[h].at <= table[log[i].key].firstSeen

Accused(r) ==
    req[r].pc = "detected" =>
      \E i \in DOMAIN log : /\ log[i].key = req[r].key /\ log[i].verdict # "none"
                            /\ Held(i) \/ Lost(i)

Panicked(r) ==
    req[r].pc = "panicked" => \E i \in DOMAIN log : log[i].verdict # "none" /\ Lost(i)

PanicInv == \A r \in Reqs : Accused(r) /\ Panicked(r)

-----------------------------------------------------------------------------
(* What the fixed windows let pass, where the routes agree.                *)

Passed(k, f) == {h \in Since(k, f) : log[h].verdict = "none"}

\* The checks let pass in the w ticks before f.
PassedBefore(k, f, w) == {h \in Passed(k, f - w) : log[h].at < f}

Most(c) == AtLeastOne(c.threshold - 1)

\* Of a key whose entry was opened at f and has counted m.
MissOpen(k, f, m, c) ==
    /\ Cardinality(Passed(k, f)) <= m
    /\ Cardinality(Passed(k, f)) <= Most(c)
    /\ Cardinality(PassedBefore(k, f, c.window)) <= Most(c)
    /\ \A h \in DOMAIN log : log[h].key = k => log[h].at <= f + c.window

\* Of a key without an entry, at time t.
MissShut(k, t, c) ==
    /\ Cardinality(Passed(k, t - c.window)) <= Most(c)
    /\ \A h \in DOMAIN log : log[h].key = k => log[h].at < t

MissAt(k, c) ==
    IF k \in DOMAIN table THEN MissOpen(k, table[k].firstSeen, table[k].count, c)
                          ELSE MissShut(k, now, c)

MissInv ==
    \A rt \in Routes :
      Agreed(GetLoopDetection(rt)) => \A k \in Keys : MissAt(k, GetLoopDetection(rt))
-----------------------------------------------------------------------------
(* The configuration.                                                      *)

\* A resolved configuration: what the cascade leaves unset has its default.
LoopFields(c) ==
    /\ DOMAIN c = DOMAIN LoopDefault
    /\ c.threshold \in Nat \ {0} /\ c.window \in Nat \ {0}
    /\ c.escalateAfter \in Nat \ {0}

LEMMA OverrideFields ==
  ASSUME NEW c, LoopFields(c), NEW b \in LoopBlock \cup {NoBlock}
  PROVE  LoopFields(Override(c, b))
<1>1. CASE b = NoBlock
  BY <1>1 DEF Override
<1>2. CASE b # NoBlock
  <2>0. b \in LoopBlock
    BY <1>2
  <2>1. b.threshold \in Int /\ b.window \in Int /\ b.escalateAfter \in Int
    BY <2>0 DEF LoopBlock
  <2>2. DOMAIN c = {"enabled", "threshold", "window", "action", "escalateAfter",
                    "escalateAction"}
    BY DEF LoopFields, LoopDefault
  <2>3. /\ DOMAIN Override(c, b) = DOMAIN c
        /\ Override(c, b).threshold = IF b.threshold > 0 THEN b.threshold ELSE c.threshold
        /\ Override(c, b).window = IF b.window > 0 THEN b.window ELSE c.window
        /\ Override(c, b).escalateAfter =
             IF b.escalateAfter > 0 THEN b.escalateAfter ELSE c.escalateAfter
    BY <1>2, <2>2 DEF Override
  <2> QED
    BY <2>1, <2>3 DEF LoopFields
<1> QED
  BY <1>1, <1>2

LEMMA ConfigFields ==
  ASSUME defenders \in Setups, NEW rt \in Routes
  PROVE  LoopFields(GetLoopDetection(rt))
<1>1. LoopFields(LoopDefault)
  <2>1. /\ LoopDefault.threshold = 3 /\ LoopDefault.window = Window
        /\ LoopDefault.escalateAfter = 2
    BY DEF LoopDefault
  <2> QED
    BY <2>1, DefendersAssumption DEF LoopFields
<1>2. /\ defenders["global"].loop \in LoopBlock \cup {NoBlock}
      /\ defenders[rt].loop \in LoopBlock \cup {NoBlock}
  <2>1. defenders \in [Routes \cup {"global"} ->
                       [loop : LoopBlock \cup {NoBlock}, zero : ZeroBlock \cup {NoBlock}]]
    BY DefendersAssumption
  <2> QED
    BY <2>1
<1>3. LoopFields(Override(LoopDefault, defenders["global"].loop))
  BY <1>1, <1>2, OverrideFields
<1> QED
  BY <1>2, <1>3, OverrideFields DEF GetLoopDetection

-----------------------------------------------------------------------------
(* A check of the loop detector, told by what it does to the map and to    *)
(* the history.                                                            *)

SweepSize ==
    /\ Cardinality(DOMAIN table) % CleanupEvery = 0
    /\ Cardinality(DOMAIN table) > CleanupMin

WindowOf(rt) == GetLoopDetection(rt).window
ThresholdOf(rt) == GetLoopDetection(rt).threshold

\* The sweep leaves the keys S; k gets the entry e, the request the verdict v.
Checked(rt, k, S, e, v) ==
    /\ \A x \in DOMAIN table \ S : Stale(table[x], WindowOf(rt)) /\ SweepSize
    /\ SweepSize => \A x \in S : ~Stale(table[x], WindowOf(rt))
    /\ DOMAIN table' = S \cup {k} /\ table' \in [S \cup {k} -> Entries]
    /\ table'[k] = e /\ \A x \in S \ {k} : table'[x] = table[x]
    /\ log' = Append(log, [key |-> k, at |-> now, route |-> rt, verdict |-> v])
    /\ UNCHANGED <<defenders, now>>
    /\ \/ /\ k \in S => Stale(table[k], WindowOf(rt))
          /\ e.count = 1 /\ e.firstSeen = now /\ v = "none"
       \/ /\ k \in S /\ ~Stale(table[k], WindowOf(rt)) /\ e.firstSeen = table[k].firstSeen
          /\ \/ v = "none" /\ table[k].count + 1 < ThresholdOf(rt) /\ e.count = table[k].count + 1
             \/ /\ v # "none" /\ table[k].count + 1 >= ThresholdOf(rt)
                /\ e.count \in {table[k].count + 1, ThresholdOf(rt)}

LEMMA RepeatFacts ==
  ASSUME NEW e \in Entries, NEW c, LoopFields(c)
  PROVE  LET v == Repeat(e, c) IN
         /\ v.verdict \in Verdicts /\ v.entry \in Entries
         /\ v.entry.firstSeen = e.firstSeen
         /\ \/ v.verdict = "none" /\ e.count + 1 < c.threshold /\ v.entry.count = e.count + 1
            \/ /\ v.verdict # "none" /\ e.count + 1 >= c.threshold
               /\ v.entry.count \in {e.count + 1, c.threshold}
<1>0. /\ e.count \in Nat \ {0} /\ e.firstSeen \in Nat /\ e.escaped \in BOOLEAN
      /\ c.threshold \in Nat \ {0}
      /\ e = [count |-> e.count, firstSeen |-> e.firstSeen, escaped |-> e.escaped]
  BY DEF Entries, LoopFields
<1>1. CASE e.count + 1 < c.threshold
  <2>1. Repeat(e, c) = [verdict |-> "none", entry |-> [e EXCEPT !.count = e.count + 1]]
    BY <1>0, <1>1 DEF Repeat
  <2> QED
    BY <1>0, <1>1, <2>1 DEF Verdicts, Entries
<1>2. CASE ~(e.count + 1 < c.threshold)
  <2>0. e.count + 1 >= c.threshold
    BY <1>0, <1>2
  <2>1. CASE e.escaped \/ e.count + 1 >= c.threshold + c.escalateAfter
    <3>1. Repeat(e, c) = [verdict |-> "escalated",
                          entry |-> [count |-> e.count + 1, firstSeen |-> e.firstSeen,
                                     escaped |-> TRUE]]
      BY <1>0, <1>2, <2>0, <2>1 DEF Repeat
    <3> QED
      BY <1>0, <2>0, <3>1 DEF Verdicts, Entries
  <2>2. CASE ~(e.escaped \/ e.count + 1 >= c.threshold + c.escalateAfter)
    <3>1. Repeat(e, c) = [verdict |-> "detected", entry |-> [e EXCEPT !.count = c.threshold]]
      BY <1>0, <1>2, <2>0, <2>2 DEF Repeat
    <3> QED
      BY <1>0, <2>0, <3>1 DEF Verdicts, Entries
  <2> QED
    BY <2>1, <2>2
<1> QED
  BY <1>1, <1>2

LEMMA CheckFacts ==
  ASSUME DType, NEW r \in Reqs, NEW rt \in Routes, NEW k \in Keys, CheckLoop(r, rt, k)
  PROVE  \E S \in SUBSET DOMAIN table, e \in Entries, v \in Verdicts :
            /\ Checked(rt, k, S, e, v) /\ GetLoopDetection(rt).enabled
            /\ req[r] = Idle
            /\ v = "none" => req' = [req EXCEPT ![r] = [pc |-> "forwarded"]]
            /\ v # "none" => \E a :
                 req' = [req EXCEPT ![r] = [pc |-> "detected", key |-> k, action |-> a]]
<1> DEFINE c == GetLoopDetection(rt)
           t == Swept(c.window)
           v == IF Open(t, k, c.window) THEN Repeat(t[k], c) ELSE NewWindow
<1>0. LoopFields(c) /\ now \in Nat /\ DOMAIN table \subseteq Keys
      /\ table \in [DOMAIN table -> Entries]
  BY ConfigFields DEF DType
<1>1. /\ DOMAIN t \subseteq DOMAIN table /\ \A x \in DOMAIN t : t[x] = table[x]
      /\ \A x \in DOMAIN table \ DOMAIN t : Stale(table[x], c.window) /\ SweepSize
      /\ SweepSize => \A x \in DOMAIN t : ~Stale(table[x], c.window)
  <2>1. CASE SweepSize
    <3>1. t = [x \in {y \in DOMAIN table : ~Stale(table[y], c.window)} |-> table[x]]
      BY <2>1 DEF Swept, SweepSize, Restrict
    <3> QED
      BY <2>1, <3>1
  <2>2. CASE ~SweepSize
    <3>1. t = table
      BY <2>2 DEF Swept, SweepSize
    <3> QED
      BY <2>2, <3>1
  <2> QED
    BY <2>1, <2>2
<1> HIDE DEF t
<1>2. /\ v.entry \in Entries /\ v.verdict \in Verdicts
      /\ \/ /\ k \in DOMAIN t => Stale(table[k], c.window)
            /\ v.entry.count = 1 /\ v.entry.firstSeen = now /\ v.verdict = "none"
         \/ /\ k \in DOMAIN t /\ ~Stale(table[k], c.window)
            /\ v.entry.firstSeen = table[k].firstSeen
            /\ \/ /\ v.verdict = "none" /\ table[k].count + 1 < c.threshold
                  /\ v.entry.count = table[k].count + 1
               \/ /\ v.verdict # "none" /\ table[k].count + 1 >= c.threshold
                  /\ v.entry.count \in {table[k].count + 1, c.threshold}
  <2>1. CASE Open(t, k, c.window)
    <3>1. k \in DOMAIN t /\ ~Stale(table[k], c.window) /\ t[k] = table[k] /\ table[k] \in Entries
      BY <1>0, <1>1, <2>1 DEF Open
    <3>2. v = Repeat(table[k], c)
      BY <2>1, <3>1
    <3> HIDE DEF v, c
    <3> QED
      BY <1>0, <3>1, <3>2, RepeatFacts
  <2>2. CASE ~Open(t, k, c.window)
    <3>1. k \in DOMAIN t => Stale(table[k], c.window)
      BY <1>1, <2>2 DEF Open
    <3>2. v = NewWindow
      BY <2>2
    <3> HIDE DEF v, c
    <3> QED
      BY <1>0, <3>1, <3>2 DEF NewWindow, Entries, Verdicts
  <2> QED
    BY <2>1, <2>2
<1>3. /\ req[r] = Idle /\ c.enabled
      /\ table' = [x \in DOMAIN t \cup {k} |-> IF x = k THEN v.entry ELSE t[x]]
      /\ log' = Append(log, [key |-> k, at |-> now, route |-> rt, verdict |-> v.verdict])
      /\ UNCHANGED <<defenders, now>>
      /\ v.verdict = "none" => req' = [req EXCEPT ![r] = [pc |-> "forwarded"]]
      /\ v.verdict # "none" => req' = [req EXCEPT ![r] =
           [pc |-> "detected", key |-> k,
            action |-> IF v.verdict = "escalated" THEN c.escalateAction ELSE c.action]]
  BY DEF CheckLoop, Answer, t
<1> HIDE DEF v
<1>4. table' \in [DOMAIN t \cup {k} -> Entries] /\ table'[k] = v.entry
      /\ \A x \in DOMAIN t \ {k} : table'[x] = table[x]
  BY <1>0, <1>1, <1>2, <1>3
<1>5. Checked(rt, k, DOMAIN t, v.entry, v.verdict)
  BY <1>1, <1>2, <1>3, <1>4 DEF Checked, WindowOf, ThresholdOf
<1>6. v.verdict # "none" => \E a :
        req' = [req EXCEPT ![r] = [pc |-> "detected", key |-> k, action |-> a]]
  BY <1>3
<1> QED
  BY <1>1, <1>2, <1>3, <1>5, <1>6

\* The history grows by one check.
LEMMA Logged ==
  ASSUME log \in Seq(Check), NEW e \in Check, log' = Append(log, e)
  PROVE  /\ log' \in Seq(Check) /\ Len(log) \in Nat
         /\ DOMAIN log = 1 .. Len(log) /\ DOMAIN log' = 1 .. (Len(log) + 1)
         /\ \A h \in 1 .. Len(log) : log'[h] = log[h]
         /\ log'[Len(log) + 1] = e
  OBVIOUS

LEMMA LogFinite ==
  ASSUME log \in Seq(Check), NEW S \in SUBSET DOMAIN log
  PROVE  IsFiniteSet(S) /\ Cardinality(S) \in Nat
<1>1. DOMAIN log = 1 .. Len(log) /\ Len(log) \in Nat
  OBVIOUS
<1>2. IsFiniteSet(DOMAIN log)
  BY <1>1, FS_Interval
<1>3. IsFiniteSet(S)
  BY <1>2, FS_Subset
<1> QED
  BY <1>3, FS_CardinalityType

\* A check that follows, and what the history says of a key afterwards.
LEMMA CheckLogged ==
  ASSUME DInv, NEW rt \in Routes, NEW k \in Keys, NEW S \in SUBSET DOMAIN table,
         NEW e \in Entries, NEW v \in Verdicts, Checked(rt, k, S, e, v)
  PROVE  LET n == Len(log) + 1 IN
         /\ log' \in Seq(Check) /\ Len(log) \in Nat
         /\ DOMAIN log = 1 .. Len(log) /\ DOMAIN log' = 1 .. n
         /\ \A h \in DOMAIN log : log'[h] = log[h] /\ log[h] \in Check
         /\ log'[n].key = k /\ log'[n].at = now /\ log'[n].route = rt /\ log'[n].verdict = v
         /\ n \notin DOMAIN log /\ DOMAIN log' = DOMAIN log \cup {n}
         /\ DOMAIN log = 1 .. (n - 1)
<1> DEFINE c == [key |-> k, at |-> now, route |-> rt, verdict |-> v]
<1>1. c \in Check
  BY DEF DInv, DType, Check
<1>2. log \in Seq(Check) /\ log' = Append(log, c)
  BY DEF DInv, DType, Checked
<1>3. c.key = k /\ c.at = now /\ c.route = rt /\ c.verdict = v
  OBVIOUS
<1> HIDE DEF c
<1>4. /\ log' \in Seq(Check) /\ Len(log) \in Nat
      /\ DOMAIN log = 1 .. Len(log) /\ DOMAIN log' = 1 .. (Len(log) + 1)
      /\ \A h \in 1 .. Len(log) : log'[h] = log[h]
      /\ log'[Len(log) + 1] = c
  BY <1>1, <1>2, Logged
<1>5. \A h \in DOMAIN log : log[h] \in Check
  BY <1>2
<1>6. Len(log) = (Len(log) + 1) - 1
  BY <1>4
<1> QED
  BY <1>3, <1>4, <1>5, <1>6

LEMMA SinceOther ==
  ASSUME DInv, NEW rt \in Routes, NEW k \in Keys, NEW S \in SUBSET DOMAIN table,
         NEW e \in Entries, NEW v \in Verdicts, Checked(rt, k, S, e, v),
         NEW x, x # k, NEW f \in Int
  PROVE  Since(x, f)' = Since(x, f)
<1>n. PICK n \in Nat : n = Len(log) + 1
  BY DEF DInv, DType
<1>1. /\ DOMAIN log' = DOMAIN log \cup {n} /\ \A h \in DOMAIN log : log'[h] = log[h]
      /\ log'[n].key = k
  BY <1>n, CheckLogged
<1> QED
  BY <1>1 DEF Since

LEMMA SinceGrows ==
  ASSUME DInv, NEW rt \in Routes, NEW k \in Keys, NEW S \in SUBSET DOMAIN table,
         NEW e \in Entries, NEW v \in Verdicts, Checked(rt, k, S, e, v),
         NEW f \in Int, f <= now
  PROVE  /\ Since(k, f)' = Since(k, f) \cup {Len(log) + 1}
         /\ Len(log) + 1 \notin Since(k, f)
<1>n. PICK n \in Nat : n = Len(log) + 1
  BY DEF DInv, DType
<1>1. /\ DOMAIN log' = DOMAIN log \cup {n} /\ n \notin DOMAIN log
      /\ \A h \in DOMAIN log : log'[h] = log[h] /\ log[h] \in Check
      /\ log'[n].key = k /\ log'[n].at = now
  BY <1>n, CheckLogged
<1>2. now \in Nat
  BY DEF DInv, DType
<1>3. Since(k, f)' = Since(k, f) \cup {n}
  BY <1>1, <1>2 DEF Since
<1>4. n \notin Since(k, f)
  BY <1>1 DEF Since
<1> QED
  BY <1>n, <1>3, <1>4

\* The new entry of the checked key has counted no more than the history.
LEMMA CheckEntry ==
  ASSUME DInv, NEW rt \in Routes, NEW k \in Keys, NEW S \in SUBSET DOMAIN table,
         NEW e \in Entries, NEW v \in Verdicts, Checked(rt, k, S, e, v)
  PROVE  /\ e.firstSeen \in Nat /\ e.firstSeen <= now
         /\ e.count <= Cardinality(Since(k, e.firstSeen)')
         /\ v # "none" => /\ ThresholdOf(rt) <= Cardinality(Since(k, e.firstSeen)')
                          /\ now - e.firstSeen <= WindowOf(rt)
         /\ \E h \in DOMAIN log' : log'[h].key = k /\ log'[h].at = e.firstSeen
<1> DEFINE n == Len(log) + 1
           f == e.firstSeen
<1>0. /\ now \in Nat /\ e.count \in Nat /\ f \in Nat /\ log \in Seq(Check)
      /\ ThresholdOf(rt) \in Nat \ {0} /\ WindowOf(rt) \in Nat
  <2>1. LoopFields(GetLoopDetection(rt))
    BY ConfigFields DEF DInv, DType
  <2> QED
    BY <2>1 DEF DInv, DType, Entries, LoopFields, ThresholdOf, WindowOf
<1>1. /\ DOMAIN log' = DOMAIN log \cup {n} /\ n \notin DOMAIN log
      /\ \A h \in DOMAIN log : log'[h] = log[h]
      /\ log'[n].key = k /\ log'[n].at = now
  BY CheckLogged
<1>2. f <= now
  BY <1>0 DEF Checked, DInv, EntryAt
<1>3. Since(k, f)' = Since(k, f) \cup {n} /\ n \notin Since(k, f)
  <2>1. f \in Int
    BY <1>0
  <2> HIDE DEF f
  <2> QED
    BY <1>2, <2>1, SinceGrows
<1>4. IsFiniteSet(Since(k, f)) /\ Cardinality(Since(k, f)) \in Nat
  <2>1. Since(k, f) \subseteq DOMAIN log
    BY DEF Since
  <2> QED
    BY <1>0, <2>1, LogFinite
<1>5. Cardinality(Since(k, f)') = Cardinality(Since(k, f)) + 1
  BY <1>3, <1>4, FS_AddElement
<1>6. CASE e.count = 1 /\ f = now /\ v = "none"
  <2>1. \E h \in DOMAIN log' : log'[h].key = k /\ log'[h].at = e.firstSeen
    BY <1>1, <1>6
  <2>2. e.count <= Cardinality(Since(k, e.firstSeen)')
    BY <1>4, <1>5, <1>6
  <2> QED
    BY <1>0, <1>2, <1>6, <2>1, <2>2
<1>7. CASE /\ k \in S /\ ~Stale(table[k], WindowOf(rt)) /\ f = table[k].firstSeen
           /\ \/ v = "none" /\ e.count = table[k].count + 1
              \/ /\ v # "none" /\ table[k].count + 1 >= ThresholdOf(rt)
                 /\ e.count \in {table[k].count + 1, ThresholdOf(rt)}
  <2>1. /\ table[k].count \in Nat /\ table[k].count <= Cardinality(Since(k, f))
        /\ \E h \in DOMAIN log : log[h].key = k /\ log[h].at = f
    BY <1>7 DEF DInv, DType, EntryAt, Entries
  <2>2. now - f <= WindowOf(rt)
    BY <1>0, <1>7 DEF Stale
  <2>3. \E h \in DOMAIN log' : log'[h].key = k /\ log'[h].at = e.firstSeen
    BY <1>1, <2>1
  <2>4. /\ e.count <= Cardinality(Since(k, e.firstSeen)')
        /\ v # "none" => ThresholdOf(rt) <= Cardinality(Since(k, e.firstSeen)')
    BY <1>0, <1>4, <1>5, <1>7, <2>1
  <2> QED
    BY <1>0, <1>2, <2>2, <2>3, <2>4
<1> QED
  BY <1>6, <1>7 DEF Checked

LEMMA CheckDInv ==
  ASSUME DInv, NEW r \in Reqs, NEW rt \in Routes, NEW k \in Keys, CheckLoop(r, rt, k)
  PROVE  DInv'
<1>0. DType
  BY DEF DInv
<1>1. PICK S \in SUBSET DOMAIN table, e \in Entries, v \in Verdicts :
        /\ Checked(rt, k, S, e, v) /\ GetLoopDetection(rt).enabled
        /\ v = "none" => req' = [req EXCEPT ![r] = [pc |-> "forwarded"]]
        /\ v # "none" => \E a :
             req' = [req EXCEPT ![r] = [pc |-> "detected", key |-> k, action |-> a]]
  BY <1>0, CheckFacts
<1>n. PICK n \in Nat : n = Len(log) + 1
  BY <1>0 DEF DType
<1>2. /\ log' \in Seq(Check) /\ DOMAIN log' = DOMAIN log \cup {n} /\ n \notin DOMAIN log
      /\ \A h \in DOMAIN log : log'[h] = log[h] /\ log[h] \in Check
      /\ log'[n].key = k /\ log'[n].at = now /\ log'[n].route = rt
  BY <1>1, <1>n, CheckLogged
<1>3. /\ UNCHANGED <<defenders, now>> /\ DOMAIN table' = S \cup {k}
      /\ table' \in [S \cup {k} -> Entries]
      /\ table'[k] = e /\ \A x \in S \ {k} : table'[x] = table[x]
  BY <1>1 DEF Checked
<1>4. DType'
  <2>1. DOMAIN req' = Reqs /\ \A q \in Reqs \ {r} : req'[q] = req[q]
    BY <1>0, <1>1 DEF DType
  <2>2. req'[r].pc = "detected" => req'[r].key \in Keys
    <3>1. CASE v = "none"
      <4>1. req'[r] = [pc |-> "forwarded"]
        BY <1>0, <1>1, <3>1 DEF DType
      <4> QED
        BY <4>1
    <3>2. CASE v # "none"
      <4>1. PICK a : req' = [req EXCEPT ![r] = [pc |-> "detected", key |-> k, action |-> a]]
        BY <1>1, <3>2
      <4>2. req'[r] = [pc |-> "detected", key |-> k, action |-> a]
        BY <1>0, <4>1 DEF DType
      <4> QED
        BY <4>2
    <3> QED
      BY <3>1, <3>2
  <2>3. \A q \in Reqs : req'[q].pc = "detected" => req'[q].key \in Keys
    BY <1>0, <2>1, <2>2 DEF DType
  <2> QED
    BY <1>0, <1>2, <1>3, <2>1, <2>3 DEF DType
<1>5. LogOrder'
  <2>1. ASSUME NEW h \in DOMAIN log
        PROVE  log'[h].at <= now' /\ GetLoopDetection(log[h].route)'.enabled
    BY <1>2, <1>3 DEF DInv, LogOrder, GetLoopDetection
  <2>2. now <= now' /\ now \in Nat
    BY <1>0, <1>3 DEF DType
  <2>3. log'[n].at <= now' /\ GetLoopDetection(log[n].route)'.enabled
    BY <1>1, <1>2, <1>3, <2>2 DEF GetLoopDetection
  <2> QED
    BY <1>2, <2>1, <2>3 DEF LogOrder
<1>6. ASSUME NEW x \in S \cup {k} PROVE EntryAt(x)'
  <2>1. CASE x = k
    BY <1>1, <1>3, <2>1, CheckEntry DEF EntryAt
  <2>2. CASE x # k
    <3>0. x \in S /\ table'[x] = table[x] /\ EntryAt(x)
      BY <1>3, <2>2 DEF DInv
    <3>1. PICK f \in Int : f = table[x].firstSeen
      BY <1>0, <3>0 DEF DType, Entries
    <3>2. Since(x, f)' = Since(x, f)
      <4>1. Checked(rt, k, S, e, v)
        BY <1>1
      <4> QED
        BY <2>2, <4>1, SinceOther
    <3>3. \E h \in DOMAIN log' : log'[h].key = x /\ log'[h].at = f
      BY <1>2, <3>0, <3>1 DEF EntryAt
    <3> QED
      BY <1>3, <3>0, <3>1, <3>2, <3>3 DEF EntryAt
  <2> QED
    BY <2>1, <2>2
<1> QED
  BY <1>3, <1>4, <1>5, <1>6 DEF DInv

\* The other steps leave the map and the history alone.
Quiet ==
    /\ UNCHANGED <<defenders, table, log>>
    /\ now' \in Nat /\ now' >= now /\ DOMAIN req' = Reqs
    /\ \A r \in Reqs :
         /\ req'[r].pc = "detected" => req'[r] = req[r]
         /\ req'[r].pc = "panicked" =>
              \/ req'[r] = req[r]
              \/ req[r].pc = "detected" /\ req[r].key \notin DOMAIN table

LEMMA QuietSteps ==
  ASSUME DInv, [Next]_vars
  PROVE  Quiet \/ \E r \in Reqs, rt \in Routes, k \in Keys : CheckLoop(r, rt, k)
<1>0. DType
  BY DEF DInv
<1>1. ASSUME NEW r \in Reqs, NEW o, o # "detected", Answer(r, o),
             UNCHANGED <<defenders, now, table, log>>,
             o = "panicked" => req[r].pc = "detected" /\ req[r].key \notin DOMAIN table
      PROVE  Quiet
  <2>1. /\ DOMAIN req' = Reqs /\ req'[r] = [pc |-> o]
        /\ \A q \in Reqs \ {r} : req'[q] = req[q]
    BY <1>0, <1>1 DEF Answer, DType
  <2>2. req'[r].pc = o
    BY <2>1
  <2>3. now' \in Nat /\ now' >= now
    BY <1>0, <1>1 DEF DType
  <2> QED
    BY <1>1, <2>1, <2>2, <2>3 DEF Quiet
<1>2. ASSUME UNCHANGED <<defenders, table, req, log>>, now' \in Nat, now' >= now
      PROVE  Quiet
  BY <1>0, <1>2 DEF Quiet, DType
<1>3. ASSUME NEW r \in Reqs, NEW rt \in Routes,
             RefuseZeroContent(r, rt) \/ \E b \in BOOLEAN : SkipLoopDetection(r, rt, b)
      PROVE  Quiet
  <2>1. UNCHANGED <<defenders, now, table, log>>
        /\ (Answer(r, "zeroContent") \/ Answer(r, "forwarded"))
    BY <1>3 DEF RefuseZeroContent, SkipLoopDetection
  <2> QED
    BY <1>1, <2>1
<1>4. ASSUME NEW r \in Reqs, ApplyLoopDetected(r) PROVE Quiet
  <2>1. UNCHANGED <<defenders, now, table, log>>
        /\ \/ \E o \in {"refused", "injected", "forwarded"} : Answer(r, o)
           \/ /\ Answer(r, "panicked")
              /\ req[r].pc = "detected" /\ req[r].key \notin DOMAIN table
    BY <1>4 DEF ApplyLoopDetected
  <2> QED
    BY <1>1, <2>1
<1>5. ASSUME NEW r \in Reqs, NEW q \in Reqs, ConcurrentMapAccess(r, q) PROVE Quiet
  <2>1. now' \in Nat /\ now' >= now
    BY <1>0, <1>5 DEF ConcurrentMapAccess, DType
  <2> QED
    BY <1>2, <1>5, <2>1 DEF ConcurrentMapAccess
<1>6. CASE Tick
  <2>1. now' \in Nat /\ now' >= now
    BY <1>0, <1>6 DEF Tick, DType
  <2> QED
    BY <1>2, <1>6, <2>1 DEF Tick
<1>7. CASE UNCHANGED vars
  <2>1. now' \in Nat /\ now' >= now
    BY <1>0, <1>7 DEF vars, DType
  <2> QED
    BY <1>2, <1>7, <2>1 DEF vars
<1> QED
  BY <1>3, <1>4, <1>5, <1>6, <1>7 DEF Next

LEMMA QuietDInv == DInv /\ Quiet => DInv'
<1> SUFFICES ASSUME DInv, Quiet PROVE DInv'
  OBVIOUS
<1>1. DType'
  BY DEF DInv, DType, Quiet
<1>2. LogOrder'
  <2>1. ASSUME NEW h \in DOMAIN log PROVE log[h].at \in Nat /\ log[h].at <= now /\ now \in Nat
    <3>1. log[h] \in Check /\ log[h].at <= now /\ now \in Nat
      BY DEF DInv, DType, LogOrder
    <3> QED
      BY <3>1 DEF Check
  <2>2. \A h \in DOMAIN log : log'[h].at <= now'
    BY <2>1 DEF Quiet
  <2> QED
    BY <2>2 DEF DInv, LogOrder, Quiet, GetLoopDetection
<1>3. ASSUME NEW k \in DOMAIN table PROVE EntryAt(k)'
  <2>1. table[k].firstSeen \in Nat /\ table[k].firstSeen <= now /\ now \in Nat
    BY DEF DInv, DType, EntryAt, Entries
  <2>2. table'[k].firstSeen <= now'
    BY <2>1 DEF Quiet
  <2>3. Since(k, table[k].firstSeen)' = Since(k, table[k].firstSeen)
    BY DEF Since, Quiet
  <2> QED
    BY <2>2, <2>3 DEF DInv, EntryAt, Quiet
<1> QED
  BY <1>1, <1>2, <1>3 DEF DInv, Quiet

LEMMA AlwaysDInv == Spec => []DInv
<1>1. Init => DInv
  <2> SUFFICES ASSUME Init PROVE DInv
    OBVIOUS
  <2>1. DOMAIN table = {} /\ DOMAIN log = {} /\ log \in Seq(Check)
    BY DEF Init
  <2>2. table \in [DOMAIN table -> Entries] /\ DOMAIN req = Reqs
    BY <2>1 DEF Init
  <2>3. \A r \in Reqs : req[r].pc # "detected"
    BY DEF Init, Idle
  <2> QED
    BY <2>1, <2>2, <2>3 DEF Init, DInv, DType, LogOrder
<1>2. DInv /\ [Next]_vars => DInv'
  BY QuietSteps, QuietDInv, CheckDInv
<1> QED
  BY <1>1, <1>2, PTL DEF Spec
-----------------------------------------------------------------------------
(* Type correctness.                                                       *)

\* A request is answered, or carries a key and an action that is set.
ReqType(q) ==
    \/ q \in [pc : {"new", "forwarded", "injected", "refused", "zeroContent", "panicked"}]
    \/ q.pc = "detected" /\ q.key \in Keys /\ q.action # ""

TInv == now \in 0 .. MaxTime /\ crashed \in BOOLEAN /\ \A r \in Reqs : ReqType(req[r])

ActionsSet(c) ==
    /\ DOMAIN c = DOMAIN LoopDefault
    /\ c.action # "" /\ c.escalateAction # ""

\* A block that leaves an action out does not unset the one it overrides.
LEMMA OverrideActions ==
  ASSUME NEW c, ActionsSet(c), NEW b \in LoopBlock \cup {NoBlock}
  PROVE  ActionsSet(Override(c, b))
<1>1. CASE b = NoBlock
  BY <1>1 DEF Override
<1>2. CASE b # NoBlock
  <2>1. DOMAIN c = {"enabled", "threshold", "window", "action", "escalateAfter",
                    "escalateAction"}
    BY DEF ActionsSet, LoopDefault
  <2>2. /\ DOMAIN Override(c, b) = DOMAIN c
        /\ Override(c, b).action = IF b.action # "" THEN b.action ELSE c.action
        /\ Override(c, b).escalateAction =
             IF b.escalateAction # "" THEN b.escalateAction ELSE c.escalateAction
    BY <1>2, <2>1 DEF Override
  <2> QED
    BY <2>2 DEF ActionsSet
<1> QED
  BY <1>1, <1>2

LEMMA ConfigActions ==
  ASSUME defenders \in Setups, NEW rt \in Routes
  PROVE  ActionsSet(GetLoopDetection(rt))
<1>1. ActionsSet(LoopDefault)
  <2>1. LoopDefault.action = "inject_forcing_message" /\ LoopDefault.escalateAction = "refuse_429"
    BY DEF LoopDefault
  <2>2. "inject_forcing_message" # "" /\ "refuse_429" # ""
    BY Zenon
  <2> QED
    BY <2>1, <2>2 DEF ActionsSet
<1>2. /\ defenders["global"].loop \in LoopBlock \cup {NoBlock}
      /\ defenders[rt].loop \in LoopBlock \cup {NoBlock}
  <2>1. defenders \in [Routes \cup {"global"} ->
                       [loop : LoopBlock \cup {NoBlock}, zero : ZeroBlock \cup {NoBlock}]]
    BY DefendersAssumption
  <2> QED
    BY <2>1
<1>3. ActionsSet(Override(LoopDefault, defenders["global"].loop))
  BY <1>1, <1>2, OverrideActions
<1> QED
  BY <1>2, <1>3, OverrideActions DEF GetLoopDetection

\* An answer in one of the words keeps the requests' types.
LEMMA AnswerType ==
  ASSUME DType, TInv, NEW r \in Reqs, NEW v, ReqType(v), req' = [req EXCEPT ![r] = v],
         now' = now, crashed' = crashed
  PROVE  TInv'
<1>1. \A q \in Reqs : req'[q] = IF q = r THEN v ELSE req[q]
  BY DEF DType
<1>2. \A q \in Reqs : ReqType(req'[q])
  BY <1>1 DEF TInv
<1> QED
  BY <1>2 DEF TInv

LEMMA NextTInv == DInv /\ TInv /\ [Next]_vars => TInv'
<1> SUFFICES ASSUME DInv, TInv, [Next]_vars PROVE TInv'
  OBVIOUS
<1>0. DType
  BY DEF DInv
<1>1. ASSUME NEW r \in Reqs, NEW rt \in Routes,
             RefuseZeroContent(r, rt) \/ \E noUser \in BOOLEAN : SkipLoopDetection(r, rt, noUser)
      PROVE  TInv'
  <2>1. PICK o \in {"zeroContent", "forwarded"} : Answer(r, o) /\ now' = now /\ crashed' = crashed
    BY <1>1 DEF RefuseZeroContent, SkipLoopDetection
  <2>2. ReqType([pc |-> o])
    BY <2>1 DEF ReqType
  <2> QED
    BY <1>0, <2>1, <2>2, AnswerType DEF Answer
<1>2. ASSUME NEW r \in Reqs, NEW rt \in Routes, NEW k \in Keys, CheckLoop(r, rt, k)
      PROVE  TInv'
  <2>1. ActionsSet(GetLoopDetection(rt))
    BY <1>0, ConfigActions DEF DType
  <2>2. PICK v : /\ req' = [req EXCEPT ![r] = v]
                 /\ \/ v = [pc |-> "forwarded"]
                    \/ \E a \in {GetLoopDetection(rt).action, GetLoopDetection(rt).escalateAction} :
                         v = [pc |-> "detected", key |-> k, action |-> a]
    BY <1>2 DEF CheckLoop, Answer
  <2>3. ReqType(v)
    <3>1. CASE v = [pc |-> "forwarded"]
      BY <3>1 DEF ReqType
    <3>2. CASE v # [pc |-> "forwarded"]
      <4>1. PICK a \in {GetLoopDetection(rt).action, GetLoopDetection(rt).escalateAction} :
              v = [pc |-> "detected", key |-> k, action |-> a]
        BY <2>2, <3>2
      <4>2. a # ""
        BY <2>1, <4>1 DEF ActionsSet
      <4>3. v.pc = "detected" /\ v.key = k /\ v.action = a
        BY <4>1
      <4> QED
        BY <4>2, <4>3 DEF ReqType
    <3> QED
      BY <3>1, <3>2
  <2>4. now' = now /\ crashed' = crashed
    BY <1>2 DEF CheckLoop
  <2> QED
    BY <1>0, <2>2, <2>3, <2>4, AnswerType
<1>3. ASSUME NEW r \in Reqs, ApplyLoopDetected(r) PROVE TInv'
  <2>1. PICK o \in {"panicked", "refused", "injected", "forwarded"} : Answer(r, o)
    BY <1>3 DEF ApplyLoopDetected
  <2>2. ReqType([pc |-> o]) /\ now' = now /\ crashed' = crashed
    BY <1>3, <2>1 DEF ReqType, ApplyLoopDetected
  <2> QED
    BY <1>0, <2>1, <2>2, AnswerType DEF Answer
<1>4. ASSUME NEW r \in Reqs, NEW q \in Reqs, ConcurrentMapAccess(r, q) PROVE TInv'
  BY <1>4 DEF ConcurrentMapAccess, TInv
<1>5. CASE Tick
  BY <1>5, DefendersAssumption DEF Tick, TInv
<1>6. CASE UNCHANGED vars
  BY <1>6 DEF vars, TInv
<1> QED
  BY <1>1, <1>2, <1>3, <1>4, <1>5, <1>6 DEF Next

\* Whatever blocks the file leaves out or sets to nothing, an entry has counted an
\* arrival and was opened in the past, and a request found looping carries a key
\* and an action that is set (checkLoop, GetLoopDetection).
THEOREM TypeCorrect == Spec => []TypeOK
<1>1. Init => TInv
  <2>1. ReqType(Idle)
    BY DEF ReqType, Idle
  <2>2. Init => \A r \in Reqs : req[r] = Idle
    BY DEF Init
  <2> QED
    <3> SUFFICES ASSUME Init PROVE TInv
      OBVIOUS
    <3>1. now \in 0 .. MaxTime
      BY DefendersAssumption DEF Init
    <3>2. crashed \in BOOLEAN
      BY Zenon DEF Init
    <3> QED
      BY <2>1, <2>2, <3>1, <3>2 DEF TInv
<1>2. Spec => []TInv
  BY <1>1, NextTInv, AlwaysDInv, PTL DEF Spec
<1>3. DInv /\ TInv => TypeOK
  <2> SUFFICES ASSUME DInv, TInv PROVE TypeOK
    OBVIOUS
  <2>1. ASSUME NEW k \in DOMAIN table
        PROVE  table[k] \in [count : Nat \ {0}, firstSeen : 0 .. now, escaped : BOOLEAN]
    <3>1. table[k] \in Entries /\ table[k].firstSeen <= now
      BY DEF DInv, DType, EntryAt
    <3>2. now \in Nat
      BY DEF DInv, DType
    <3> QED
      BY <3>1, <3>2 DEF Entries
  <2> QED
    BY <2>1 DEF TypeOK, DInv, DType, TInv, ReqType
<1> QED
  BY <1>2, <1>3, AlwaysDInv, PTL

-----------------------------------------------------------------------------
(* No false alarm.                                                         *)

AlarmAt(i) ==
    LET c == GetLoopDetection(log[i].route) IN
    log[i].verdict # "none" => Cardinality(Recent(i, c.window)) >= c.threshold

LEMMA AlarmStep ==
  ASSUME DInv, NoFalseAlarm, NEW rt \in Routes, NEW k \in Keys, NEW S \in SUBSET DOMAIN table,
         NEW e \in Entries, NEW v \in Verdicts, Checked(rt, k, S, e, v)
  PROVE  NoFalseAlarm'
<1>n. PICK n \in Nat : n = Len(log) + 1
  BY DEF DInv, DType
<1>1. /\ log' \in Seq(Check) /\ DOMAIN log' = 1 .. n /\ DOMAIN log = 1 .. (n - 1)
      /\ \A h \in DOMAIN log : log'[h] = log[h]
      /\ log'[n].key = k /\ log'[n].at = now /\ log'[n].route = rt /\ log'[n].verdict = v
  BY <1>n, CheckLogged
<1>2. UNCHANGED <<defenders, now>> /\ now \in Nat
  BY DEF Checked, DInv, DType
<1>3. ASSUME NEW i \in DOMAIN log', NEW w, NEW t, NEW q, q = log'[i].route,
             w = GetLoopDetection(q).window, t = GetLoopDetection(q).threshold,
             Cardinality(Recent(i, w)') >= t
      PROVE  AlarmAt(i)'
  <2>1. /\ GetLoopDetection(log[i].route)'.window = w
        /\ GetLoopDetection(log[i].route)'.threshold = t
    BY <1>2, <1>3 DEF GetLoopDetection
  <2>2. Recent(i, GetLoopDetection(log[i].route).window)' = Recent(i, w)'
    BY <2>1 DEF Recent
  <2> QED
    BY <1>3, <2>1, <2>2 DEF AlarmAt
<1>4. ASSUME NEW i \in 1 .. (n - 1), log'[i].verdict # "none" PROVE AlarmAt(i)'
  <2>0. i \in DOMAIN log /\ i \in DOMAIN log' /\ \A h \in 1 .. i : h \in DOMAIN log
    BY <1>1
  <2>1. PICK q, w, t : /\ q = log[i].route /\ w = GetLoopDetection(q).window
                       /\ t = GetLoopDetection(q).threshold
    OBVIOUS
  <2>2. Recent(i, w)' = Recent(i, w)
    BY <1>1, <2>0 DEF Recent
  <2>3. Cardinality(Recent(i, w)) >= t
    BY <1>1, <1>4, <2>0, <2>1 DEF NoFalseAlarm
  <2>4. log'[i].route = q
    BY <1>1, <2>0, <2>1
  <2> QED
    BY <1>3, <2>0, <2>1, <2>2, <2>3, <2>4
<1>5. ASSUME v # "none" PROVE AlarmAt(n)'
  <2>1. PICK w : w = WindowOf(rt)
    OBVIOUS
  <2>2. /\ w \in Nat /\ ThresholdOf(rt) \in Nat
    <3>1. LoopFields(GetLoopDetection(rt))
      BY ConfigFields DEF DInv, DType
    <3> QED
      BY <2>1, <3>1 DEF LoopFields, WindowOf, ThresholdOf
  <2>3. PICK f \in Nat : f = e.firstSeen
    BY DEF Entries
  <2>4. ThresholdOf(rt) <= Cardinality(Since(k, f)') /\ now - f <= w
    BY <1>5, <2>1, <2>3, CheckEntry
  <2>5. Since(k, f)' \subseteq Recent(n, w)'
    <3>1. ASSUME NEW h \in Since(k, f)' PROVE h \in Recent(n, w)'
      <4>1. h \in 1 .. n /\ log'[h].key = k /\ log'[h].at >= f /\ log'[h].at \in Nat
        <5>1. h \in DOMAIN log' /\ log'[h].key = k /\ log'[h].at >= f
          BY <3>1 DEF Since
        <5>2. log'[h] \in Check
          BY <1>1, <5>1
        <5> QED
          BY <1>1, <5>1, <5>2 DEF Check
      <4>2. now - log'[h].at <= w
        BY <1>2, <2>2, <2>3, <2>4, <4>1
      <4> QED
        BY <1>1, <4>1, <4>2 DEF Recent
    <3> QED
      BY <3>1
  <2>6. IsFiniteSet(Recent(n, w)')
    <3>1. Recent(n, w)' \subseteq 1 .. n /\ IsFiniteSet(1 .. n)
      BY FS_Interval DEF Recent
    <3> QED
      BY <3>1, FS_Subset
  <2>7. Cardinality(Since(k, f)') <= Cardinality(Recent(n, w)')
        /\ Cardinality(Since(k, f)') \in Nat /\ Cardinality(Recent(n, w)') \in Nat
    BY <2>5, <2>6, FS_Subset, FS_CardinalityType
  <2>8. Cardinality(Recent(n, w)') >= ThresholdOf(rt)
    BY <2>2, <2>4, <2>7
  <2>9. n \in DOMAIN log'
    BY <1>n, <1>1
  <2> QED
    BY <1>1, <1>3, <2>1, <2>8, <2>9 DEF WindowOf, ThresholdOf
<1>6. ASSUME NEW i \in DOMAIN log' PROVE AlarmAt(i)'
  <2>1. CASE log'[i].verdict = "none"
    BY <2>1 DEF AlarmAt
  <2>2. CASE log'[i].verdict # "none"
    <3>1. i \in 1 .. (n - 1) \/ i = n
      BY <1>1
    <3> QED
      BY <1>1, <1>4, <1>5, <2>2, <3>1
  <2> QED
    BY <2>1, <2>2
<1> QED
  BY <1>6 DEF NoFalseAlarm, AlarmAt

(* Under any mixture of routes, thresholds and windows a request is only   *)
(* accused of looping when it is at least the threshold'th of its kind in  *)
(* its route's window (loopDetector.checkLoop).                            *)
THEOREM NoFalseAlarmHolds == Spec => []NoFalseAlarm
<1>1. Init => NoFalseAlarm
  BY DEF Init, NoFalseAlarm
<1>2. DInv /\ NoFalseAlarm /\ [Next]_vars => NoFalseAlarm'
  <2> SUFFICES ASSUME DInv, NoFalseAlarm, [Next]_vars PROVE NoFalseAlarm'
    OBVIOUS
  <2>1. CASE Quiet
    <3>1. UNCHANGED <<defenders, log>>
      BY <2>1 DEF Quiet
    <3> QED
      BY <3>1 DEF NoFalseAlarm, Recent, GetLoopDetection
  <2>2. ASSUME NEW r \in Reqs, NEW rt \in Routes, NEW k \in Keys, CheckLoop(r, rt, k)
        PROVE  NoFalseAlarm'
    BY <2>2, CheckFacts, AlarmStep DEF DInv
  <2> QED
    BY <2>1, <2>2, QuietSteps
<1> QED
  BY <1>1, <1>2, AlwaysDInv, PTL DEF Spec
-----------------------------------------------------------------------------
(* The second lookup.                                                      *)

LEMMA TableFinite ==
  ASSUME DInv, NEW S \in SUBSET DOMAIN table
  PROVE  IsFiniteSet(S) /\ Cardinality(S) \in Nat
<1>1. S \subseteq Keys
  BY DEF DInv, DType
<1>2. IsFiniteSet(S)
  BY <1>1, DefendersAssumption, FS_Subset
<1> QED
  BY <1>2, FS_CardinalityType

\* A map that is swept has at least CleanupEvery keys, all of them checked.
LEMMA SweptKeys ==
  ASSUME DInv, SweepSize
  PROVE  Cardinality({log[g].key : g \in DOMAIN log}) >= CleanupEvery
<1> DEFINE K == {log[g].key : g \in DOMAIN log}
           m == Cardinality(DOMAIN table)
<1>1. DOMAIN table \subseteq K
  BY DEF DInv, EntryAt
<1>2. IsFiniteSet(K)
  <2>1. K \subseteq Keys
    <3>1. \A g \in DOMAIN log : log[g] \in Check
      BY DEF DInv, DType
    <3> QED
      BY <3>1 DEF Check
  <2> QED
    BY <2>1, DefendersAssumption, FS_Subset
<1>3. m <= Cardinality(K) /\ m \in Nat /\ Cardinality(K) \in Nat
  BY <1>1, <1>2, FS_Subset, FS_CardinalityType
<1>4. m % CleanupEvery = 0 /\ m > 0 /\ CleanupEvery \in Nat \ {0}
  BY <1>3, DefendersAssumption DEF SweepSize
<1> HIDE DEF m
<1>5. m >= CleanupEvery
  BY <1>3, <1>4
<1> QED
  BY <1>3, <1>5, DefendersAssumption

\* An entry that a request was accused by stays, or a sweep has taken it.
LEMMA HeldOrLost ==
  ASSUME DInv, NEW rt \in Routes, NEW k \in Keys, NEW S \in SUBSET DOMAIN table,
         NEW e \in Entries, NEW v \in Verdicts, Checked(rt, k, S, e, v),
         NEW i \in DOMAIN log
  PROVE  (Lost(i) => Lost(i)') /\ (Held(i) => Held(i)' \/ Lost(i)')
<1>n. PICK n \in Nat : n = Len(log) + 1
  BY DEF DInv, DType
<1>1. /\ DOMAIN log' = 1 .. n /\ DOMAIN log = 1 .. (n - 1)
      /\ \A h \in DOMAIN log : log'[h] = log[h] /\ log[h] \in Check
      /\ log'[n].key = k /\ log'[n].at = now /\ log'[n].route = rt
  BY <1>n, CheckLogged
<1>2. UNCHANGED <<defenders, now>> /\ now \in Nat
  BY DEF Checked, DInv, DType
<1>3. i \in 1 .. (n - 1) /\ \A h \in 1 .. i : h \in DOMAIN log
  BY <1>1
<1>4. Lost(i) => Lost(i)'
  <2> SUFFICES ASSUME Lost(i) PROVE Lost(i)'
    OBVIOUS
  <2>1. PICK j \in DOMAIN log, h \in 1 .. i : SweptAway(h, i, j)
    BY DEF Lost
  <2>2. j \in DOMAIN log' /\ h \in DOMAIN log /\ \A g \in 1 .. j - 1 : g \in DOMAIN log
    BY <1>1, <1>3
  <2>3. {log'[g].key : g \in 1 .. j - 1} = {log[g].key : g \in 1 .. j - 1}
    BY <1>1, <2>2
  <2>4. SweptAway(h, i, j)'
    BY <1>1, <1>2, <2>1, <2>2, <2>3 DEF SweptAway, GetLoopDetection
  <2> QED
    BY <2>2, <2>4 DEF Lost
<1>5. Held(i) => Held(i)' \/ Lost(i)'
  <2> SUFFICES ASSUME Held(i) PROVE Held(i)' \/ Lost(i)'
    OBVIOUS
  <2>1. PICK x \in DOMAIN table : x = log[i].key
    BY DEF Held
  <2>2. PICK h \in 1 .. i : log[h].key = x /\ log[h].at <= table[x].firstSeen
    BY <2>1 DEF Held
  <2>3. log'[i].key = x /\ log'[h].key = x /\ log'[h].at = log[h].at /\ log[h].at \in Nat
    BY <1>1, <1>3, <2>1, <2>2 DEF Check
  <2>4. table[x].firstSeen \in Nat /\ table[x].firstSeen <= now
    BY DEF DInv, DType, EntryAt, Entries
  <2>5. CASE x = k \/ x \in S
    <3>1. x \in DOMAIN table' /\ table'[x].firstSeen >= table[x].firstSeen
      <4>1. CASE x = k
        <5>1. e.firstSeen = now \/ e.firstSeen = table[k].firstSeen
          BY DEF Checked
        <5> QED
          BY <4>1, <5>1, <2>4 DEF Checked
      <4>2. CASE x # k
        BY <2>4, <2>5, <4>2 DEF Checked
      <4> QED
        BY <4>1, <4>2
    <3>2. log'[h].at <= table'[x].firstSeen
      <4>1. table'[x].firstSeen \in Nat
        BY <3>1 DEF Checked, Entries
      <4> QED
        BY <2>2, <2>3, <2>4, <3>1, <4>1
    <3> QED
      BY <2>3, <3>1, <3>2 DEF Held
  <2>6. CASE x # k /\ x \notin S
    <3>1. Stale(table[x], WindowOf(rt)) /\ SweepSize
      BY <2>6 DEF Checked
    <3>2. now - log[h].at > WindowOf(rt)
      <4>1. WindowOf(rt) \in Nat
        <5>1. LoopFields(GetLoopDetection(rt))
          BY ConfigFields DEF DInv, DType
        <5> QED
          BY <5>1 DEF LoopFields, WindowOf
      <4> QED
        BY <1>2, <2>2, <2>3, <2>4, <3>1, <4>1 DEF Stale
    <3>3. Cardinality({log[g].key : g \in DOMAIN log}) >= CleanupEvery
      BY <3>1, SweptKeys
    <3>4. {log'[g].key : g \in 1 .. n - 1} = {log[g].key : g \in DOMAIN log}
      BY <1>1
    <3>5. GetLoopDetection(log[n].route)' = GetLoopDetection(rt)
      BY <1>1, <1>2 DEF GetLoopDetection
    <3>6. SweptAway(h, i, n)'
      <4>1. i < n /\ log'[n].key # log'[i].key /\ log'[h].key = log'[i].key
        BY <1>1, <1>3, <2>3, <2>6
      <4>2. log'[n].at - log'[h].at > GetLoopDetection(log[n].route)'.window
        BY <1>1, <2>3, <3>2, <3>5 DEF WindowOf
      <4>3. Cardinality({log'[g].key : g \in 1 .. n - 1}) >= CleanupEvery
        BY <3>3, <3>4
      <4> QED
        BY <4>1, <4>2, <4>3 DEF SweptAway
    <3>7. n \in DOMAIN log'
      BY <1>n, <1>1
    <3> QED
      BY <3>6, <3>7 DEF Lost
  <2> QED
    BY <2>5, <2>6
<1> QED
  BY <1>4, <1>5

LEMMA CheckPanic ==
  ASSUME DInv, PanicInv, NEW r \in Reqs, NEW rt \in Routes, NEW k \in Keys, CheckLoop(r, rt, k)
  PROVE  PanicInv'
<1>1. PICK S \in SUBSET DOMAIN table, e \in Entries, v \in Verdicts :
        /\ Checked(rt, k, S, e, v) /\ GetLoopDetection(rt).enabled
        /\ req[r] = Idle
        /\ v = "none" => req' = [req EXCEPT ![r] = [pc |-> "forwarded"]]
        /\ v # "none" => \E a :
             req' = [req EXCEPT ![r] = [pc |-> "detected", key |-> k, action |-> a]]
  <2>1. DType
    BY DEF DInv
  <2> QED
    BY <2>1, CheckFacts
<1>a. Checked(rt, k, S, e, v)
  BY <1>1
<1>n. PICK n \in Nat : n = Len(log) + 1
  BY DEF DInv, DType
<1>2. /\ DOMAIN log' = 1 .. n /\ DOMAIN log = 1 .. (n - 1)
      /\ \A h \in DOMAIN log : log'[h] = log[h]
      /\ log'[n].key = k /\ log'[n].at = now /\ log'[n].verdict = v
  BY <1>a, <1>n, CheckLogged
<1>3. \A i \in DOMAIN log :
        /\ i \in DOMAIN log' /\ log'[i] = log[i]
        /\ (Lost(i) => Lost(i)') /\ (Held(i) => Held(i)' \/ Lost(i)')
  <2>1. DOMAIN log \subseteq DOMAIN log'
    BY <1>n, <1>2
  <2> QED
    BY <1>a, <1>2, <2>1, HeldOrLost
<1>4. DOMAIN req = Reqs
  BY DEF DInv, DType
<1>5. ASSUME NEW q \in Reqs, q # r PROVE Accused(q)' /\ Panicked(q)'
  <2>1. req'[q] = req[q]
    BY <1>1, <1>4, <1>5
  <2>2. Accused(q) /\ Panicked(q)
    BY DEF PanicInv
  <2>3. Accused(q)'
    BY <1>3, <2>1, <2>2 DEF Accused
  <2>4. Panicked(q)'
    BY <1>3, <2>1, <2>2 DEF Panicked
  <2> QED
    BY <2>3, <2>4
<1>6. Accused(r)' /\ Panicked(r)'
  <2>1. CASE v = "none"
    <3>1. req'[r] = [pc |-> "forwarded"]
      BY <1>1, <1>4, <2>1
    <3>2. req'[r].pc = "forwarded"
      BY <3>1
    <3> QED
      BY <3>2 DEF Accused, Panicked
  <2>2. CASE v # "none"
    <3>1. PICK a : req' = [req EXCEPT ![r] = [pc |-> "detected", key |-> k, action |-> a]]
      BY <1>1, <2>2
    <3>2. req'[r] = [pc |-> "detected", key |-> k, action |-> a]
      BY <1>4, <3>1
    <3>3. req'[r].pc = "detected" /\ req'[r].key = k
      BY <3>2
    <3>4. Held(n)'
      <4>1. k \in DOMAIN table' /\ table'[k] = e
        BY <1>1 DEF Checked
      <4>2. PICK h \in DOMAIN log' : log'[h].key = k /\ log'[h].at = e.firstSeen
        BY <1>a, CheckEntry
      <4>3. e.firstSeen \in Nat
        BY DEF Entries
      <4> QED
        BY <1>2, <4>1, <4>2, <4>3 DEF Held
    <3>5. n \in DOMAIN log'
      BY <1>n, <1>2
    <3> QED
      BY <1>2, <2>2, <3>3, <3>4, <3>5 DEF Accused, Panicked
  <2> QED
    BY <2>1, <2>2
<1> QED
  BY <1>5, <1>6 DEF PanicInv

LEMMA QuietPanic ==
  ASSUME DInv, PanicInv, Quiet
  PROVE  PanicInv'
<1>1. UNCHANGED <<defenders, table, log>>
  BY DEF Quiet
<1>2. ASSUME NEW i PROVE Lost(i)' = Lost(i) /\ Held(i)' = Held(i)
  BY <1>1 DEF Lost, Held, SweptAway, GetLoopDetection
<1>3. ASSUME NEW r \in Reqs PROVE Accused(r)' /\ Panicked(r)'
  <2>0. Accused(r) /\ Panicked(r)
    BY DEF PanicInv
  <2>1. Accused(r)'
    <3> SUFFICES ASSUME req'[r].pc = "detected" PROVE Accused(r)'
      BY DEF Accused
    <3>1. req'[r] = req[r]
      BY DEF Quiet
    <3> QED
      BY <1>1, <1>2, <2>0, <3>1 DEF Accused
  <2>2. Panicked(r)'
    <3> SUFFICES ASSUME req'[r].pc = "panicked" PROVE Panicked(r)'
      BY DEF Panicked
    <3>1. CASE req'[r] = req[r]
      BY <1>1, <1>2, <2>0, <3>1 DEF Panicked
    <3>2. CASE req[r].pc = "detected" /\ req[r].key \notin DOMAIN table
      <4>1. PICK i \in DOMAIN log : /\ log[i].key = req[r].key /\ log[i].verdict # "none"
                                    /\ Held(i) \/ Lost(i)
        BY <2>0, <3>2 DEF Accused
      <4>2. ~Held(i)
        BY <3>2, <4>1 DEF Held
      <4> QED
        BY <1>1, <1>2, <4>1, <4>2 DEF Panicked
    <3> QED
      BY <3>1, <3>2 DEF Quiet
  <2> QED
    BY <2>1, <2>2
<1> QED
  BY <1>3 DEF PanicInv

(* The read through nil after the mutex is released needs a sweep by a     *)
(* request of another key in between (checkDefenders and getEntry).        *)
THEOREM PanicLawHolds == Spec => []PanicLaw
<1>1. Init => PanicInv
  BY DEF Init, PanicInv, Accused, Panicked, Idle
<1>2. DInv /\ PanicInv /\ [Next]_vars => PanicInv'
  BY QuietSteps, QuietPanic, CheckPanic
<1>3. PanicInv => PanicLaw
  BY DEF PanicInv, Panicked, PanicLaw, Lost, SweptAway
<1> QED
  BY <1>1, <1>2, <1>3, AlwaysDInv, PTL DEF Spec
-----------------------------------------------------------------------------
(* The size of the map.                                                    *)

LEMMA Multiple ==
  ASSUME NEW m \in Nat, NEW d \in Nat \ {0}
  PROVE  (m * d) % d = 0
<1> DEFINE q == (m * d) \div d
           r == (m * d) % d
<1>0. m * d \in Nat
  OBVIOUS
<1>1. m * d = d * q + r /\ q \in Int /\ r \in Int /\ 0 <= r /\ r < d
  BY <1>0
<1> HIDE DEF q, r
<1>2. CASE q < m
  <2>1. d * q <= d * (m - 1)
    BY <1>1, <1>2
  <2>2. d * (m - 1) = m * d - d
    OBVIOUS
  <2> QED
    BY <1>0, <1>1, <2>1, <2>2
<1>3. CASE q > m
  <2>1. d * q >= d * (m + 1)
    BY <1>1, <1>3
  <2>2. d * (m + 1) = m * d + d
    OBVIOUS
  <2> QED
    BY <1>0, <1>1, <2>1, <2>2
<1>4. CASE q = m
  <2>1. d * q = m * d
    BY <1>4
  <2> QED
    BY <1>0, <1>1, <2>1 DEF r
<1> QED
  BY <1>1, <1>2, <1>3, <1>4

LEMMA OneMore ==
  ASSUME NEW S, IsFiniteSet(S), NEW k
  PROVE  /\ Cardinality(S \cup {k}) \in Nat /\ Cardinality(S) \in Nat
         /\ Cardinality(S \cup {k}) <= Cardinality(S) + 1
<1>1. Cardinality(S) \in Nat
  BY FS_CardinalityType
<1>2. CASE k \in S
  <2>1. S \cup {k} = S
    BY <1>2
  <2> QED
    BY <1>1, <2>1
<1>3. CASE k \notin S
  <2>1. Cardinality(S \cup {k}) = Cardinality(S) + 1
    BY <1>3, FS_AddElement
  <2> QED
    BY <1>1, <2>1
<1> QED
  BY <1>2, <1>3

SweepAt(c, limit) ==
    c.enabled /\ Agreed(c) /\ limit > CleanupMin /\ Cardinality(DOMAIN table) > limit
      => \E i \in DOMAIN log : Cardinality(LiveAt(i, c.window)) >= limit

LEMMA SweepStep ==
  ASSUME DInv, NEW rt \in Routes, NEW k \in Keys, NEW S \in SUBSET DOMAIN table,
         NEW e \in Entries, NEW v \in Verdicts, Checked(rt, k, S, e, v),
         GetLoopDetection(rt).enabled,
         NEW c, NEW m \in Nat, SweepAt(c, m * CleanupEvery)
  PROVE  SweepAt(c, m * CleanupEvery)'
<1>d. CleanupEvery \in Nat \ {0} /\ CleanupMin \in Nat
  BY DefendersAssumption
<1>l. PICK L \in Nat : L = m * CleanupEvery
  BY <1>d
<1>n. PICK n \in Nat : n = Len(log) + 1
  BY DEF DInv, DType
<1>1. /\ DOMAIN log' = 1 .. n /\ DOMAIN log = 1 .. (n - 1)
      /\ \A h \in DOMAIN log : log'[h] = log[h] /\ log[h] \in Check
      /\ log'[n].key = k /\ log'[n].at = now /\ log'[n].route = rt
  BY <1>n, CheckLogged
<1>2. UNCHANGED <<defenders, now>> /\ now \in Nat /\ DOMAIN table' = S \cup {k}
  BY DEF Checked, DInv, DType
<1>s. SUFFICES ASSUME c.enabled, Agreed(c)', L > CleanupMin, Cardinality(DOMAIN table') > L
             PROVE  \E i \in DOMAIN log' : Cardinality(LiveAt(i, c.window)') >= L
  BY <1>l DEF SweepAt
<1>3. Agreed(c)
  BY <1>s, <1>2 DEF Agreed, GetLoopDetection
<1>4. Cardinality(DOMAIN table) \in Nat /\ Cardinality(S) \in Nat /\ IsFiniteSet(S)
      /\ Cardinality(S) <= Cardinality(DOMAIN table)
  <2>1. IsFiniteSet(DOMAIN table)
    BY TableFinite
  <2> QED
    BY <2>1, FS_Subset, FS_CardinalityType
<1>5. CASE Cardinality(DOMAIN table) > L
  <2>1. PICK i \in DOMAIN log : Cardinality(LiveAt(i, c.window)) >= L
    BY <1>s, <1>3, <1>5, <1>l DEF SweepAt
  <2>2. i \in DOMAIN log' /\ \A h \in 1 .. i : h \in DOMAIN log
    BY <1>1
  <2>3. LiveAt(i, c.window)' = LiveAt(i, c.window)
    BY <1>1, <2>2 DEF LiveAt
  <2> QED
    BY <2>1, <2>2, <2>3
<1>6. CASE ~(Cardinality(DOMAIN table) > L)
  <2>1. Cardinality(S \cup {k}) \in Nat /\ Cardinality(S \cup {k}) <= Cardinality(S) + 1
    BY <1>4, OneMore
  <2>3. Cardinality(DOMAIN table) = L /\ Cardinality(S) = L
    BY <1>s, <1>2, <1>4, <1>6, <2>1
  <2>4. SweepSize
    BY <1>s, <1>d, <1>l, <2>3, Multiple DEF SweepSize
  <2>5. WindowOf(rt) = c.window
    BY <1>3 DEF Agreed, WindowOf
  <2>6. \A x \in S : ~Stale(table[x], c.window)
    BY <2>4, <2>5 DEF Checked
  <2>7. c.window \in Nat
    <3>1. LoopFields(GetLoopDetection(rt))
      BY ConfigFields DEF DInv, DType
    <3> QED
      BY <2>5, <3>1 DEF LoopFields, WindowOf
  <2>8. S \subseteq LiveAt(n, c.window)'
    <3>1. ASSUME NEW x \in S PROVE x \in LiveAt(n, c.window)'
      <4>1. PICK h \in DOMAIN log : log[h].key = x /\ log[h].at = table[x].firstSeen
        BY DEF DInv, EntryAt
      <4>2. table[x].firstSeen \in Nat
        BY DEF DInv, DType, Entries
      <4>3. now - log[h].at <= c.window
        BY <1>2, <2>6, <2>7, <4>1, <4>2 DEF Stale
      <4>4. h \in 1 .. n /\ log'[h].key = x /\ log'[n].at - log'[h].at <= c.window
        BY <1>1, <4>1, <4>3
      <4> QED
        BY <4>4 DEF LiveAt
    <3> QED
      BY <3>1
  <2>9. IsFiniteSet(LiveAt(n, c.window)')
    <3>1. \A h \in 1 .. n : log'[h].key \in Keys
      BY <1>1 DEF Check
    <3>2. LiveAt(n, c.window)' \subseteq Keys
      BY <3>1 DEF LiveAt
    <3> QED
      BY <3>2, DefendersAssumption, FS_Subset
  <2>10. Cardinality(LiveAt(n, c.window)') >= L
    <3>1. Cardinality(S) <= Cardinality(LiveAt(n, c.window)')
          /\ Cardinality(LiveAt(n, c.window)') \in Nat
      BY <2>8, <2>9, FS_Subset, FS_CardinalityType
    <3> QED
      BY <2>3, <3>1
  <2>11. n \in DOMAIN log'
    BY <1>n, <1>1
  <2> QED
    BY <2>10, <2>11
<1> QED
  BY <1>5, <1>6

(* Where the routes agree, the map of the detector outgrows a multiple of  *)
(* the clean-up size only under that many keys in one window               *)
(* (loopDetector.checkLoop and cleanupStale).                              *)
THEOREM SweepBoundHolds == Spec => []SweepBound
<1>1. Init => SweepBound
  <2> SUFFICES ASSUME Init, NEW rt \in Routes, NEW m \in 1 .. Cardinality(Keys)
               PROVE  ~(m * CleanupEvery > CleanupMin /\ Cardinality(DOMAIN table) > m * CleanupEvery)
    BY DEF SweepBound
  <2>1. Cardinality(DOMAIN table) = 0
    <3>1. DOMAIN table = {}
      BY DEF Init
    <3> QED
      BY <3>1, FS_EmptySet
  <2>2. m \in Nat /\ CleanupEvery \in Nat
    <3>1. Cardinality(Keys) \in Nat
      BY DefendersAssumption, FS_CardinalityType
    <3> QED
      BY <3>1, DefendersAssumption
  <2>3. m * CleanupEvery \in Nat
    BY <2>2
  <2> QED
    BY <2>1, <2>3
<1>2. DInv /\ SweepBound /\ [Next]_vars => SweepBound'
  <2> SUFFICES ASSUME DInv, SweepBound, [Next]_vars PROVE SweepBound'
    OBVIOUS
  <2>1. CASE Quiet
    <3>1. UNCHANGED <<defenders, table, log>>
      BY <2>1 DEF Quiet
    <3>2. ASSUME NEW i, NEW w PROVE LiveAt(i, w)' = LiveAt(i, w)
      BY <3>1 DEF LiveAt
    <3>3. ASSUME NEW c PROVE Agreed(c)' = Agreed(c)
      BY <3>1 DEF Agreed, GetLoopDetection
    <3>4. ASSUME NEW q PROVE GetLoopDetection(q)' = GetLoopDetection(q)
      BY <3>1 DEF GetLoopDetection
    <3>5. ASSUME NEW q \in Routes, NEW m \in 1 .. Cardinality(Keys)
          PROVE  LET c == GetLoopDetection(q) IN SweepAt(c, m * CleanupEvery)'
      <4>1. PICK c : c = GetLoopDetection(q)
        OBVIOUS
      <4>2. SweepAt(c, m * CleanupEvery)
        BY <4>1 DEF SweepBound, SweepAt
      <4>3. SweepAt(c, m * CleanupEvery)'
        BY <3>1, <3>2, <3>3, <4>2 DEF SweepAt
      <4> QED
        BY <3>4, <4>1, <4>3 DEF SweepAt, Agreed, LiveAt
    <3> QED
      BY <3>5 DEF SweepBound, SweepAt
  <2>2. ASSUME NEW r \in Reqs, NEW rt \in Routes, NEW k \in Keys, CheckLoop(r, rt, k)
        PROVE  SweepBound'
    <3>1. PICK S \in SUBSET DOMAIN table, e \in Entries, v \in Verdicts :
            Checked(rt, k, S, e, v) /\ GetLoopDetection(rt).enabled
      <4>1. DType
        BY DEF DInv
      <4> QED
        BY <2>2, <4>1, CheckFacts
    <3>2. UNCHANGED defenders
      BY <3>1 DEF Checked
    <3>3. ASSUME NEW q \in Routes, NEW m \in 1 .. Cardinality(Keys)
          PROVE  LET c == GetLoopDetection(q) IN SweepAt(c, m * CleanupEvery)'
      <4>1. PICK c : c = GetLoopDetection(q)
        OBVIOUS
      <4>2. GetLoopDetection(q)' = c
        BY <3>2, <4>1 DEF GetLoopDetection
      <4>3. SweepAt(c, m * CleanupEvery)
        BY <4>1 DEF SweepBound, SweepAt
      <4>4. m \in Nat
        BY DefendersAssumption, FS_CardinalityType
      <4>5. SweepAt(c, m * CleanupEvery)'
        BY <3>1, <4>3, <4>4, SweepStep
      <4> QED
        BY <4>2, <4>5 DEF SweepAt, Agreed, LiveAt
    <3> QED
      BY <3>3 DEF SweepBound, SweepAt
  <2> QED
    BY <2>1, <2>2, QuietSteps
<1> QED
  BY <1>1, <1>2, AlwaysDInv, PTL DEF Spec
-----------------------------------------------------------------------------
(* What is missed.                                                         *)

LEMMA PassedFacts ==
  ASSUME log \in Seq(Check), NEW k, NEW f \in Int
  PROVE  /\ IsFiniteSet(Passed(k, f)) /\ Cardinality(Passed(k, f)) \in Nat
         /\ \A g \in Int : f <= g => Passed(k, g) \subseteq Passed(k, f)
         /\ \A w \in Int : PassedBefore(k, f, w) \subseteq Passed(k, f - w)
<1>1. Passed(k, f) \subseteq DOMAIN log
  BY DEF Passed, Since
<1>2. IsFiniteSet(Passed(k, f)) /\ Cardinality(Passed(k, f)) \in Nat
  BY <1>1, LogFinite
<1>3. \A h \in DOMAIN log : log[h].at \in Int
  <2>1. \A h \in DOMAIN log : log[h] \in Check
    OBVIOUS
  <2> QED
    BY <2>1 DEF Check
<1>4. ASSUME NEW g \in Int, f <= g PROVE Passed(k, g) \subseteq Passed(k, f)
  BY <1>3, <1>4 DEF Passed, Since
<1>5. ASSUME NEW w \in Int PROVE PassedBefore(k, f, w) \subseteq Passed(k, f - w)
  BY DEF PassedBefore
<1> QED
  BY <1>2, <1>4, <1>5

\* A smaller set of checks is no larger a number of them.
LEMMA NoMore ==
  ASSUME NEW B, IsFiniteSet(B), NEW A \in SUBSET B, NEW m \in Nat, Cardinality(B) <= m
  PROVE  IsFiniteSet(A) /\ Cardinality(A) \in Nat /\ Cardinality(A) <= m
<1>1. /\ Cardinality(A) <= Cardinality(B) /\ IsFiniteSet(A)
      /\ Cardinality(A) \in Nat /\ Cardinality(B) \in Nat
  BY FS_Subset, FS_CardinalityType
<1> QED
  BY <1>1

\* What a check of k adds to what was let pass: nothing for another key, nothing
\* when it is detected, and nothing before the present.
LEMMA PassedOther ==
  ASSUME DInv, NEW rt \in Routes, NEW k \in Keys, NEW S \in SUBSET DOMAIN table,
         NEW e \in Entries, NEW v \in Verdicts, Checked(rt, k, S, e, v),
         NEW x, x # k, NEW f \in Int
  PROVE  Passed(x, f)' = Passed(x, f)
<1>n. PICK n \in Nat : n = Len(log) + 1
  BY DEF DInv, DType
<1>1. /\ DOMAIN log' = DOMAIN log \cup {n} /\ \A h \in DOMAIN log : log'[h] = log[h]
      /\ log'[n].key = k
  BY <1>n, CheckLogged
<1> QED
  BY <1>1 DEF Passed, Since

LEMMA PassedStep ==
  ASSUME DInv, NEW rt \in Routes, NEW k \in Keys, NEW S \in SUBSET DOMAIN table,
         NEW e \in Entries, NEW v \in Verdicts, Checked(rt, k, S, e, v), NEW f \in Int
  PROVE  /\ v # "none" => Passed(k, f)' = Passed(k, f)
         /\ Passed(k, f)' \subseteq Passed(k, f) \cup {Len(log) + 1}
         /\ \A w : f <= now => PassedBefore(k, f, w)' = PassedBefore(k, f, w)
<1>n. PICK n \in Nat : n = Len(log) + 1
  BY DEF DInv, DType
<1>1. /\ DOMAIN log' = DOMAIN log \cup {n} /\ n \notin DOMAIN log
      /\ \A h \in DOMAIN log : log'[h] = log[h]
      /\ log'[n].key = k /\ log'[n].at = now /\ log'[n].verdict = v
  BY <1>n, CheckLogged
<1>2. now \in Nat
  BY DEF DInv, DType
<1>3. v # "none" => Passed(k, f)' = Passed(k, f)
  BY <1>1 DEF Passed, Since
<1>4. Passed(k, f)' \subseteq Passed(k, f) \cup {n}
  BY <1>1 DEF Passed, Since
<1>5. ASSUME NEW w, f <= now PROVE PassedBefore(k, f, w)' = PassedBefore(k, f, w)
  <2>1. ~(log'[n].at < f)
    BY <1>1, <1>2, <1>5
  <2> QED
    BY <1>1, <2>1 DEF PassedBefore, Passed, Since
<1> QED
  BY <1>n, <1>3, <1>4, <1>5

\* A stale entry's key is as a key without an entry.
LEMMA StaleShut ==
  ASSUME DInv, NEW c, c.window \in Nat, Most(c) \in Nat, NEW x \in DOMAIN table,
         MissAt(x, c), Stale(table[x], c.window)
  PROVE  MissShut(x, now, c)
<1>1. PICK f \in Nat : f = table[x].firstSeen
  BY DEF DInv, DType, Entries
<1>2. now \in Nat /\ log \in Seq(Check) /\ f + c.window < now /\ f <= now - c.window
  <2>1. now \in Nat /\ log \in Seq(Check)
    BY DEF DInv, DType
  <2> QED
    BY <1>1, <2>1 DEF Stale
<1>3. /\ Cardinality(Passed(x, f)) <= Most(c)
      /\ \A h \in DOMAIN log : log[h].key = x => log[h].at <= f + c.window
  BY <1>1 DEF MissAt, MissOpen
<1>4. Cardinality(Passed(x, now - c.window)) <= Most(c)
  <2>1. f \in Int /\ now - c.window \in Int
    BY <1>2
  <2>2. IsFiniteSet(Passed(x, f)) /\ Passed(x, now - c.window) \subseteq Passed(x, f)
    BY <1>2, <2>1, PassedFacts
  <2> QED
    BY <1>3, <2>2, NoMore
<1>5. \A h \in DOMAIN log : log[h].key = x => log[h].at < now
  <2>1. \A h \in DOMAIN log : log[h].at \in Nat
    <3>1. \A h \in DOMAIN log : log[h] \in Check
      BY <1>2
    <3> QED
      BY <3>1 DEF Check
  <2> QED
    BY <1>2, <1>3, <2>1
<1> QED
  BY <1>4, <1>5 DEF MissShut

LEMMA MostFacts ==
  ASSUME NEW c, c.threshold \in Nat \ {0}
  PROVE  /\ Most(c) \in Nat /\ 1 <= Most(c) /\ c.threshold - 1 <= Most(c)
         /\ Most(c) <= c.threshold
  BY DEF Most, AtLeastOne

\* A check of k leaves what is said of another key, or shuts its entry.
LEMMA MissOther ==
  ASSUME DInv, NEW rt \in Routes, NEW k \in Keys, NEW S \in SUBSET DOMAIN table,
         NEW e \in Entries, NEW v \in Verdicts, Checked(rt, k, S, e, v),
         NEW c, c.window \in Nat, Most(c) \in Nat, WindowOf(rt) = c.window,
         NEW x \in Keys, x # k, MissAt(x, c)
  PROVE  MissAt(x, c)'
<1>n. PICK n \in Nat : n = Len(log) + 1
  BY DEF DInv, DType
<1>1. /\ DOMAIN log' = DOMAIN log \cup {n} /\ \A h \in DOMAIN log : log'[h] = log[h]
      /\ log'[n].key = k
  BY <1>n, CheckLogged
<1>2. /\ UNCHANGED now /\ now \in Nat /\ DOMAIN table' = S \cup {k}
      /\ \A y \in S \ {k} : table'[y] = table[y]
      /\ \A y \in DOMAIN table \ S : Stale(table[y], c.window)
  BY DEF Checked, DInv, DType
<1>3. ASSUME NEW f \in Int PROVE Passed(x, f)' = Passed(x, f)
  BY <1>3, PassedOther
<1>4. ASSUME NEW t, t = now, MissShut(x, t, c) PROVE MissShut(x, t, c)'
  <2>1. Passed(x, t - c.window)' = Passed(x, t - c.window)
    <3>1. t - c.window \in Int
      BY <1>2, <1>4
    <3> QED
      BY <1>3, <3>1
  <2> QED
    BY <1>1, <1>4, <2>1 DEF MissShut
<1>5. CASE x \in S
  <2>1. PICK f, m : f \in Nat /\ f = table[x].firstSeen /\ m = table[x].count
    BY <1>5 DEF DInv, DType, Entries
  <2>2. MissOpen(x, f, m, c)
    BY <1>5, <2>1 DEF MissAt
  <2>3. Passed(x, f)' = Passed(x, f)
    BY <1>3, <2>1
  <2>4. PassedBefore(x, f, c.window)' = PassedBefore(x, f, c.window)
    <3>1. f - c.window \in Int
      BY <2>1
    <3>2. Passed(x, f - c.window)' = Passed(x, f - c.window)
      BY <1>3, <3>1
    <3>3. \A h \in Passed(x, f - c.window) : log'[h] = log[h]
      BY <1>1 DEF Passed, Since
    <3> QED
      BY <3>2, <3>3 DEF PassedBefore
  <2>5. MissOpen(x, f, m, c)'
    BY <1>1, <2>2, <2>3, <2>4 DEF MissOpen
  <2>6. x \in DOMAIN table' /\ table'[x].firstSeen = f /\ table'[x].count = m
    BY <1>2, <1>5, <2>1
  <2> QED
    BY <2>5, <2>6 DEF MissAt, MissOpen
<1>6. CASE x \notin S
  <2>1. PICK t : t = now
    OBVIOUS
  <2>2. MissShut(x, t, c)
    <3>1. CASE x \in DOMAIN table
      BY <1>2, <1>6, <2>1, <3>1, StaleShut
    <3>2. CASE x \notin DOMAIN table
      BY <2>1, <3>2 DEF MissAt
    <3> QED
      BY <3>1, <3>2
  <2>3. MissShut(x, t, c)'
    BY <1>4, <2>1, <2>2
  <2>4. x \notin DOMAIN table' /\ now' = t
    BY <1>2, <1>6, <2>1
  <2> QED
    BY <2>3, <2>4 DEF MissAt, MissShut
<1> QED
  BY <1>5, <1>6

\* A check of k that opens a window.
LEMMA MissNew ==
  ASSUME DInv, NEW rt \in Routes, NEW k \in Keys, NEW S \in SUBSET DOMAIN table,
         NEW e \in Entries, NEW v \in Verdicts, Checked(rt, k, S, e, v),
         NEW c, c.window \in Nat, c.threshold \in Nat \ {0}, MissShut(k, now, c),
         e.firstSeen = now, e.count = 1
  PROVE  MissOpen(k, e.firstSeen, e.count, c)'
<1>n. PICK n \in Nat : n = Len(log) + 1
  BY DEF DInv, DType
<1>1. /\ DOMAIN log' = DOMAIN log \cup {n} /\ \A h \in DOMAIN log : log'[h] = log[h]
      /\ log'[n].key = k /\ log'[n].at = now
  BY <1>n, CheckLogged
<1>2. now \in Nat /\ log \in Seq(Check)
  BY DEF DInv, DType
<1>f. PICK f \in Int : f = now
  BY <1>2
<1>3. Most(c) \in Nat /\ 1 <= Most(c)
  BY MostFacts
<1>4. \A h \in DOMAIN log : log[h].at \in Nat
  <2>1. \A h \in DOMAIN log : log[h] \in Check
    BY <1>2
  <2> QED
    BY <2>1 DEF Check
<1>5. Cardinality(Passed(k, f)') <= 1
  <2>1. Passed(k, f) = {}
    BY <1>2, <1>f, <1>4 DEF MissShut, Passed, Since
  <2>2. Passed(k, f)' \subseteq {n}
    BY <1>n, <2>1, PassedStep
  <2>3. IsFiniteSet({n}) /\ Cardinality({n}) = 1
    BY FS_Singleton
  <2> QED
    BY <2>2, <2>3, NoMore
<1>6. Cardinality(Passed(k, f)') \in Nat
  <2>1. Passed(k, f)' \subseteq DOMAIN log' /\ log' \in Seq(Check)
    BY CheckLogged DEF Passed, Since
  <2>2. IsFiniteSet(DOMAIN log')
    <3>1. DOMAIN log' = 1 .. Len(log') /\ Len(log') \in Nat
      BY <2>1
    <3> QED
      BY <3>1, FS_Interval
  <2> QED
    BY <2>1, <2>2, FS_Subset, FS_CardinalityType
<1>7. Cardinality(PassedBefore(k, f, c.window)') <= Most(c)
  <2>1. PassedBefore(k, f, c.window)' = PassedBefore(k, f, c.window)
    <3>1. f <= now
      BY <1>2, <1>f
    <3> QED
      BY <3>1, PassedStep
  <2>2. PassedBefore(k, f, c.window) \subseteq Passed(k, f - c.window)
    BY <1>2, PassedFacts
  <2>3. IsFiniteSet(Passed(k, f - c.window))
    <3>1. f - c.window \in Int
      OBVIOUS
    <3> QED
      BY <1>2, <3>1, PassedFacts
  <2>4. Cardinality(Passed(k, f - c.window)) <= Most(c)
    BY <1>f DEF MissShut
  <2> QED
    BY <1>3, <2>1, <2>2, <2>3, <2>4, NoMore
<1>8. \A h \in DOMAIN log' : log'[h].key = k => log'[h].at <= f + c.window
  <2>1. ASSUME NEW h \in DOMAIN log, log[h].key = k PROVE log[h].at <= f + c.window
    BY <1>2, <1>f, <1>4, <2>1 DEF MissShut
  <2>2. log'[n].at <= f + c.window
    BY <1>1, <1>2, <1>f
  <2> QED
    BY <1>1, <2>1, <2>2
<1>9. MissOpen(k, f, 1, c)'
  <2>1. Cardinality(Passed(k, f)') <= Most(c)
    BY <1>3, <1>5, <1>6
  <2> QED
    BY <1>5, <1>7, <1>8, <2>1 DEF MissOpen
<1>10. e.firstSeen = f /\ e.count = 1
  BY <1>f
<1> QED
  BY <1>9, <1>10

\* A check of k in a window that is open.
LEMMA MissRepeat ==
  ASSUME DInv, NEW rt \in Routes, NEW k \in Keys, NEW S \in SUBSET DOMAIN table,
         NEW e \in Entries, NEW v \in Verdicts, Checked(rt, k, S, e, v),
         NEW c, c.window \in Nat, c.threshold \in Nat \ {0},
         NEW f \in Nat, NEW m \in Nat, MissOpen(k, f, m, c), f <= now, now - f <= c.window,
         \/ v = "none" /\ m + 1 < c.threshold /\ e.count = m + 1
         \/ v # "none" /\ e.count \in {m + 1, c.threshold}
  PROVE  MissOpen(k, f, e.count, c)'
<1>n. PICK n \in Nat : n = Len(log) + 1
  BY DEF DInv, DType
<1>1. /\ DOMAIN log' = DOMAIN log \cup {n} /\ \A h \in DOMAIN log : log'[h] = log[h]
      /\ log'[n].key = k /\ log'[n].at = now
  BY <1>n, CheckLogged
<1>2. now \in Nat /\ log \in Seq(Check) /\ f \in Int
  BY DEF DInv, DType
<1>3. Most(c) \in Nat /\ c.threshold - 1 <= Most(c) /\ Most(c) <= c.threshold
  BY MostFacts
<1>4. /\ IsFiniteSet(Passed(k, f)) /\ Cardinality(Passed(k, f)) \in Nat
      /\ Cardinality(Passed(k, f)) <= m /\ Cardinality(Passed(k, f)) <= Most(c)
  BY <1>2, PassedFacts DEF MissOpen
<1>5. Cardinality(Passed(k, f)') <= e.count /\ Cardinality(Passed(k, f)') <= Most(c)
  <2>1. CASE v = "none"
    <3>1. Passed(k, f)' \subseteq Passed(k, f) \cup {n}
      BY <1>n, <1>2, PassedStep
    <3>2. /\ Cardinality(Passed(k, f) \cup {n}) \in Nat
          /\ Cardinality(Passed(k, f) \cup {n}) <= Cardinality(Passed(k, f)) + 1
      BY <1>4, OneMore
    <3>3. Cardinality(Passed(k, f) \cup {n}) <= m + 1 /\ IsFiniteSet(Passed(k, f) \cup {n})
      BY <1>4, <3>2, FS_AddElement
    <3>4. Cardinality(Passed(k, f)') \in Nat /\ Cardinality(Passed(k, f)') <= m + 1
      <4>1. m + 1 \in Nat
        OBVIOUS
      <4> QED
        BY <3>1, <3>3, <4>1, NoMore
    <3> QED
      BY <1>3, <2>1, <3>4
  <2>2. CASE v # "none"
    <3>1. Passed(k, f)' = Passed(k, f)
      BY <1>2, <2>2, PassedStep
    <3> QED
      BY <1>3, <1>4, <2>2, <3>1
  <2> QED
    BY <2>1, <2>2
<1>6. Cardinality(PassedBefore(k, f, c.window)') <= Most(c)
  <2>1. PassedBefore(k, f, c.window)' = PassedBefore(k, f, c.window)
    BY <1>2, PassedStep
  <2> QED
    BY <2>1 DEF MissOpen
<1>7. \A h \in DOMAIN log' : log'[h].key = k => log'[h].at <= f + c.window
  <2>1. log'[n].at <= f + c.window
    BY <1>1, <1>2
  <2> QED
    BY <1>1, <2>1 DEF MissOpen
<1> QED
  BY <1>5, <1>6, <1>7 DEF MissOpen

LEMMA MissStep ==
  ASSUME DInv, NEW rt \in Routes, NEW k \in Keys, NEW S \in SUBSET DOMAIN table,
         NEW e \in Entries, NEW v \in Verdicts, Checked(rt, k, S, e, v),
         NEW c, c.window \in Nat, c.threshold \in Nat \ {0},
         WindowOf(rt) = c.window, ThresholdOf(rt) = c.threshold, MissAt(k, c)
  PROVE  MissAt(k, c)'
<1>1. k \in DOMAIN table' /\ table'[k] = e
  BY DEF Checked
<1>2. CASE e.firstSeen = now /\ e.count = 1 /\ (k \in S => Stale(table[k], c.window))
  <2>1. MissShut(k, now, c)
    <3>1. CASE k \in DOMAIN table
      <4>1. Stale(table[k], c.window)
        BY <1>2, <3>1 DEF Checked
      <4>2. Most(c) \in Nat
        BY MostFacts
      <4> QED
        BY <3>1, <4>1, <4>2, StaleShut
    <3>2. CASE k \notin DOMAIN table
      BY <3>2 DEF MissAt
    <3> QED
      BY <3>1, <3>2
  <2>2. MissOpen(k, e.firstSeen, e.count, c)'
    BY <1>2, <2>1, MissNew
  <2> QED
    BY <1>1, <2>2 DEF MissAt, MissOpen
<1>3. CASE /\ k \in S /\ ~Stale(table[k], c.window) /\ e.firstSeen = table[k].firstSeen
           /\ \/ v = "none" /\ table[k].count + 1 < c.threshold /\ e.count = table[k].count + 1
              \/ v # "none" /\ e.count \in {table[k].count + 1, c.threshold}
  <2>1. PICK f \in Nat, m \in Nat : f = table[k].firstSeen /\ m = table[k].count
    BY <1>3 DEF DInv, DType, Entries
  <2>2. f <= now /\ now - f <= c.window
    <3>1. now \in Nat /\ f <= now
      BY <1>3, <2>1 DEF DInv, DType, EntryAt
    <3> QED
      BY <1>3, <2>1, <3>1 DEF Stale
  <2>3. MissOpen(k, f, m, c)
    BY <1>3, <2>1 DEF MissAt
  <2>4. MissOpen(k, f, e.count, c)'
    BY <1>3, <2>1, <2>2, <2>3, MissRepeat
  <2>5. e.firstSeen = f
    BY <1>3, <2>1
  <2> QED
    BY <1>1, <2>4, <2>5 DEF MissAt, MissOpen
<1> QED
  BY <1>2, <1>3 DEF Checked

LEMMA QuietMiss ==
  ASSUME DInv, Quiet, NEW c, c.window \in Nat, Most(c) \in Nat, NEW k \in Keys, MissAt(k, c)
  PROVE  MissAt(k, c)'
<1>1. UNCHANGED <<table, log>> /\ now \in Nat /\ now' \in Nat /\ now <= now' /\ log \in Seq(Check)
  BY DEF Quiet, DInv, DType
<1>2. CASE k \in DOMAIN table
  BY <1>1, <1>2 DEF MissAt, MissOpen, Passed, PassedBefore, Since
<1>3. CASE k \notin DOMAIN table
  <2>0. PICK t \in Nat, u \in Nat : t = now /\ u = now'
    BY <1>1
  <2>1. /\ Cardinality(Passed(k, t - c.window)) <= Most(c)
        /\ \A h \in DOMAIN log : log[h].key = k => log[h].at < t
    BY <1>3, <2>0 DEF MissAt, MissShut
  <2>2. Cardinality(Passed(k, u - c.window)) <= Most(c)
    <3>1. t - c.window \in Int /\ u - c.window \in Int /\ t - c.window <= u - c.window
      BY <1>1, <2>0
    <3>2. /\ IsFiniteSet(Passed(k, t - c.window))
          /\ Passed(k, u - c.window) \subseteq Passed(k, t - c.window)
      BY <1>1, <3>1, PassedFacts
    <3> QED
      BY <2>1, <3>2, NoMore
  <2>3. \A h \in DOMAIN log : log[h].key = k => log[h].at < u
    <3>1. \A h \in DOMAIN log : log[h].at \in Nat
      <4>1. \A h \in DOMAIN log : log[h] \in Check
        BY <1>1
      <4> QED
        BY <4>1 DEF Check
    <3> QED
      BY <1>1, <2>0, <2>1, <3>1
  <2>4. Passed(k, u - c.window)' = Passed(k, u - c.window)
    BY <1>1 DEF Passed, Since
  <2>5. MissShut(k, u, c)'
    BY <1>1, <2>2, <2>3, <2>4 DEF MissShut
  <2> QED
    BY <1>1, <1>3, <2>0, <2>5 DEF MissAt, MissShut
<1> QED
  BY <1>2, <1>3

LEMMA ConfigSame ==
  ASSUME UNCHANGED defenders, NEW rt, NEW c
  PROVE  GetLoopDetection(rt)' = GetLoopDetection(rt) /\ Agreed(c)' = Agreed(c)
  BY DEF Agreed, GetLoopDetection

LEMMA NextMiss == DInv /\ MissInv /\ [Next]_vars => MissInv'
<1> SUFFICES ASSUME DInv, MissInv, [Next]_vars, NEW q \in Routes,
                    Agreed(GetLoopDetection(q))', NEW x \in Keys
             PROVE  MissAt(x, GetLoopDetection(q))'
  BY DEF MissInv
<1>c. PICK c : c = GetLoopDetection(q)
  OBVIOUS
<1>1. /\ c.window \in Nat /\ c.threshold \in Nat \ {0} /\ Most(c) \in Nat
  <2>1. LoopFields(c)
    BY <1>c, ConfigFields DEF DInv, DType
  <2>2. c.window \in Nat /\ c.threshold \in Nat \ {0}
    BY <2>1 DEF LoopFields
  <2> QED
    BY <2>2, MostFacts
<1>2. UNCHANGED defenders
  <2>1. CASE Quiet
    BY <2>1 DEF Quiet
  <2>2. ASSUME NEW r \in Reqs, NEW rt \in Routes, NEW k \in Keys, CheckLoop(r, rt, k)
        PROVE  UNCHANGED defenders
    BY <2>2 DEF CheckLoop
  <2> QED
    BY <2>1, <2>2, QuietSteps
<1>3. GetLoopDetection(q)' = c
  BY <1>c, <1>2, ConfigSame
<1>4. Agreed(c)
  <2>1. Agreed(c)'
    BY <1>3 DEF Agreed
  <2> QED
    BY <1>2, <2>1, ConfigSame
<1>5. \A y \in Keys : MissAt(y, c)
  BY <1>c, <1>4 DEF MissInv
<1>6. MissAt(x, c)'
  <2>1. CASE Quiet
    BY <1>1, <1>5, <2>1, QuietMiss
  <2>2. ASSUME NEW r \in Reqs, NEW rt \in Routes, NEW k \in Keys, CheckLoop(r, rt, k)
        PROVE  MissAt(x, c)'
    <3>1. PICK S \in SUBSET DOMAIN table, e \in Entries, v \in Verdicts :
            Checked(rt, k, S, e, v) /\ GetLoopDetection(rt).enabled
      <4>1. DType
        BY DEF DInv
      <4> QED
        BY <2>2, <4>1, CheckFacts
    <3>2. WindowOf(rt) = c.window /\ ThresholdOf(rt) = c.threshold
      BY <1>4, <3>1 DEF Agreed, WindowOf, ThresholdOf
    <3>3. CASE x = k
      BY <1>1, <1>5, <3>1, <3>2, <3>3, MissStep
    <3>4. CASE x # k
      BY <1>1, <1>5, <3>1, <3>2, <3>4, MissOther
    <3> QED
      BY <3>3, <3>4
  <2> QED
    BY <2>1, <2>2, QuietSteps
<1> QED
  BY <1>3, <1>6 DEF MissAt, MissOpen, MissShut, Most, Passed, PassedBefore, Since

Missed(i, c) == {h \in Recent(i, c.window) : log[h].verdict = "none"}

\* What check number n let pass together with the checks before it.
LEMMA MissedNow ==
  ASSUME DInv, NEW rt \in Routes, NEW k \in Keys, NEW S \in SUBSET DOMAIN table,
         NEW e \in Entries, NEW v \in Verdicts, Checked(rt, k, S, e, v),
         NEW c, c.window \in Nat, c.threshold \in Nat \ {0}, MissAt(k, c)',
         NEW n \in Nat, n = Len(log) + 1
  PROVE  Cardinality(Missed(n, c)') <= 2 * Most(c)
<1>0. Most(c) \in Nat
  BY MostFacts
<1>1. /\ DOMAIN log' = 1 .. n /\ log'[n].key = k /\ log'[n].at = now /\ log' \in Seq(Check)
      /\ now \in Nat
  BY CheckLogged DEF DInv, DType
<1>2. PICK f \in Nat : f = e.firstSeen /\ f <= now
  BY CheckEntry
<1>3. k \in DOMAIN table' /\ table'[k] = e
  BY DEF Checked
<1> DEFINE A == Passed(k, f)'
           B == PassedBefore(k, f, c.window)'
<1>4. Cardinality(A) <= Most(c) /\ Cardinality(B) <= Most(c)
  BY <1>2, <1>3 DEF MissAt, MissOpen
<1>5. A \subseteq 1 .. n /\ B \subseteq 1 .. n
  BY <1>1 DEF Passed, PassedBefore, Since
<1>6. Missed(n, c)' \subseteq A \cup B
  <2>1. ASSUME NEW h \in Missed(n, c)' PROVE h \in A \cup B
    <3>1. /\ h \in DOMAIN log' /\ log'[h].key = k /\ now - log'[h].at <= c.window
          /\ log'[h].verdict = "none"
      BY <1>1, <2>1 DEF Missed, Recent
    <3>2. log'[h].at \in Nat
      <4>1. log'[h] \in Check
        BY <1>1, <3>1
      <4> QED
        BY <4>1 DEF Check
    <3>3. CASE log'[h].at >= f
      BY <3>1, <3>3 DEF Passed, Since
    <3>4. CASE ~(log'[h].at >= f)
      <4>1. log'[h].at < f /\ log'[h].at >= f - c.window
        BY <1>1, <1>2, <3>1, <3>2, <3>4
      <4> QED
        BY <3>1, <4>1 DEF PassedBefore, Passed, Since
    <3> QED
      BY <3>3, <3>4
  <2> QED
    BY <2>1
<1> HIDE DEF A, B
<1>7. IsFiniteSet(A) /\ IsFiniteSet(B)
  <2>1. IsFiniteSet(1 .. n)
    BY FS_Interval
  <2> QED
    BY <1>5, <2>1, FS_Subset
<1>8. IsFiniteSet(A \cup B) /\ Cardinality(A \cup B) <= 2 * Most(c)
  <2>1. /\ IsFiniteSet(A \cup B) /\ IsFiniteSet(A \cap B)
        /\ Cardinality(A \cup B) = Cardinality(A) + Cardinality(B) - Cardinality(A \cap B)
    BY <1>7, FS_Union, FS_Intersection
  <2>2. Cardinality(A) \in Nat /\ Cardinality(B) \in Nat /\ Cardinality(A \cap B) \in Nat
    BY <1>7, <2>1, FS_CardinalityType
  <2> QED
    BY <1>0, <1>4, <2>1, <2>2
<1>9. 2 * Most(c) \in Nat
  BY <1>0
<1> QED
  BY <1>6, <1>8, <1>9, NoMore

MissedAt(i) ==
    LET c == GetLoopDetection(log[i].route) IN
    Agreed(c) => Cardinality(Missed(i, c)) <= 2 * Most(c)

(* Where the routes agree on what a loop is, the fixed windows let pass at *)
(* most twice what one of them does, however the arrivals straddle them    *)
(* and whenever the map is swept (loopDetector.checkLoop, cleanupStale).   *)
THEOREM MissBoundHolds == Spec => []MissBound
<1>1. Init => MissInv /\ MissBound
  <2> SUFFICES ASSUME Init PROVE MissInv /\ MissBound
    OBVIOUS
  <2>1. DOMAIN log = {} /\ DOMAIN table = {} /\ defenders \in Setups
    BY DEF Init
  <2>2. MissBound
    BY <2>1 DEF MissBound
  <2>3. ASSUME NEW rt \in Routes, NEW k \in Keys PROVE MissAt(k, GetLoopDetection(rt))
    <3>1. PICK c : c = GetLoopDetection(rt)
      OBVIOUS
    <3>2. LoopFields(c)
      BY <2>1, <3>1, ConfigFields
    <3>3. Most(c) \in Nat
      BY <3>2, MostFacts DEF LoopFields
    <3>4. Passed(k, now - c.window) = {}
      BY <2>1 DEF Passed, Since
    <3>5. Cardinality(Passed(k, now - c.window)) = 0
      BY <3>4, FS_EmptySet
    <3> QED
      BY <2>1, <3>1, <3>3, <3>5 DEF MissAt, MissShut
  <2> QED
    BY <2>2, <2>3 DEF MissInv
<1>2. DInv /\ MissInv /\ MissInv' /\ MissBound /\ [Next]_vars => MissBound'
  <2> SUFFICES ASSUME DInv, MissInv', MissBound, [Next]_vars PROVE MissBound'
    OBVIOUS
  <2>1. CASE Quiet
    <3>1. UNCHANGED <<defenders, log>>
      BY <2>1 DEF Quiet
    <3> QED
      BY <3>1 DEF MissBound, Recent, Agreed, GetLoopDetection
  <2>2. ASSUME NEW r \in Reqs, NEW rt \in Routes, NEW k \in Keys, CheckLoop(r, rt, k)
        PROVE  MissBound'
    <3>1. PICK S \in SUBSET DOMAIN table, e \in Entries, v \in Verdicts :
            Checked(rt, k, S, e, v) /\ GetLoopDetection(rt).enabled
      <4>1. DType
        BY DEF DInv
      <4> QED
        BY <2>2, <4>1, CheckFacts
    <3>n. PICK n \in Nat : n = Len(log) + 1
      BY DEF DInv, DType
    <3>a. Checked(rt, k, S, e, v)
      BY <3>1
    <3>2. /\ DOMAIN log' = 1 .. n /\ DOMAIN log = 1 .. (n - 1)
          /\ \A h \in DOMAIN log : log'[h] = log[h] /\ log[h] \in Check
          /\ log'[n].route = rt
      BY <3>a, <3>n, CheckLogged
    <3>3. UNCHANGED defenders /\ defenders \in Setups
      BY <3>a DEF Checked, DInv, DType
    <3>4. ASSUME NEW i \in DOMAIN log' PROVE MissedAt(i)'
      <4>0. PICK q, c : q \in Routes /\ q = log'[i].route /\ c = GetLoopDetection(q)
        <5>1. i \in DOMAIN log \/ i = n
          BY <3>2
        <5> QED
          BY <3>2, <5>1 DEF Check
      <4>1. GetLoopDetection(log[i].route)' = c
        BY <3>3, <4>0 DEF GetLoopDetection
      <4>2. GetLoopDetection(q)' = c
        BY <3>3, <4>0, ConfigSame
      <4>3. SUFFICES ASSUME Agreed(c)' PROVE Cardinality(Missed(i, c)') <= 2 * Most(c)
        BY <4>1 DEF MissedAt, Missed, Recent, Agreed, Most
      <4>4. CASE i \in 1 .. (n - 1)
        <5>1. i \in DOMAIN log /\ \A h \in 1 .. i : h \in DOMAIN log
          BY <3>2, <4>4
        <5>2. Missed(i, c)' = Missed(i, c)
          BY <3>2, <5>1 DEF Missed, Recent
        <5>3. c = GetLoopDetection(log[i].route)
          BY <3>2, <4>0, <5>1
        <5>4. Agreed(c)
          BY <3>3, <4>3, ConfigSame
        <5>5. Cardinality(Missed(i, c)) <= 2 * Most(c)
          BY <5>1, <5>3, <5>4 DEF MissBound, Missed, Most
        <5> QED
          BY <5>2, <5>5
      <4>5. CASE i = n
        <5>1. LoopFields(c)
          BY <3>3, <4>0, ConfigFields
        <5>2. c.window \in Nat /\ c.threshold \in Nat \ {0}
          BY <5>1 DEF LoopFields
        <5>3. MissAt(k, c)'
          <6>1. Agreed(GetLoopDetection(q))'
            BY <4>2, <4>3 DEF Agreed
          <6>2. MissAt(k, GetLoopDetection(q))'
            BY <4>0, <6>1 DEF MissInv
          <6> QED
            BY <4>2, <6>2 DEF MissAt, MissOpen, MissShut, Most, Passed, PassedBefore, Since
        <5> QED
          BY <3>a, <3>n, <4>5, <5>2, <5>3, MissedNow
      <4> QED
        BY <3>2, <4>4, <4>5
    <3> QED
      BY <3>4 DEF MissBound, MissedAt, Missed, Most
  <2> QED
    BY <2>1, <2>2, QuietSteps
<1>3. Spec => []MissInv
  BY <1>1, NextMiss, AlwaysDInv, PTL DEF Spec
<1> QED
  BY <1>1, <1>2, <1>3, AlwaysDInv, PTL DEF Spec
-----------------------------------------------------------------------------
(* Escalation: how far the violation of Escalates goes.                    *)

\* The routes that detect loops agree on the threshold n, and escalate after
\* more than one further arrival, as they do by default.
Patient(n) ==
    \A rt \in Routes :
      LET d == GetLoopDetection(rt) IN
      d.enabled => d.threshold = n /\ d.escalateAfter > 1

\* Where that is so no check ever escalates, however long a loop runs: a
\* detection takes the count back to the threshold (checkLoop), from where the
\* next arrival does not reach threshold + escalate_after.
NeverEscalates ==
    (\E n \in Nat : Patient(n)) => \A i \in DOMAIN log : log[i].verdict # "escalated"

\* No entry has counted past the threshold or is marked escaped.
EscInv ==
    \A n \in Nat : Patient(n) =>
      /\ \A k \in DOMAIN table : table[k].count <= n /\ table[k].escaped = FALSE
      /\ \A i \in DOMAIN log : log[i].verdict # "escalated"

\* One more arrival leaves such an entry as it was found.
LEMMA RepeatPatient ==
  ASSUME NEW e \in Entries, NEW c, LoopFields(c), c.escalateAfter > 1,
         e.count <= c.threshold, e.escaped = FALSE
  PROVE  LET v == Repeat(e, c) IN
         v.verdict # "escalated" /\ v.entry.count <= c.threshold /\ v.entry.escaped = FALSE
<1>0. /\ e.count \in Nat \ {0} /\ c.threshold \in Nat \ {0} /\ c.escalateAfter \in Nat
      /\ e = [count |-> e.count, firstSeen |-> e.firstSeen, escaped |-> e.escaped]
  BY DEF Entries, LoopFields
<1>1. CASE e.count + 1 < c.threshold
  <2>1. Repeat(e, c) = [verdict |-> "none", entry |-> [e EXCEPT !.count = e.count + 1]]
    BY <1>0, <1>1 DEF Repeat
  <2> QED
    BY <1>0, <1>1, <2>1
<1>2. CASE ~(e.count + 1 < c.threshold)
  <2>1. e.count + 1 >= c.threshold /\ ~(e.count + 1 >= c.threshold + c.escalateAfter)
    BY <1>0, <1>2
  <2>2. Repeat(e, c) = [verdict |-> "detected", entry |-> [e EXCEPT !.count = c.threshold]]
    BY <1>0, <1>2, <2>1 DEF Repeat
  <2> QED
    BY <1>0, <2>2
<1> QED
  BY <1>1, <1>2

\* What a check leaves in the map and in the history, verdict by verdict.
LEMMA CheckPatient ==
  ASSUME DInv, EscInv, NEW r \in Reqs, NEW rt \in Routes, NEW k \in Keys,
         CheckLoop(r, rt, k), NEW n \in Nat, Patient(n)
  PROVE  /\ \A x \in DOMAIN table' : table'[x].count <= n /\ table'[x].escaped = FALSE
         /\ \A i \in DOMAIN log' : log'[i].verdict # "escalated"
<1> DEFINE c == GetLoopDetection(rt)
           t == Swept(c.window)
           v == IF Open(t, k, c.window) THEN Repeat(t[k], c) ELSE NewWindow
<1>0. /\ LoopFields(c) /\ table \in [DOMAIN table -> Entries] /\ now \in Nat
      /\ log \in Seq(Check)
  BY ConfigFields DEF DInv, DType
<1>1. /\ c.enabled
      /\ table' = [x \in DOMAIN t \cup {k} |-> IF x = k THEN v.entry ELSE t[x]]
      /\ log' = Append(log, [key |-> k, at |-> now, route |-> rt, verdict |-> v.verdict])
  BY DEF CheckLoop
<1>2. c.threshold = n /\ c.escalateAfter > 1
  BY <1>1 DEF Patient
<1>3. DOMAIN t \subseteq DOMAIN table /\ \A x \in DOMAIN t : t[x] = table[x]
  BY DEF Swept, Restrict
<1> HIDE DEF t
<1>4. /\ \A x \in DOMAIN table : table[x].count <= n /\ table[x].escaped = FALSE
      /\ \A i \in DOMAIN log : log[i].verdict # "escalated"
  BY DEF EscInv
<1>5. /\ v.verdict # "escalated" /\ v.entry.count <= n /\ v.entry.escaped = FALSE
      /\ v.verdict \in Verdicts
  <2>1. CASE Open(t, k, c.window)
    <3>1. k \in DOMAIN table /\ t[k] = table[k] /\ table[k] \in Entries
      BY <1>0, <1>3, <2>1 DEF Open
    <3>2. v = Repeat(table[k], c)
      BY <2>1, <3>1
    <3>3. table[k].count <= c.threshold /\ table[k].escaped = FALSE
      BY <1>2, <1>4, <3>1
    <3> HIDE DEF v, c
    <3>4. /\ v.verdict # "escalated" /\ v.entry.count <= c.threshold
          /\ v.entry.escaped = FALSE
      BY <1>0, <1>2, <3>1, <3>2, <3>3, RepeatPatient
    <3>5. v.verdict \in Verdicts
      BY <1>0, <3>1, <3>2, RepeatFacts
    <3> QED
      BY <1>2, <3>4, <3>5
  <2>2. CASE ~Open(t, k, c.window)
    <3>1. v = NewWindow /\ n \in Nat \ {0}
      BY <1>0, <1>2, <2>2 DEF LoopFields
    <3> HIDE DEF v, c
    <3> QED
      BY <3>1 DEF NewWindow, Verdicts
  <2> QED
    BY <2>1, <2>2
<1> HIDE DEF v
<1>6. \A x \in DOMAIN table' : table'[x].count <= n /\ table'[x].escaped = FALSE
  <2> SUFFICES ASSUME NEW x \in DOMAIN t \cup {k}
               PROVE  table'[x].count <= n /\ table'[x].escaped = FALSE
    BY <1>1
  <2>1. CASE x = k
    BY <1>1, <1>5, <2>1
  <2>2. CASE x # k
    BY <1>1, <1>3, <1>4, <2>2
  <2> QED
    BY <2>1, <2>2
<1>7. \A i \in DOMAIN log' : log'[i].verdict # "escalated"
  <2> DEFINE w == [key |-> k, at |-> now, route |-> rt, verdict |-> v.verdict]
  <2>1. w \in Check /\ w.verdict = v.verdict
    BY <1>0, <1>5 DEF Check
  <2> HIDE DEF w
  <2>2. /\ DOMAIN log = 1 .. Len(log) /\ DOMAIN log' = 1 .. (Len(log) + 1)
        /\ \A h \in 1 .. Len(log) : log'[h] = log[h]
        /\ log'[Len(log) + 1] = w /\ Len(log) \in Nat
    BY <1>0, <1>1, <2>1, Logged DEF w
  <2> QED
    BY <1>4, <1>5, <2>1, <2>2
<1> QED
  BY <1>6, <1>7

(* For every configuration whose routes agree on the threshold and leave   *)
(* escalate_after at its default or set it higher, and for every sequence  *)
(* of requests, no repeat is ever escalated (loopDetector.checkLoop): what *)
(* the violation of Escalates shows of one run is so of all.               *)
THEOREM NeverEscalatesHolds == Spec => []NeverEscalates
<1>1. Init => EscInv
  <2> SUFFICES ASSUME Init PROVE EscInv
    OBVIOUS
  <2>1. DOMAIN table = {} /\ DOMAIN log = {}
    BY DEF Init
  <2> QED
    BY <2>1 DEF EscInv
<1>2. DInv /\ EscInv /\ [Next]_vars => EscInv'
  <2> SUFFICES ASSUME DInv, EscInv, [Next]_vars PROVE EscInv'
    OBVIOUS
  <2>1. defenders' = defenders
    BY QuietSteps DEF Quiet, CheckLoop
  <2>2. ASSUME NEW n \in Nat PROVE Patient(n)' = Patient(n)
    BY <2>1 DEF Patient, GetLoopDetection
  <2>3. CASE Quiet
    BY <2>2, <2>3 DEF Quiet, EscInv
  <2>4. ASSUME NEW r \in Reqs, NEW rt \in Routes, NEW k \in Keys, CheckLoop(r, rt, k)
        PROVE  EscInv'
    BY <2>2, <2>4, CheckPatient DEF EscInv
  <2> QED
    BY <2>3, <2>4, QuietSteps
<1>3. EscInv => NeverEscalates
  BY DEF EscInv, NeverEscalates
<1> QED
  BY <1>1, <1>2, <1>3, AlwaysDInv, PTL DEF Spec
=============================================================================
