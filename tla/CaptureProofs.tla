----------------------------- MODULE CaptureProofs -----------------------------
(***************************************************************************)
(* Proofs about Capture, for every number of requests, reloads, signals    *)
(* and every setting of the window.                                        *)
(***************************************************************************)
EXTENDS Capture, TLAPS, FiniteSetTheorems

PCs == {"validated", "reserving", "swapping", "queued", "upstream", "unread",
        "streaming", "done", "panicked"}

\* The types the steps need of one another, and what a request has before it
\* may reserve: a handle, and a loaded count within the window.
CType ==
    /\ gen \in Gens
    /\ current \in Gens \cup {None} /\ usr1 \in Gens \cup {None}
    /\ remaining \in [Gens -> Int] /\ arms \in [Gens -> Nat]
    /\ issued \in [Gens -> Seq(Int)]
    /\ pc \in [Reqs -> PCs]
    /\ handle \in [Reqs -> Gens \cup {None}]
    /\ seen \in [Reqs -> Int] /\ slot \in [Reqs -> Int]

Reserving ==
    \A r \in Reqs :
        /\ pc[r] \in {"validated", "reserving", "swapping"} => slot[r] = None
        /\ pc[r] \in {"reserving", "swapping"} => handle[r] \in Gens
        /\ pc[r] = "swapping" => seen[r] \in 1 .. Window(handle[r])
        /\ slot[r] # None => /\ handle[r] \in Gens
                             /\ slot[r] \in 1 .. Window(handle[r])

InWindow == \A g \in Gens : remaining[g] \in 0 .. Window(g)

CInv == CType /\ Reserving /\ InWindow /\ WindowLaw

\* Every window is a natural number.
LEMMA WindowNat == ASSUME NEW g \in Gens PROVE Window(g) \in Nat
  BY CaptureAssumption DEF Window, MaxMessages

\* A handle is a generation or none.
LEMMA HandleType == ASSUME NEW g \in Gens PROVE HandleOf(g) \in Gens \cup {None}
  BY DEF HandleOf

\* Appending n + 1 to 1, ..., n.
LEMMA Counting ==
  ASSUME NEW n \in Nat
  PROVE  Append([i \in 1 .. n |-> i], n + 1) = [i \in 1 .. n + 1 |-> i]
<1> DEFINE s == [i \in 1 .. n |-> i]
<1>1. s \in Seq(Int) /\ Len(s) = n
  OBVIOUS
<1>2. Append(s, n + 1) = [i \in 1 .. n + 1 |-> IF i = n + 1 THEN n + 1 ELSE s[i]]
  BY <1>1
<1> QED
  BY <1>2

\* It holds when the program starts: no window is open.
LEMMA InitCInv == Init => CInv
<1> SUFFICES ASSUME Init PROVE CInv
  OBVIOUS
<1>1. 0 \in Gens
  BY CaptureAssumption DEF Gens
<1>2. CType
  BY <1>1, HandleType DEF Init, CType, PCs, None
<1>3. Reserving
  BY DEF Init, Reserving
<1>4. InWindow /\ WindowLaw
  BY WindowNat DEF Init, InWindow, WindowLaw
<1> QED
  BY <1>2, <1>3, <1>4 DEF CInv

\* The steps after the reservation leave the window and the slots alone.
Later(r) == \/ AcquireSlot(r) \/ CancelWait(r) \/ ReadBodyFails(r) \/ ErrorHandler(r)
            \/ BufferResponse(r) \/ StartStream(r) \/ CloseStream(r) \/ BreakStream(r)

\* They only move the request and write its file.
LEMMA LaterFrame ==
  ASSUME NEW r \in Reqs, Later(r)
  PROVE  /\ UNCHANGED <<gen, current, window, usr1, locals>>
         /\ \E to \in {"upstream", "unread", "streaming", "done"} :
               pc' = [pc EXCEPT ![r] = to]
  BY DEF Later, AcquireSlot, CancelWait, ReadBodyFails, ErrorHandler, BufferResponse,
         StartStream, CloseStream, BreakStream, Goto, Rest

\* A reload leaves the window and the slots alone, and a request it makes panic
\* has done with them.
LEMMA ReloadFrame ==
  ASSUME CType, ApplyCaptureConfig
  PROVE  /\ UNCHANGED <<window, usr1, locals, outcome>>
         /\ pc' \in [Reqs -> PCs]
         /\ \A r \in Reqs : pc'[r] = pc[r]
              \/ (pc'[r] = "panicked" /\ pc[r] \in {"upstream", "unread", "streaming"})
<1>1. PICK dead \in IF Settings[gen].groups /\ ~Settings[gen + 1].groups
                   THEN SUBSET AtBalancer ELSE {{}} :
        pc' = [r \in Reqs |-> IF r \in dead THEN "panicked" ELSE pc[r]]
  BY DEF ApplyCaptureConfig
<1>2. dead \subseteq AtBalancer
  BY <1>1
<1>3. pc' \in [Reqs -> PCs]
  BY <1>1 DEF CType, PCs
<1>4. \A r \in Reqs : pc'[r] = pc[r]
        \/ (pc'[r] = "panicked" /\ pc[r] \in {"upstream", "unread", "streaming"})
  BY <1>1, <1>2 DEF AtBalancer
<1>5. UNCHANGED <<window, usr1, locals, outcome>>
  BY DEF ApplyCaptureConfig
<1> QED
  BY <1>3, <1>4, <1>5

\* Every step preserves it; the compare-and-swap is what makes ReserveSwap do.
LEMMA NextCInv == CInv /\ [Next]_vars => CInv'
<1> SUFFICES ASSUME CInv, [Next]_vars PROVE CInv'
  OBVIOUS
<1> USE DEF CInv
<1>0. Gens \subseteq Nat /\ None \notin Gens
  BY DEF Gens, None
<1>1. CASE ApplyCaptureConfig
  <2>1. gen + 1 \in Gens
    BY <1>1, CaptureAssumption DEF ApplyCaptureConfig, CType, Gens
  <2>2. /\ UNCHANGED <<window, usr1, locals>> /\ pc' \in [Reqs -> PCs]
        /\ \A r \in Reqs : pc'[r] = pc[r]
             \/ (pc'[r] = "panicked" /\ pc[r] \in {"upstream", "unread", "streaming"})
    BY <1>1, ReloadFrame
  <2>3. gen' \in Gens /\ current' \in Gens \cup {None}
    BY <1>1, <2>1, HandleType DEF ApplyCaptureConfig
  <2>4. CType'
    BY <2>2, <2>3 DEF CType, window, locals
  <2>5. Reserving'
    BY <2>2 DEF Reserving, locals
  <2> QED
    BY <2>2, <2>4, <2>5 DEF InWindow, WindowLaw, window
<1>2. CASE LoadForArm
  BY <1>2 DEF LoadForArm, CType, Reserving, InWindow, WindowLaw, window, locals
<1>3. CASE Arm
  <2>0. usr1 \in Gens
    BY <1>3 DEF Arm, CType
  <2>1. Window(usr1) \in Nat
    BY <2>0, WindowNat
  <2>2. CType'
    BY <1>3, <2>0, <2>1 DEF Arm, CType, locals
  <2>3. Reserving'
    BY <1>3 DEF Arm, Reserving, locals
  <2>4. InWindow'
    BY <1>3, <2>0, <2>1 DEF Arm, InWindow, CType
  <2>5. WindowLaw'
    <3> SUFFICES ASSUME NEW g \in Gens
                 PROVE  IF arms'[g] = 0
                        THEN remaining'[g] = 0 /\ issued'[g] = <<>>
                        ELSE issued'[g] = [i \in 1 .. Window(g) - remaining'[g] |-> i]
      BY DEF WindowLaw
    <3>1. CASE g = usr1
      <4>1. arms'[g] # 0 /\ remaining'[g] = Window(g) /\ issued'[g] = <<>>
        BY <1>3, <3>1, <2>0 DEF Arm, CType
      <4>2. [i \in 1 .. Window(g) - Window(g) |-> i] = <<>>
        BY <2>1, <3>1
      <4> QED
        BY <4>1, <4>2
    <3>2. CASE g # usr1
      <4>1. arms'[g] = arms[g] /\ remaining'[g] = remaining[g] /\ issued'[g] = issued[g]
        BY <1>3, <3>2 DEF Arm, CType
      <4> QED
        BY <4>1 DEF WindowLaw
    <3> QED
      BY <3>1, <3>2
  <2> QED
    BY <2>2, <2>3, <2>4, <2>5
<1>4. ASSUME NEW r \in Reqs, StartCapture(r) PROVE CInv'
  <2>1. CType'
    BY <1>4 DEF StartCapture, Goto, CType, window, PCs
  <2>2. Reserving'
    BY <1>4 DEF StartCapture, Goto, CType, Reserving
  <2> QED
    BY <1>4, <2>1, <2>2 DEF StartCapture, InWindow, WindowLaw, window
<1>5. ASSUME NEW r \in Reqs, ReserveLoad(r) PROVE CInv'
  <2>1. handle[r] \in Gens
    BY <1>5 DEF ReserveLoad, Reserving
  <2>2. remaining[handle[r]] \in 0 .. Window(handle[r])
    BY <2>1 DEF InWindow
  <2>3. CType'
    BY <1>5, <2>1, <2>2 DEF ReserveLoad, CType, window, PCs
  <2>4. /\ seen'[r] = remaining[handle[r]]
        /\ pc'[r] = IF seen'[r] <= 0 THEN "queued" ELSE "swapping"
        /\ \A q \in Reqs \ {r} : pc'[q] = pc[q] /\ seen'[q] = seen[q]
        /\ handle' = handle /\ slot' = slot /\ slot[r] = None
    BY <1>5 DEF ReserveLoad, CType, Reserving
  <2>5. pc'[r] = "swapping" => seen'[r] \in 1 .. Window(handle[r])
    BY <2>1, <2>2, <2>4, WindowNat
  <2>6. Reserving'
    BY <2>1, <2>4, <2>5 DEF Reserving
  <2> QED
    BY <1>5, <2>3, <2>6 DEF ReserveLoad, InWindow, WindowLaw, window
<1>6. ASSUME NEW r \in Reqs, ReserveSwap(r) PROVE CInv'
  <2>1. handle[r] \in Gens /\ seen[r] \in 1 .. Window(handle[r])
    BY <1>6 DEF ReserveSwap, Reserving
  <2>2. Window(handle[r]) \in Nat
    BY <2>1, WindowNat
  <2>3. CASE seen[r] = remaining[handle[r]] /\ Claim(r)
    <3> DEFINE g == handle[r]
               seq == Window(g) - seen[r] + 1
    <3>1. seq \in 1 .. Window(g) /\ seq \in Int
      BY <2>1, <2>2
    <3>2. /\ remaining' = [remaining EXCEPT ![g] = seen[r] - 1]
          /\ issued' = [issued EXCEPT ![g] = Append(@, seq)]
          /\ slot' = [slot EXCEPT ![r] = seq]
          /\ pc' = [pc EXCEPT ![r] = "queued"]
          /\ UNCHANGED <<gen, current, arms, usr1, handle, seen>>
      BY <2>3 DEF Claim, Goto
    <3>3. CType'
      BY <2>1, <3>1, <3>2 DEF CType, PCs
    <3>4. Reserving'
      BY <2>1, <3>1, <3>2 DEF CType, Reserving
    <3>5. InWindow'
      BY <2>1, <2>2, <3>2 DEF CType, InWindow
    <3>6. WindowLaw'
      <4> SUFFICES ASSUME NEW h \in Gens
                   PROVE  IF arms'[h] = 0
                          THEN remaining'[h] = 0 /\ issued'[h] = <<>>
                          ELSE issued'[h] = [i \in 1 .. Window(h) - remaining'[h] |-> i]
        BY DEF WindowLaw
      <4>1. CASE h # g
        <5>1. arms'[h] = arms[h] /\ remaining'[h] = remaining[h] /\ issued'[h] = issued[h]
          BY <3>2, <4>1 DEF CType
        <5> QED
          BY <5>1 DEF WindowLaw
      <4>2. CASE h = g
        <5> DEFINE n == Window(g) - seen[r]
        <5>1. n \in Nat /\ seq = n + 1
          BY <2>1, <2>2
        <5>2. arms[g] # 0 /\ issued[g] = [i \in 1 .. n |-> i]
          BY <2>1, <2>3 DEF WindowLaw
        <5>3. issued'[g] = Append([i \in 1 .. n |-> i], n + 1)
          BY <2>1, <3>2, <5>1, <5>2 DEF CType
        <5>4. remaining'[g] = seen[r] - 1 /\ arms'[g] # 0
          BY <2>1, <3>2, <5>2 DEF CType
        <5>5. Window(g) - remaining'[g] = n + 1
          BY <2>1, <2>2, <5>4
        <5>6. issued'[g] = [i \in 1 .. n + 1 |-> i]
          BY <5>1, <5>3, Counting
        <5> QED
          BY <4>2, <5>4, <5>5, <5>6
      <4> QED
        BY <4>1, <4>2
    <3> QED
      BY <3>3, <3>4, <3>5, <3>6
  <2>4. CASE /\ seen[r] # remaining[handle[r]] /\ Goto(r, "swapping", "reserving")
             /\ UNCHANGED <<gen, current, window, usr1, locals, outcome>>
    BY <2>1, <2>4 DEF Goto, CType, Reserving, InWindow, WindowLaw, window, locals, PCs
  <2> QED
    BY <1>6, <2>3, <2>4 DEF ReserveSwap
<1>7. ASSUME NEW r \in Reqs, Later(r) PROVE CInv'
  <2>1. UNCHANGED <<gen, current, window, usr1, locals>>
    BY <1>7, LaterFrame
  <2>2. PICK to \in {"upstream", "unread", "streaming", "done"} : pc' = [pc EXCEPT ![r] = to]
    BY <1>7, LaterFrame
  <2> QED
    BY <2>1, <2>2 DEF CType, Reserving, InWindow, WindowLaw, window, locals, PCs
<1>8. CASE UNCHANGED vars
  BY <1>8 DEF vars, CType, Reserving, InWindow, WindowLaw, window, locals
<1> QED
  BY <1>1, <1>2, <1>3, <1>4, <1>5, <1>6, <1>7, <1>8 DEF Next, Reserve, Respond, Later

\* So it always holds.
LEMMA CInvAlways == Spec => []CInv
  BY InitCInv, NextCInv, PTL DEF Spec

(* For every number of concurrent requests, re-arming and reloads: since a *)
(* handle was last armed it has handed out its slots in order and each     *)
(* once, and never more than max_messages.                                 *)
THEOREM WindowLawHolds == Spec => []WindowLaw
<1>1. CInv => WindowLaw
  BY DEF CInv
<1> QED
  BY <1>1, CInvAlways, PTL
-----------------------------------------------------------------------------
(* How many requests are captured.                                         *)

\* What has been handed out and what is left is covered by the signals.
Covered == \A g \in Gens :
    /\ IsFiniteSet(Holders(g))
    /\ Cardinality(Holders(g)) + remaining[g] <= arms[g] * Window(g)

\* One more window.
LEMMA NextWindow == ASSUME NEW a \in Nat, NEW w \in Nat PROVE (a + 1) * w = a * w + w
  OBVIOUS

\* A step that hands out no slot and leaves the counters alone keeps it: a
\* request that is still reserving holds none.
LEMMA SameHolders ==
  ASSUME Covered, remaining' = remaining, arms' = arms, slot' = slot,
         \A r \in Reqs : slot[r] # None => handle'[r] = handle[r]
  PROVE  Covered'
<1>1. \A g \in Gens : Holders(g)' = Holders(g)
  BY DEF Holders
<1> QED
  BY <1>1 DEF Covered

\* Covered is preserved by every step.
LEMMA NextCovered == CInv /\ Covered /\ [Next]_vars => Covered'
<1> SUFFICES ASSUME CInv, Covered, [Next]_vars PROVE Covered'
  OBVIOUS
<1>0. CType /\ Reserving /\ InWindow
  BY DEF CInv
<1>1. CASE ApplyCaptureConfig
  BY <1>0, <1>1, ReloadFrame, SameHolders DEF window, locals
<1>2. CASE LoadForArm \/ UNCHANGED vars
  BY <1>2, SameHolders DEF LoadForArm, vars, window, locals
<1>3. CASE Arm
  <2>0. usr1 \in Gens /\ slot' = slot /\ handle' = handle
    BY <1>0, <1>3 DEF Arm, CType, locals
  <2>1. \A g \in Gens : Holders(g)' = Holders(g)
    BY <2>0 DEF Holders
  <2>2. ASSUME NEW g \in Gens
        PROVE  Cardinality(Holders(g)) + remaining'[g] <= arms'[g] * Window(g)
    <3>1. IsFiniteSet(Holders(g)) /\ Cardinality(Holders(g)) + remaining[g] <= arms[g] * Window(g)
      BY DEF Covered
    <3>2. CASE g # usr1
      <4>1. arms'[g] = arms[g] /\ remaining'[g] = remaining[g]
        BY <1>0, <1>3, <3>2 DEF Arm, CType
      <4> QED
        BY <3>1, <4>1
    <3>3. CASE g = usr1
      <4>1. arms'[g] = arms[g] + 1 /\ remaining'[g] = Window(g)
        BY <1>0, <1>3, <3>3 DEF Arm, CType
      <4>2. arms[g] \in Nat /\ Window(g) \in Nat /\ remaining[g] \in Nat
        BY <1>0, WindowNat DEF CType, InWindow
      <4>3. Cardinality(Holders(g)) \in Nat
        BY <3>1, FS_CardinalityType
      <4>4. (arms[g] + 1) * Window(g) = arms[g] * Window(g) + Window(g) /\ arms[g] * Window(g) \in Nat
        BY <4>2, NextWindow
      <4> DEFINE p == arms[g] * Window(g)
                 q == (arms[g] + 1) * Window(g)
      <4>5. q = p + Window(g) /\ p \in Nat /\ Cardinality(Holders(g)) + remaining[g] <= p
        BY <3>1, <4>4
      <4> HIDE DEF p, q
      <4>6. Cardinality(Holders(g)) + Window(g) <= q
        BY <4>2, <4>3, <4>5
      <4> QED
        BY <4>1, <4>6 DEF q
    <3> QED
      BY <3>2, <3>3
  <2> QED
    BY <2>1, <2>2 DEF Covered
<1>4. ASSUME NEW r \in Reqs, StartCapture(r) \/ ReserveLoad(r) PROVE Covered'
  <2>1. slot[r] = None
    BY <1>0, <1>4 DEF StartCapture, ReserveLoad, Goto, Reserving
  <2>2. remaining' = remaining /\ arms' = arms /\ slot' = slot
    BY <1>4 DEF StartCapture, ReserveLoad, window
  <2>3. \A x \in Reqs : x # r => handle'[x] = handle[x]
    BY <1>0, <1>4 DEF StartCapture, ReserveLoad, CType
  <2> QED
    BY <2>1, <2>2, <2>3, SameHolders
<1>5. ASSUME NEW r \in Reqs, ReserveSwap(r) PROVE Covered'
  <2>1. handle[r] \in Gens /\ slot[r] = None /\ seen[r] \in 1 .. Window(handle[r])
    BY <1>0, <1>5 DEF ReserveSwap, Reserving
  <2>2. CASE seen[r] = remaining[handle[r]] /\ Claim(r)
    <3>0. PICK g \in Gens : g = handle[r]
      BY <2>1
    <3> DEFINE seq == Window(g) - seen[r] + 1
    <3>1. /\ remaining' = [remaining EXCEPT ![g] = seen[r] - 1]
          /\ slot' = [slot EXCEPT ![r] = seq]
          /\ arms' = arms /\ handle' = handle
      BY <2>2, <3>0 DEF Claim
    <3>2. seq # None /\ seen[r] \in Int
      BY <2>1, <3>0, WindowNat DEF None
    <3>3. Holders(g)' = Holders(g) \cup {r} /\ r \notin Holders(g)
      BY <1>0, <2>1, <3>0, <3>1, <3>2 DEF Holders, CType
    <3>4. \A h \in Gens \ {g} : Holders(h)' = Holders(h)
      BY <1>0, <3>0, <3>1 DEF Holders, CType
    <3>5. remaining'[g] = remaining[g] - 1 /\ \A h \in Gens \ {g} : remaining'[h] = remaining[h]
      BY <1>0, <2>1, <2>2, <3>0, <3>1 DEF CType
    <3>6. IsFiniteSet(Holders(g)) /\ Cardinality(Holders(g)) + remaining[g] <= arms[g] * Window(g)
      BY <2>1 DEF Covered
    <3>7. /\ IsFiniteSet(Holders(g) \cup {r})
          /\ Cardinality(Holders(g) \cup {r}) = Cardinality(Holders(g)) + 1
          /\ Cardinality(Holders(g)) \in Nat
      BY <3>3, <3>6, FS_AddElement, FS_CardinalityType
    <3>8. remaining[g] \in Int
      BY <1>0, <2>1 DEF CType
    <3>9. Cardinality(Holders(g) \cup {r}) + remaining'[g] = Cardinality(Holders(g)) + remaining[g]
      BY <3>5, <3>7, <3>8
    <3>10. ASSUME NEW h \in Gens
           PROVE  /\ IsFiniteSet(Holders(h)')
                  /\ Cardinality(Holders(h)') + remaining'[h] <= arms'[h] * Window(h)
      <4>1. CASE h = g
        <5>1. Holders(h)' = Holders(g) \cup {r}
          BY <3>3, <4>1
        <5>2. Cardinality(Holders(g) \cup {r}) + remaining'[g] <= arms'[g] * Window(g)
          BY <3>1, <3>6, <3>9
        <5> QED
          BY <3>7, <4>1, <5>1, <5>2
      <4>2. CASE h # g
        BY <3>1, <3>4, <3>5, <4>2 DEF Covered
      <4> QED
        BY <4>1, <4>2
    <3> QED
      BY <3>10 DEF Covered
  <2>3. CASE UNCHANGED <<gen, current, window, usr1, locals, outcome>>
    BY <2>3, SameHolders DEF window, locals
  <2> QED
    BY <1>5, <2>2, <2>3 DEF ReserveSwap
<1>6. ASSUME NEW r \in Reqs, Later(r) PROVE Covered'
  BY <1>6, LaterFrame, SameHolders DEF window, locals
<1> QED
  BY <1>1, <1>2, <1>3, <1>4, <1>5, <1>6 DEF Next, Reserve, Respond, Later

(* However many requests, signals and reloads there are and however they   *)
(* interleave with Reserve's load and compare-and-swap, a handle has given *)
(* slots to at most max_messages requests for each time it was armed.      *)
THEOREM SlotBoundHolds == Spec => []SlotBound
<1>1. Init => Covered
  <2> SUFFICES ASSUME Init PROVE Covered
    OBVIOUS
  <2>1. \A g \in Gens : Holders(g) = {}
    BY DEF Init, Holders
  <2>2. ASSUME NEW g \in Gens PROVE remaining[g] = 0 /\ arms[g] * Window(g) = 0
    <3>1. Window(g) \in Nat /\ arms[g] = 0 /\ remaining[g] = 0
      BY WindowNat DEF Init
    <3> QED
      BY <3>1
  <2> QED
    BY <2>1, <2>2, FS_EmptySet DEF Covered
<1>2. CInv /\ Covered => SlotBound
  <2> SUFFICES ASSUME CInv, Covered, NEW g \in Gens
               PROVE  Cardinality(Holders(g)) <= arms[g] * Window(g)
    BY DEF SlotBound
  <2>1. arms[g] \in Nat /\ Window(g) \in Nat /\ remaining[g] \in Nat
    BY WindowNat DEF CInv, CType, InWindow
  <2>2. IsFiniteSet(Holders(g)) /\ Cardinality(Holders(g)) + remaining[g] <= arms[g] * Window(g)
    BY DEF Covered
  <2>3. Cardinality(Holders(g)) \in Nat /\ arms[g] * Window(g) \in Nat
    BY <2>1, <2>2, FS_CardinalityType
  <2> QED
    BY <2>1, <2>2, <2>3
<1> QED
  BY <1>1, <1>2, CInvAlways, NextCovered, PTL DEF Spec
-----------------------------------------------------------------------------
(* What the requests write.                                                *)

\* A request that has ended without a panic has written its slot; a body that
\* could not be read was written before ErrorHandler runs.
Kept == \A r \in Reqs : slot[r] # None /\ pc[r] \in {"unread", "done"} => writes[r] > 0

WInv == /\ writes \in [Reqs -> Nat] /\ file \in [Reqs -> {"none", "error", "response"}]
        /\ Kept

\* What a finish does to the request's own entries.
LEMMA FinishEffect ==
  ASSUME WInv, NEW r \in Reqs, NEW what \in {"error", "response"}, Finish(r, what)
  PROVE  /\ writes' \in [Reqs -> Nat]
         /\ file' \in [Reqs -> {"none", "error", "response"}]
         /\ slot[r] # None => writes'[r] > 0
         /\ \A q \in Reqs \ {r} : writes'[q] = writes[q]
<1>1. CASE slot[r] = None
  BY <1>1 DEF Finish, WInv
<1>2. CASE slot[r] # None
  <2>1. writes' = [writes EXCEPT ![r] = @ + 1]
    BY <1>2 DEF Finish
  <2>2. file' = [file EXCEPT ![r] = what] \/ file' = file
    BY <1>2 DEF Finish
  <2>3. file' \in [Reqs -> {"none", "error", "response"}]
    BY <2>2 DEF WInv
  <2>4. /\ writes' \in [Reqs -> Nat] /\ writes'[r] > 0
        /\ \A q \in Reqs \ {r} : writes'[q] = writes[q]
    BY <2>1 DEF WInv
  <2> QED
    BY <2>3, <2>4
<1> QED
  BY <1>1, <1>2

\* Every step preserves it.
LEMMA NextWInv == CInv /\ WInv /\ [Next]_vars => WInv'
<1> SUFFICES ASSUME CInv, WInv, [Next]_vars PROVE WInv'
  OBVIOUS
<1>0. CType /\ Reserving
  BY DEF CInv
<1>1. CASE ApplyCaptureConfig
  BY <1>0, <1>1, ReloadFrame DEF WInv, Kept, locals, outcome
<1>2. CASE LoadForArm \/ Arm \/ UNCHANGED vars
  BY <1>2 DEF LoadForArm, Arm, vars, locals, outcome, WInv, Kept
<1>3. ASSUME NEW r \in Reqs, Reserve(r) PROVE WInv'
  <2>1. UNCHANGED outcome /\ pc'[r] \notin {"unread", "done"}
    BY <1>0, <1>3 DEF Reserve, StartCapture, ReserveLoad, ReserveSwap, Claim, Goto, CType
  <2>2. \A q \in Reqs \ {r} : pc'[q] = pc[q] /\ slot'[q] = slot[q]
    BY <1>0, <1>3 DEF Reserve, StartCapture, ReserveLoad, ReserveSwap, Claim, Goto, CType, locals
  <2> QED
    BY <2>1, <2>2 DEF WInv, Kept, outcome
<1>4. ASSUME NEW r \in Reqs, AcquireSlot(r) \/ StartStream(r) PROVE WInv'
  <2>1. UNCHANGED <<outcome, locals>> /\ pc'[r] \notin {"unread", "done"}
        /\ \A q \in Reqs \ {r} : pc'[q] = pc[q]
    BY <1>0, <1>4 DEF AcquireSlot, StartStream, Goto, Rest, CType
  <2> QED
    BY <2>1 DEF WInv, Kept, outcome, locals
<1>5. ASSUME NEW r \in Reqs,
             \/ CancelWait(r) \/ ReadBodyFails(r) \/ ErrorHandler(r)
             \/ BufferResponse(r) \/ CloseStream(r) \/ BreakStream(r)
      PROVE  WInv'
  <2>1. PICK what \in {"error", "response"} : Finish(r, what)
    BY <1>5 DEF CancelWait, ReadBodyFails, ErrorHandler, BufferResponse, CloseStream, BreakStream
  <2>2. slot' = slot /\ \A q \in Reqs \ {r} : pc'[q] = pc[q]
    BY <1>0, <1>5 DEF CancelWait, ReadBodyFails, ErrorHandler, BufferResponse, CloseStream,
                      BreakStream, Goto, Rest, locals, CType
  <2>3. /\ writes' \in [Reqs -> Nat]
        /\ file' \in [Reqs -> {"none", "error", "response"}]
        /\ slot[r] # None => writes'[r] > 0
        /\ \A q \in Reqs \ {r} : writes'[q] = writes[q]
    BY <2>1, FinishEffect
  <2> QED
    BY <2>2, <2>3 DEF WInv, Kept
<1> QED
  BY <1>1, <1>2, <1>3, <1>4, <1>5 DEF Next, Respond

\* Both invariants together always hold.
LEMMA WInvAlways == Spec => [](CInv /\ WInv)
<1>1. Init => WInv
  BY DEF Init, WInv, Kept
<1> QED
  BY <1>1, InitCInv, NextCInv, NextWInv, PTL DEF Spec

(* The counters of every handle stay within its window and every slot's    *)
(* number within 1 .. max_messages, for every window and every number of   *)
(* requests.                                                               *)
THEOREM TypeCorrect == Spec => []TypeOK
<1>1. CInv /\ WInv => TypeOK
  BY DEF CInv, CType, PCs, Reserving, InWindow, WInv, TypeOK
<1> QED
  BY <1>1, WInvAlways, PTL

(* No slot is lost: whichever way its request ends (refused in the queue,  *)
(* upstream error, unreadable body, response, broken stream), startCapture *)
(* is followed by a write of the slot, unless the handler panicked.  What  *)
(* SlotWritten adds is that the request ends.                              *)
THEOREM KeptHolds == Spec => []Kept
<1>1. WInv => Kept
  BY DEF WInv
<1> QED
  BY <1>1, WInvAlways, PTL
=============================================================================
