------------------------ MODULE RequestLifecycleProofs ------------------------
(***************************************************************************)
(* The accounting laws of RequestLifecycle for every set of requests and   *)
(* backends, every number of reloads and every sequence of configurations. *)
(***************************************************************************)
EXTENDS RequestLifecycle, FiniteSetTheorems, TLAPS

(* The types the actions preserve by themselves: that the counters are not *)
(* negative only follows from the laws.                                    *)
Types ==
    /\ rtrGen \in Gens /\ cfgGen \in Gens /\ semGen \in Gens
    /\ bal \in Gens \cup {None}
    /\ reload \in {"idle", "config", "semaphores", "balancer"}
    /\ pc \in [Reqs -> Working \cup Ended]
    /\ route \in [Reqs -> {"none", "group", "direct", "passthrough"}]
    /\ cfgOf \in [Reqs -> Gens \cup {None}]
    /\ rtrOf \in [Reqs -> Gens \cup {None}]
    /\ grp \in [Reqs -> Groups \cup {None}]
    /\ tgt \in [Reqs -> Backends \cup {None}]
    /\ semOf \in [Reqs -> Gens \cup {None}]
    /\ inflight \in [Gens -> [Backends -> Int]]
    /\ dispatched \in [Gens -> [Backends -> Nat]]
    /\ completed \in [Gens -> [Backends -> Nat]]
    /\ slots \in [Gens -> [Backends -> Int]]
    /\ active \in [Backends -> Int]
    /\ buffered \in Int
    /\ incGen \in [Reqs -> Gens \cup {None}]
    /\ dspGen \in [Reqs -> Gens \cup {None}]
    /\ decGen \in [Reqs -> Gens \cup {None}]

(* What a request's position says about its other fields. *)
Uncounted == {"arrived", "loaded", "grouped", "selecting", "selected", "rejected"}
Settled   == {"invalidating", "returning", "aborting", "done", "settlePanicked"}
Bound     == {"selected", "incremented", "prepared", "noBackend", "buffered",
              "recording", "admitted", "waiting", "upstream", "streaming",
              "completing", "invalidating", "returning", "aborting", "done"}
Queued    == {"waiting", "upstream", "streaming", "completing", "invalidating",
              "returning", "aborting", "done", "slotCanceled"}

Structure ==
    \A r \in Reqs :
        /\ pc[r] \in Uncounted => incGen[r] = None
        /\ pc[r] \in Uncounted \cup {"incremented"} => dspGen[r] = None
        /\ pc[r] \notin Settled => decGen[r] = None
        /\ pc[r] \in Bound => tgt[r] \in Backends
        /\ pc[r] \in Queued => semOf[r] \in Gens
        /\ pc[r] # "arrived" => pc[r] = "rejected" \/ cfgOf[r] \in Gens
        /\ pc[r] = "grouped" => rtrOf[r] \in Gens
        /\ pc[r] \in {"grouped", "selecting"} => grp[r] \in Groups
        /\ pc[r] \in {"arrived", "loaded"} => rtrOf[r] = None

(* What ConstantsAssumption says of generations, balancers and members. *)
LEMMA ConstantFacts ==
    /\ 0 \in Gens
    /\ \A g \in Gens : g \in Int /\ g # None
    /\ \A g \in Gens : BalancerOf(g) \in Gens \cup {None}
    /\ \A g \in Gens : Known[g] \subseteq Backends
    /\ \A g \in Gens : Default[g] # None => Default[g] \in Backends
    /\ \A g \in Gens, G \in Groups :
         Members[g][G] \subseteq Backends /\ Pool(g, G) \subseteq Backends
BY ConstantsAssumption DEF Gens, None, BalancerOf, Pool

(* The counters keep their types when one request moves them. *)
LEMMA IncrTypes ==
    ASSUME Types, NEW r \in Reqs, Incr(r), tgt[r] \in Backends
    PROVE  /\ inflight' \in [Gens -> [Backends -> Int]]
           /\ incGen' \in [Reqs -> Gens \cup {None}]
           /\ \A q \in Reqs \ {r} : incGen'[q] = incGen[q]
<1>1. bal \in Gens BY DEF Incr, Types
<1>2. CASE tgt[r] \in Balanced(bal)
  <2>1. /\ inflight' = [inflight EXCEPT ![bal][tgt[r]] = @ + 1]
        /\ incGen' = [incGen EXCEPT ![r] = bal]
    BY <1>2 DEF Incr
  <2>2. /\ inflight \in [Gens -> [Backends -> Int]]
        /\ incGen \in [Reqs -> Gens \cup {None}]
    BY DEF Types
  <2> QED BY <1>1, <2>1, <2>2
<1>3. CASE tgt[r] \notin Balanced(bal)
  BY <1>3 DEF Incr, Types
<1> QED BY <1>2, <1>3

(* The same for Dispatch, *)
LEMMA DispatchTypes ==
    ASSUME Types, NEW r \in Reqs, Dispatch(r), tgt[r] \in Backends
    PROVE  /\ dispatched' \in [Gens -> [Backends -> Nat]]
           /\ dspGen' \in [Reqs -> Gens \cup {None}]
           /\ \A q \in Reqs \ {r} : dspGen'[q] = dspGen[q]
<1>1. bal \in Gens BY DEF Dispatch, Types
<1>2. CASE tgt[r] \in Balanced(bal)
  <2>1. /\ dispatched' = [dispatched EXCEPT ![bal][tgt[r]] = @ + 1]
        /\ dspGen' = [dspGen EXCEPT ![r] = bal]
    BY <1>2 DEF Dispatch
  <2>2. /\ dispatched \in [Gens -> [Backends -> Nat]]
        /\ dspGen \in [Reqs -> Gens \cup {None}]
    BY DEF Types
  <2> QED BY <1>1, <2>1, <2>2
<1>3. CASE tgt[r] \notin Balanced(bal)
  BY <1>3 DEF Dispatch, Types
<1> QED BY <1>2, <1>3

(* and for the end of an exchange. *)
LEMMA CompleteTypes ==
    ASSUME Types, NEW r \in Reqs, CompleteAndDecr(r), tgt[r] \in Backends
    PROVE  /\ inflight' \in [Gens -> [Backends -> Int]]
           /\ completed' \in [Gens -> [Backends -> Nat]]
           /\ decGen' \in [Reqs -> Gens \cup {None}]
           /\ \A q \in Reqs \ {r} : decGen'[q] = decGen[q]
<1>0. bal \in Gens BY DEF CompleteAndDecr, Types
<1>1. CASE tgt[r] \in Balanced(bal)
  <2>1. /\ inflight' = [inflight EXCEPT ![bal][tgt[r]] = @ - 1]
        /\ completed' = [completed EXCEPT ![bal][tgt[r]] = @ + 1]
        /\ decGen' = [decGen EXCEPT ![r] = bal]
    BY <1>1 DEF CompleteAndDecr
  <2>2. /\ inflight \in [Gens -> [Backends -> Int]]
        /\ completed \in [Gens -> [Backends -> Nat]]
        /\ decGen \in [Reqs -> Gens \cup {None}]
    BY DEF Types
  <2> QED BY <1>0, <2>1, <2>2
<1>2. CASE tgt[r] \notin Balanced(bal)
  BY <1>2 DEF CompleteAndDecr, Types
<1> QED BY <1>1, <1>2

(* The same for the semaphore tokens. *)
LEMMA SlotTypes ==
    ASSUME Types, NEW r \in Reqs, AcquireSlot(r) \/ Release(r),
           tgt[r] \in Backends, semOf[r] \in Gens
    PROVE  slots' \in [Gens -> [Backends -> Int]]
<1>1. slots \in [Gens -> [Backends -> Int]] BY DEF Types
<1>2. \/ slots' = [slots EXCEPT ![semOf[r]][tgt[r]] = @ + 1]
      \/ slots' = [slots EXCEPT ![semOf[r]][tgt[r]] = @ - 1]
      \/ slots' = slots
  BY DEF AcquireSlot, Release
<1> QED BY <1>1, <1>2

(* A fresh server is well typed and structured. *)
LEMMA InitTypes == Init => Types /\ Structure
BY ConstantFacts DEF Init, Types, Structure, Zero, Working, Ended, Refused,
   Abandoned, Panicked, Uncounted, Settled, Bound, Queued

(* Every action keeps types and structure. *)
LEMMA NextTypes == Types /\ Structure /\ [Next]_vars => Types' /\ Structure'
<1> SUFFICES ASSUME Types, Structure, [Next]_vars PROVE Types' /\ Structure'
    OBVIOUS
<1> USE ConstantFacts
<1> USE DEF Types, Structure, pointers, snapshot, flows, Working, Ended,
            Refused, Abandoned, Panicked, Uncounted, Settled, Bound, Queued
<1>1. CASE UNCHANGED vars
  BY <1>1 DEF vars
<1>2. CASE Reload
  <2>1. rtrGen' \in Gens /\ cfgGen' \in Gens /\ semGen' \in Gens
    <3>1. rtrGen < MaxGen => rtrGen + 1 \in Gens
      BY ConstantsAssumption DEF Gens
    <3> QED BY <1>2, <3>1 DEF Reload, ReloadRouter, ReloadConfig,
            ReloadSemaphores, ReloadBalancer
  <2>2. /\ bal' \in Gens \cup {None}
        /\ reload' \in {"idle", "config", "semaphores", "balancer"}
    BY <1>2 DEF Reload, ReloadRouter, ReloadConfig, ReloadSemaphores,
       ReloadBalancer
  <2>3. UNCHANGED <<pc, snapshot, semOf, flows, slots, active, buffered>>
    BY <1>2 DEF Reload, ReloadRouter, ReloadConfig, ReloadSemaphores,
       ReloadBalancer
  <2> QED BY <2>1, <2>2, <2>3
<1>3. ASSUME NEW r \in Reqs, Serve(r) \/ CancelWait(r) PROVE Types' /\ Structure'
  <2> USE <1>3 DEF Goto
  <2>1. CASE RejectBody(r) BY <2>1 DEF RejectBody
  <2>2. CASE LoadConfig(r) BY <2>2 DEF LoadConfig
  <2>3. CASE Reject(r) BY <2>3 DEF Reject
  <2>a. ASSUME NEW kind \in {"direct", "passthrough"}, NEW b \in Backends,
               Bind(r, kind, b)
        PROVE  Types' /\ Structure'
    BY <2>a DEF Bind
  <2>4. CASE RouteDirect(r) BY <2>4, <2>a DEF RouteDirect
  <2>5. CASE RoutePassthrough(r)
    <3>1. pc[r] = "loaded" BY <2>5 DEF RoutePassthrough
    <3>2. Default[cfgOf[r]] # None => Default[cfgOf[r]] \in Backends BY <3>1
    <3> QED BY <2>5, <2>a, <3>2 DEF RoutePassthrough
  <2>6. CASE RouteGroup(r)
    <3>1. PICK G \in Groups : grp' = [grp EXCEPT ![r] = G]
      BY <2>6 DEF RouteGroup
    <3>2. /\ pc[r] = "loaded" /\ pc' = [pc EXCEPT ![r] = "grouped"]
          /\ rtrOf' = [rtrOf EXCEPT ![r] = rtrGen]
          /\ route' = [route EXCEPT ![r] = "group"]
          /\ UNCHANGED <<pointers, cfgOf, tgt, semOf, flows, slots, active, buffered>>
      BY <2>6 DEF RouteGroup
    <3> QED BY <3>1, <3>2
  <2>7. CASE SkipBalancer(r) BY <2>7 DEF SkipBalancer
  <2>8. CASE ReadGroupConfig(r) BY <2>8 DEF ReadGroupConfig
  <2>9. CASE Select(r) BY <2>9 DEF Select
  <2>10. CASE NilBalancer(r)
    <3>1. /\ pc[r] \in {"selecting", "selected", "incremented"}
          /\ pc' = [pc EXCEPT ![r] = "panicked"]
          /\ UNCHANGED <<pointers, snapshot, semOf, flows, slots, active, buffered>>
      BY <2>10 DEF NilBalancer
    <3> QED BY <3>1
  <2>25. CASE SelectFails(r) BY <2>25 DEF SelectFails
  <2>11. CASE Incr(r)
    <3>1. tgt[r] \in Backends BY <2>11 DEF Incr
    <3>2. /\ inflight' \in [Gens -> [Backends -> Int]]
          /\ incGen' \in [Reqs -> Gens \cup {None}]
          /\ \A q \in Reqs \ {r} : incGen'[q] = incGen[q]
      BY <2>11, <3>1, IncrTypes
    <3>3. /\ pc[r] = "selected" /\ pc' = [pc EXCEPT ![r] = "incremented"]
          /\ UNCHANGED <<pointers, snapshot, semOf, dispatched, completed, dspGen,
                         decGen, slots, active, buffered>>
      BY <2>11 DEF Incr
    <3>4. Types' BY <3>2, <3>3
    <3>5. ASSUME NEW q \in Reqs PROVE Structure!(q)'
      <4>1. CASE q = r
        <5>1. pc'[q] = "incremented" BY <3>3, <4>1
        <5>2. /\ decGen'[q] = None /\ dspGen'[q] = None
              /\ tgt'[q] \in Backends /\ cfgOf'[q] \in Gens
          BY <3>1, <3>3, <4>1
        <5> QED BY <5>1, <5>2
      <4>2. CASE q # r BY <3>2, <3>3, <4>2
      <4> QED BY <4>1, <4>2
    <3> QED BY <3>4, <3>5
  <2>26. CASE Dispatch(r)
    <3>1. tgt[r] \in Backends BY <2>26 DEF Dispatch
    <3>2. /\ dispatched' \in [Gens -> [Backends -> Nat]]
          /\ dspGen' \in [Reqs -> Gens \cup {None}]
          /\ \A q \in Reqs \ {r} : dspGen'[q] = dspGen[q]
      BY <2>26, <3>1, DispatchTypes
    <3>3. /\ pc[r] = "incremented"
          /\ pc' = [pc EXCEPT ![r] = "prepared"] \/ pc' = [pc EXCEPT ![r] = "noBackend"]
          /\ UNCHANGED <<pointers, snapshot, semOf, inflight, completed, incGen,
                         decGen, slots, active, buffered>>
      BY <2>26 DEF Dispatch
    <3>4. Types' BY <3>2, <3>3
    <3>5. ASSUME NEW q \in Reqs PROVE Structure!(q)'
      <4>1. CASE q = r
        <5>1. pc'[q] \in {"prepared", "noBackend"} BY <3>3, <4>1
        <5>2. decGen'[q] = None /\ tgt'[q] \in Backends /\ cfgOf'[q] \in Gens
          BY <3>1, <3>3, <4>1
        <5> QED BY <5>1, <5>2
      <4>2. CASE q # r BY <3>2, <3>3, <4>2
      <4> QED BY <4>1, <4>2
    <3> QED BY <3>4, <3>5
  <2>12. CASE NoBackend(r) BY <2>12 DEF NoBackend
  <2>13. CASE RejectEmpty(r) BY <2>13 DEF RejectEmpty
  <2>14. CASE EncodeError(r) BY <2>14 DEF EncodeError
  <2>15. CASE Encode(r) BY <2>15 DEF Encode
  <2>16. CASE InvalidURL(r) BY <2>16 DEF InvalidURL
  <2>17. CASE Enqueue(r) BY <2>17 DEF Enqueue
  <2>27. CASE Admit(r) BY <2>27 DEF Admit
  <2>28. CASE Record(r) BY <2>28 DEF Record
  <2>18. CASE AcquireSlot(r)
    <3>1. tgt[r] \in Backends /\ semOf[r] \in Gens BY <2>18 DEF AcquireSlot
    <3>2. slots' \in [Gens -> [Backends -> Int]] BY <2>18, <3>1, SlotTypes
    <3>3. /\ Goto(r, "waiting", "upstream")
          /\ UNCHANGED <<pointers, snapshot, semOf, flows, active, buffered>>
      BY <2>18 DEF AcquireSlot
    <3> QED BY <3>2, <3>3
  <2>19. CASE CancelWait(r) BY <2>19 DEF CancelWait
  <2>b. ASSUME NEW s \in {"upstream", "streaming"}, Settle(r, s)
        PROVE  Types' /\ Structure'
    <3>1. tgt[r] \in Backends /\ pc[r] \in {"upstream", "streaming"}
      BY <2>b DEF Settle
    <3>2. /\ pc' = [pc EXCEPT ![r] = "returning"] \/ pc' = [pc EXCEPT ![r] = "completing"]
          /\ buffered' = buffered - 1
          /\ active' = [active EXCEPT ![tgt[r]] = @ - 1]
          /\ UNCHANGED <<pointers, snapshot, semOf, flows, slots>>
      BY <2>b DEF Settle
    <3>3. active' \in [Backends -> Int] /\ buffered' \in Int BY <3>1, <3>2
    <3>4. Types' BY <3>2, <3>3
    <3>5. ASSUME NEW q \in Reqs PROVE Structure!(q)'
      <4>1. CASE q = r
        <5>1. pc'[q] \in {"returning", "completing"} BY <3>2, <4>1
        <5>2. /\ tgt'[q] \in Backends /\ semOf'[q] \in Gens /\ cfgOf'[q] \in Gens
              /\ decGen'[q] = None
          BY <3>1, <3>2, <4>1
        <5> QED BY <5>1, <5>2
      <4>2. CASE q # r BY <3>2, <4>2
      <4> QED BY <4>1, <4>2
    <3> QED BY <3>4, <3>5
  <2>20. CASE ErrorHandler(r) BY <2>20, <2>b DEF ErrorHandler
  <2>21. CASE BufferResponse(r) BY <2>21, <2>b DEF BufferResponse
  <2>22. CASE StartStream(r) BY <2>22 DEF StartStream
  <2>23. CASE CloseStream(r) BY <2>23, <2>b DEF CloseStream
  <2>29. CASE CompleteAndDecr(r)
    <3>1. tgt[r] \in Backends /\ pc[r] = "completing" BY <2>29 DEF CompleteAndDecr
    <3>2. /\ inflight' \in [Gens -> [Backends -> Int]]
          /\ completed' \in [Gens -> [Backends -> Nat]]
          /\ decGen' \in [Reqs -> Gens \cup {None}]
          /\ \A q \in Reqs \ {r} : decGen'[q] = decGen[q]
      BY <2>29, <3>1, CompleteTypes
    <3>3. /\ pc' = [pc EXCEPT ![r] = "returning"] \/ pc' = [pc EXCEPT ![r] = "invalidating"]
          /\ UNCHANGED <<pointers, snapshot, semOf, dispatched, incGen, dspGen,
                         slots, active, buffered>>
      BY <2>29 DEF CompleteAndDecr
    <3>4. Types' BY <3>2, <3>3
    <3>5. ASSUME NEW q \in Reqs PROVE Structure!(q)'
      <4>1. CASE q = r
        <5>1. pc'[q] \in {"returning", "invalidating"} BY <3>3, <4>1
        <5>2. tgt'[q] \in Backends /\ semOf'[q] \in Gens /\ cfgOf'[q] \in Gens
          BY <3>1, <3>3, <4>1
        <5> QED BY <5>1, <5>2
      <4>2. CASE q # r BY <3>2, <3>3, <4>2
      <4> QED BY <4>1, <4>2
    <3> QED BY <3>4, <3>5
  <2>30. CASE InvalidatePin(r) BY <2>30 DEF InvalidatePin
  <2>31. CASE NilAtEnd(r) BY <2>31 DEF NilAtEnd
  <2>24. CASE Release(r)
    <3>1. tgt[r] \in Backends /\ semOf[r] \in Gens BY <2>24 DEF Release, Leave
    <3>2. slots' \in [Gens -> [Backends -> Int]] BY <2>24, <3>1, SlotTypes
    <3>3. /\ Goto(r, "returning", "done") \/ Goto(r, "aborting", "settlePanicked")
          /\ UNCHANGED <<pointers, snapshot, semOf, flows, active, buffered>>
      BY <2>24 DEF Release, Leave
    <3>4. CASE Goto(r, "returning", "done") BY <3>2, <3>3, <3>4
    <3>5. CASE Goto(r, "aborting", "settlePanicked") BY <3>2, <3>3, <3>5
    <3> QED BY <3>3, <3>4, <3>5
  <2> QED
    BY <2>1, <2>2, <2>3, <2>4, <2>5, <2>6, <2>7, <2>8, <2>9, <2>10, <2>11,
       <2>12, <2>13, <2>14, <2>15, <2>16, <2>17, <2>18, <2>19, <2>20, <2>21,
       <2>22, <2>23, <2>24, <2>25, <2>26, <2>27, <2>28, <2>29, <2>30, <2>31
    DEF Serve, Choose, Forward, Respond
<1> QED BY <1>1, <1>2, <1>3 DEF Next
-----------------------------------------------------------------------------
(* InFlightLaw.                                                            *)

(* Only four kinds of step concern the counters of a balancer: binding a   *)
(* request that no balancer has counted, Incr, Dispatch, CompleteAndDecr.  *)
LEMMA StepShape ==
    ASSUME Types, Structure, [Next]_vars
    PROVE  \/ UNCHANGED <<tgt, flows>>
           \/ \E r \in Reqs : /\ incGen[r] = None /\ dspGen[r] = None /\ decGen[r] = None
                              /\ \E b \in Backends : tgt' = [tgt EXCEPT ![r] = b]
                              /\ UNCHANGED flows
           \/ \E r \in Reqs : Incr(r) \/ Dispatch(r) \/ CompleteAndDecr(r)
<1> USE DEF snapshot, Goto
<1>1. CASE UNCHANGED vars BY <1>1 DEF vars
<1>2. CASE Reload
  BY <1>2 DEF Reload, ReloadRouter, ReloadConfig, ReloadSemaphores,
     ReloadBalancer
<1>3. ASSUME NEW r \in Reqs, Choose(r)
      PROVE  \/ UNCHANGED <<tgt, flows>>
             \/ /\ incGen[r] = None /\ dspGen[r] = None /\ decGen[r] = None
                /\ \E b \in Backends : tgt' = [tgt EXCEPT ![r] = b]
                /\ UNCHANGED flows
             \/ Incr(r) \/ Dispatch(r)
  <2>1. pc[r] \in {"loaded", "grouped", "selecting"} =>
            incGen[r] = None /\ dspGen[r] = None /\ decGen[r] = None
    BY DEF Structure, Uncounted, Settled
  <2>2. CASE RejectBody(r) \/ LoadConfig(r) \/ Reject(r) \/ RouteGroup(r)
             \/ ReadGroupConfig(r) \/ NilBalancer(r) \/ SelectFails(r)
    BY <2>2 DEF RejectBody, LoadConfig, Reject, RouteGroup, ReadGroupConfig,
       NilBalancer, SelectFails
  <2>3. CASE RouteDirect(r)
    BY <2>1, <2>3, ConstantFacts DEF RouteDirect, Bind, Types
  <2>4. CASE RoutePassthrough(r)
    <3>1. cfgOf[r] \in Gens BY <2>4 DEF RoutePassthrough, Structure
    <3>2. Default[cfgOf[r]] \in Backends
      BY <2>4, <3>1, ConstantFacts DEF RoutePassthrough
    <3> QED BY <2>1, <2>4, <3>2 DEF RoutePassthrough, Bind
  <2>5. CASE SkipBalancer(r)
    <3>1. rtrOf[r] \in Gens /\ grp[r] \in Groups
      BY <2>5 DEF SkipBalancer, Structure
    <3>2. Members[rtrOf[r]][grp[r]] \subseteq Backends BY <3>1, ConstantFacts
    <3> QED BY <2>1, <2>5, <3>2 DEF SkipBalancer
  <2>6. CASE Select(r)
    <3>1. grp[r] \in Groups /\ bal \in Gens BY <2>6 DEF Select, Structure, Types
    <3>2. Pool(bal, grp[r]) \subseteq Backends BY <3>1, ConstantFacts
    <3> QED BY <2>1, <2>6, <3>2 DEF Select
  <2> QED BY <1>3, <2>2, <2>3, <2>4, <2>5, <2>6 DEF Choose
<1>4. ASSUME NEW r \in Reqs, Forward(r) \/ CancelWait(r)
      PROVE  UNCHANGED <<tgt, flows>>
  BY <1>4 DEF Forward, NoBackend, RejectEmpty, EncodeError, Encode, InvalidURL,
     Admit, Record, Enqueue, AcquireSlot, CancelWait
<1>5. ASSUME NEW r \in Reqs, Respond(r)
      PROVE  UNCHANGED <<tgt, flows>> \/ CompleteAndDecr(r)
  BY <1>5 DEF Respond, ErrorHandler, BufferResponse, StartStream, CloseStream,
     Settle, InvalidatePin, NilAtEnd, Release
<1> QED BY <1>1, <1>2, <1>3, <1>4, <1>5 DEF Next, Serve

(* The requests each counter of balancer g has seen. *)
Raised(g, b)  == {r \in Reqs : tgt[r] = b /\ incGen[r] = g}
Sent(g, b)    == {r \in Reqs : tgt[r] = b /\ dspGen[r] = g}
Lowered(g, b) == {r \in Reqs : tgt[r] = b /\ decGen[r] = g}

(* The inductive form of InFlightLaw: every counter by itself. *)
Exact ==
    \A g \in Gens, b \in Backends :
        /\ inflight[g][b] = Cardinality(Raised(g, b)) - Cardinality(Lowered(g, b))
        /\ dispatched[g][b] = Cardinality(Sent(g, b))
        /\ completed[g][b] = Cardinality(Lowered(g, b))

(* The sets that Exact counts are finite. *)
LEMMA SetsFinite ==
    \A g \in Gens, b \in Backends :
        /\ IsFiniteSet(Raised(g, b)) /\ Cardinality(Raised(g, b)) \in Nat
        /\ IsFiniteSet(Sent(g, b)) /\ Cardinality(Sent(g, b)) \in Nat
        /\ IsFiniteSet(Lowered(g, b)) /\ Cardinality(Lowered(g, b)) \in Nat
<1> TAKE g \in Gens, b \in Backends
<1>1. /\ Raised(g, b) \in SUBSET Reqs /\ Sent(g, b) \in SUBSET Reqs
      /\ Lowered(g, b) \in SUBSET Reqs
  BY DEF Raised, Sent, Lowered
<1> QED BY <1>1, FS_Subset, FS_CardinalityType, ConstantsAssumption

(* The inductive step: Exact is preserved by every step. *)
LEMMA NextExact ==
    ASSUME Types, Structure, Exact, [Next]_vars
    PROVE  Exact'
<1> SUFFICES ASSUME NEW g \in Gens, NEW b \in Backends
             PROVE  /\ inflight'[g][b] = Cardinality(Raised(g, b)') - Cardinality(Lowered(g, b)')
                    /\ dispatched'[g][b] = Cardinality(Sent(g, b)')
                    /\ completed'[g][b] = Cardinality(Lowered(g, b)')
    BY DEF Exact
<1> DEFINE I == Raised(g, b)
           S == Sent(g, b)
           D == Lowered(g, b)
           Goal == /\ inflight'[g][b] = Cardinality(I') - Cardinality(D')
                   /\ dispatched'[g][b] = Cardinality(S')
                   /\ completed'[g][b] = Cardinality(D')
<1>0. /\ inflight[g][b] = Cardinality(I) - Cardinality(D)
      /\ dispatched[g][b] = Cardinality(S) /\ completed[g][b] = Cardinality(D)
      /\ IsFiniteSet(I) /\ IsFiniteSet(S) /\ IsFiniteSet(D)
      /\ Cardinality(I) \in Nat /\ Cardinality(S) \in Nat /\ Cardinality(D) \in Nat
      /\ g # None
  BY SetsFinite, ConstantFacts DEF Exact
<1>1. ASSUME UNCHANGED <<tgt, flows>> PROVE Goal
  <2>1. I' = I /\ S' = S /\ D' = D
    BY <1>1 DEF Raised, Sent, Lowered, flows
  <2> QED BY <1>0, <1>1, <2>1 DEF flows
<1>2. ASSUME NEW r \in Reqs, incGen[r] = None, dspGen[r] = None, decGen[r] = None,
             NEW c \in Backends, tgt' = [tgt EXCEPT ![r] = c], UNCHANGED flows
      PROVE  Goal
  <2>1. I' = I /\ S' = S /\ D' = D
    BY <1>0, <1>2 DEF Raised, Sent, Lowered, flows, Types
  <2> QED BY <1>0, <1>2, <2>1 DEF flows
<1>3. ASSUME NEW r \in Reqs, Incr(r) PROVE Goal
  <2>1. tgt[r] \in Backends /\ bal \in Gens /\ incGen[r] = None
    BY <1>3 DEF Incr, Goto, Types, Structure, Uncounted, Bound
  <2>2. UNCHANGED <<tgt, dispatched, completed, dspGen, decGen>>
    BY <1>3 DEF Incr, snapshot
  <2>3. CASE tgt[r] \in Balanced(bal)
    <3>1. /\ inflight' = [inflight EXCEPT ![bal][tgt[r]] = @ + 1]
          /\ incGen' = [incGen EXCEPT ![r] = bal]
      BY <1>3, <2>3 DEF Incr
    <3>2. S' = S /\ D' = D BY <2>2 DEF Sent, Lowered
    <3>3. CASE g = bal /\ b = tgt[r]
      <4>1. I' = I \cup {r} /\ r \notin I
        BY <1>0, <2>1, <2>2, <3>1, <3>3 DEF Raised, Types
      <4>2. Cardinality(I') = Cardinality(I) + 1
        BY <1>0, <4>1, FS_AddElement
      <4>3. inflight'[g][b] = inflight[g][b] + 1
        BY <3>1, <3>3 DEF Types
      <4> QED BY <1>0, <2>2, <3>2, <4>2, <4>3
    <3>4. CASE ~(g = bal /\ b = tgt[r])
      <4>1. I' = I
        BY <1>0, <2>1, <2>2, <3>1, <3>4 DEF Raised, Types
      <4>2. inflight'[g][b] = inflight[g][b]
        BY <2>1, <3>1, <3>4 DEF Types
      <4> QED BY <1>0, <2>2, <3>2, <4>1, <4>2
    <3> QED BY <3>3, <3>4
  <2>4. CASE tgt[r] \notin Balanced(bal)
    <3>1. UNCHANGED <<tgt, flows>> BY <1>3, <2>2, <2>4 DEF Incr, flows
    <3> QED BY <1>1, <3>1
  <2> QED BY <2>3, <2>4
<1>4. ASSUME NEW r \in Reqs, Dispatch(r) PROVE Goal
  <2>1. tgt[r] \in Backends /\ bal \in Gens /\ dspGen[r] = None
    BY <1>4 DEF Dispatch, Goto, Types, Structure, Uncounted, Bound
  <2>2. UNCHANGED <<tgt, inflight, completed, incGen, decGen>>
    BY <1>4 DEF Dispatch, snapshot
  <2>3. CASE tgt[r] \in Balanced(bal)
    <3>1. /\ dispatched' = [dispatched EXCEPT ![bal][tgt[r]] = @ + 1]
          /\ dspGen' = [dspGen EXCEPT ![r] = bal]
      BY <1>4, <2>3 DEF Dispatch
    <3>2. I' = I /\ D' = D BY <2>2 DEF Raised, Lowered
    <3>3. CASE g = bal /\ b = tgt[r]
      <4>1. S' = S \cup {r} /\ r \notin S
        BY <1>0, <2>1, <2>2, <3>1, <3>3 DEF Sent, Types
      <4>2. Cardinality(S') = Cardinality(S) + 1
        BY <1>0, <4>1, FS_AddElement
      <4>3. dispatched'[g][b] = dispatched[g][b] + 1
        BY <3>1, <3>3 DEF Types
      <4> QED BY <1>0, <2>2, <3>2, <4>2, <4>3
    <3>4. CASE ~(g = bal /\ b = tgt[r])
      <4>1. S' = S
        BY <1>0, <2>1, <2>2, <3>1, <3>4 DEF Sent, Types
      <4>2. dispatched'[g][b] = dispatched[g][b]
        BY <2>1, <3>1, <3>4 DEF Types
      <4> QED BY <1>0, <2>2, <3>2, <4>1, <4>2
    <3> QED BY <3>3, <3>4
  <2>4. CASE tgt[r] \notin Balanced(bal)
    <3>1. UNCHANGED <<tgt, flows>> BY <1>4, <2>2, <2>4 DEF Dispatch, flows
    <3> QED BY <1>1, <3>1
  <2> QED BY <2>3, <2>4
<1>5. ASSUME NEW r \in Reqs, CompleteAndDecr(r) PROVE Goal
  <2>1. tgt[r] \in Backends /\ bal \in Gens /\ decGen[r] = None
    BY <1>5 DEF CompleteAndDecr, Goto, Types, Structure, Settled, Bound
  <2>2. UNCHANGED <<tgt, dispatched, incGen, dspGen>>
    BY <1>5 DEF CompleteAndDecr, snapshot
  <2>3. CASE tgt[r] \in Balanced(bal)
    <3>1. /\ inflight' = [inflight EXCEPT ![bal][tgt[r]] = @ - 1]
          /\ completed' = [completed EXCEPT ![bal][tgt[r]] = @ + 1]
          /\ decGen' = [decGen EXCEPT ![r] = bal]
      BY <1>5, <2>3 DEF CompleteAndDecr
    <3>2. I' = I /\ S' = S BY <2>2 DEF Raised, Sent
    <3>3. CASE g = bal /\ b = tgt[r]
      <4>1. D' = D \cup {r} /\ r \notin D
        BY <1>0, <2>1, <2>2, <3>1, <3>3 DEF Lowered, Types
      <4>2. Cardinality(D') = Cardinality(D) + 1
        BY <1>0, <4>1, FS_AddElement
      <4>3. /\ inflight'[g][b] = inflight[g][b] - 1
            /\ completed'[g][b] = completed[g][b] + 1
        BY <3>1, <3>3 DEF Types
      <4> QED BY <1>0, <2>2, <3>2, <4>2, <4>3
    <3>4. CASE ~(g = bal /\ b = tgt[r])
      <4>1. D' = D
        BY <1>0, <2>1, <2>2, <3>1, <3>4 DEF Lowered, Types
      <4>2. inflight'[g][b] = inflight[g][b] /\ completed'[g][b] = completed[g][b]
        BY <2>1, <3>1, <3>4 DEF Types
      <4> QED BY <1>0, <2>2, <3>2, <4>1, <4>2
    <3> QED BY <3>3, <3>4
  <2>4. CASE tgt[r] \notin Balanced(bal)
    <3>1. UNCHANGED <<tgt, flows>> BY <1>5, <2>2, <2>4 DEF CompleteAndDecr, flows
    <3> QED BY <1>1, <3>1
  <2> QED BY <2>3, <2>4
<1> QED BY <1>1, <1>2, <1>3, <1>4, <1>5, StepShape

(* Two finite sets differ in size by what each has of its own. *)
LEMMA SizeDifference ==
    ASSUME NEW S, NEW T, IsFiniteSet(S), IsFiniteSet(T)
    PROVE  /\ Cardinality(S \ T) \in Nat /\ Cardinality(T \ S) \in Nat
           /\ Cardinality(S) - Cardinality(T) = Cardinality(S \ T) - Cardinality(T \ S)
<1>1. /\ IsFiniteSet(S \ T) /\ IsFiniteSet(T \ S) /\ IsFiniteSet(S \cap T)
      /\ Cardinality(S \ T) = Cardinality(S) - Cardinality(S \cap T)
      /\ Cardinality(T \ S) = Cardinality(T) - Cardinality(T \cap S)
  BY FS_Difference, FS_Intersection
<1>2. T \cap S = S \cap T OBVIOUS
<1>3. /\ Cardinality(S) \in Nat /\ Cardinality(T) \in Nat
      /\ Cardinality(S \ T) \in Nat /\ Cardinality(T \ S) \in Nat
      /\ Cardinality(S \cap T) \in Nat
  BY <1>1, FS_CardinalityType
<1>4. Cardinality(T \ S) = Cardinality(T) - Cardinality(S \cap T) BY <1>1, <1>2
<1> QED BY <1>1, <1>3, <1>4, SMT

(* InFlightLaw is Exact without what two counters have in common. *)
LEMMA ExactLaw == Exact => InFlightLaw
<1> SUFFICES ASSUME Exact, NEW g \in Gens, NEW b \in Backends
             PROVE  InFlightLaw!(g, b)
    BY DEF InFlightLaw
<1> DEFINE I == Raised(g, b)
           S == Sent(g, b)
           D == Lowered(g, b)
<1>1. IsFiniteSet(I) /\ IsFiniteSet(S) /\ IsFiniteSet(D)
      /\ Cardinality(I) \in Nat /\ Cardinality(S) \in Nat /\ Cardinality(D) \in Nat
  BY SetsFinite
<1>2. /\ Outstanding(g, b) = I \ D /\ Unmatched(g, b) = D \ I
      /\ DispatchedOnly(g, b) = S \ I /\ IncrementedOnly(g, b) = I \ S
  BY DEF Outstanding, Unmatched, DispatchedOnly, IncrementedOnly, Raised, Sent, Lowered
<1>3. /\ Cardinality(I) - Cardinality(D) = Cardinality(I \ D) - Cardinality(D \ I)
      /\ Cardinality(S) - Cardinality(I) = Cardinality(S \ I) - Cardinality(I \ S)
      /\ Cardinality(S \ I) \in Nat /\ Cardinality(I \ S) \in Nat
      /\ Cardinality(I \ D) \in Nat /\ Cardinality(D \ I) \in Nat
  BY <1>1, SizeDifference
<1>4. /\ inflight[g][b] = Cardinality(I) - Cardinality(D)
      /\ dispatched[g][b] = Cardinality(S) /\ completed[g][b] = Cardinality(D)
  BY DEF Exact
<1>5. inflight[g][b] = Cardinality(Outstanding(g, b)) - Cardinality(Unmatched(g, b))
  BY <1>2, <1>3, <1>4
<1>6. dispatched[g][b] - completed[g][b] =
        inflight[g][b] + Cardinality(S \ I) - Cardinality(I \ S)
  BY <1>1, <1>3, <1>4
<1> QED BY <1>2, <1>5, <1>6
-----------------------------------------------------------------------------
(* SemaphoreLaw, ActiveLaw, BufferedLaw.                                   *)

Holders  == {"upstream", "streaming", "completing", "invalidating", "returning",
             "aborting"}
Gauged   == {"recording", "admitted", "waiting", "upstream", "streaming",
             "recordPanicked"}
Buffering == {"buffered", "recording", "admitted", "waiting", "upstream",
              "streaming", "urlFailed", "slotCanceled", "recordPanicked"}

(* A step concerns one request only. *)
LEMMA OnlyOne ==
    ASSUME Types, NEW r \in Reqs, Serve(r) \/ CancelWait(r)
    PROVE  \A q \in Reqs \ {r} :
              pc'[q] = pc[q] /\ tgt'[q] = tgt[q] /\ semOf'[q] = semOf[q]
<1> USE DEF Goto, snapshot, Types
<1>1. CASE Choose(r)
  BY <1>1 DEF Choose, RejectBody, LoadConfig, Reject, RouteDirect,
     RoutePassthrough, Bind, RouteGroup, SkipBalancer, ReadGroupConfig,
     Select, SelectFails, NilBalancer, Incr, Dispatch
<1>2. CASE Forward(r)
  BY <1>2 DEF Forward, NoBackend, RejectEmpty, EncodeError, Encode, InvalidURL,
     Admit, Record, Enqueue, AcquireSlot
<1>3. CASE Respond(r)
  BY <1>3 DEF Respond, ErrorHandler, BufferResponse, StartStream, CloseStream,
     CompleteAndDecr, InvalidatePin, NilAtEnd, Release, Leave, Settle
<1>4. CASE CancelWait(r) BY <1>4 DEF CancelWait
<1> QED BY <1>1, <1>2, <1>3, <1>4 DEF Serve

(* What a step does to the request itself and to the three counters: the   *)
(* steps before the body is buffered, then one line per later action.      *)
LEMMA OwnStep ==
    ASSUME Types, Structure, NEW r \in Reqs, Serve(r) \/ CancelWait(r)
    PROVE  \/ /\ pc[r] \notin Holders \cup Gauged \cup Buffering
              /\ pc'[r] \notin Holders \cup Gauged \cup Buffering
              /\ UNCHANGED <<slots, active, buffered>>
           \/ /\ pc[r] = "prepared" /\ pc'[r] = "buffered"
              /\ buffered' = buffered + 1
              /\ UNCHANGED <<tgt, semOf, slots, active>>
           \/ /\ pc[r] = "buffered" /\ pc'[r] = "urlFailed"
              /\ UNCHANGED <<tgt, semOf, slots, active, buffered>>
           \/ /\ pc[r] = "buffered" /\ pc'[r] \in {"recording", "admitted"}
              /\ active' = [active EXCEPT ![tgt[r]] = @ + 1]
              /\ UNCHANGED <<tgt, slots, buffered>>
           \/ /\ pc[r] = "recording" /\ pc'[r] \in {"admitted", "recordPanicked"}
              /\ UNCHANGED <<tgt, slots, active, buffered>>
           \/ /\ pc[r] = "admitted" /\ pc'[r] = "waiting"
              /\ UNCHANGED <<tgt, slots, active, buffered>>
           \/ /\ pc[r] = "waiting" /\ pc'[r] = "slotCanceled"
              /\ active' = [active EXCEPT ![tgt[r]] = @ - 1]
              /\ UNCHANGED <<tgt, semOf, slots, buffered>>
           \/ /\ AcquireSlot(r) /\ pc[r] = "waiting" /\ pc'[r] = "upstream"
              /\ UNCHANGED <<tgt, semOf, active, buffered>>
           \/ /\ pc[r] = "upstream" /\ pc'[r] = "streaming"
              /\ UNCHANGED <<tgt, semOf, slots, active, buffered>>
           \/ /\ pc[r] \in {"upstream", "streaming"}
              /\ pc'[r] \in {"completing", "returning"}
              /\ buffered' = buffered - 1
              /\ active' = [active EXCEPT ![tgt[r]] = @ - 1]
              /\ UNCHANGED <<tgt, semOf, slots>>
           \/ /\ pc[r] \in {"completing", "invalidating"}
              /\ pc'[r] \in {"invalidating", "returning", "aborting"}
              /\ UNCHANGED <<tgt, semOf, slots, active, buffered>>
           \/ /\ Release(r) /\ pc[r] \in {"returning", "aborting"}
              /\ pc'[r] \in {"done", "settlePanicked"}
              /\ UNCHANGED <<tgt, semOf, active, buffered>>
<1> USE DEF Goto, snapshot, Types, Holders, Gauged, Buffering
<1>1. CASE Choose(r)
  BY <1>1 DEF Choose, RejectBody, LoadConfig, Reject, RouteDirect,
     RoutePassthrough, Bind, RouteGroup, SkipBalancer, ReadGroupConfig,
     Select, SelectFails, NilBalancer, Incr, Dispatch
<1>2. CASE Forward(r)
  BY <1>2 DEF Forward, NoBackend, RejectEmpty, EncodeError, Encode, InvalidURL,
     Admit, Record, Enqueue, AcquireSlot
<1>3. CASE Respond(r)
  BY <1>3 DEF Respond, ErrorHandler, BufferResponse, StartStream, CloseStream,
     CompleteAndDecr, InvalidatePin, NilAtEnd, Release, Leave, Settle
<1>4. CASE CancelWait(r) BY <1>4 DEF CancelWait
<1> QED BY <1>1, <1>2, <1>3, <1>4 DEF Serve

(* Steps of Reload, and stuttering, touch none of the three. *)
LEMMA QuietStep ==
    ASSUME Reload \/ UNCHANGED vars
    PROVE  UNCHANGED <<pc, tgt, semOf, cfgOf, rtrOf, grp, slots, active, buffered>>
BY DEF Reload, ReloadRouter, ReloadConfig, ReloadSemaphores, ReloadBalancer,
   vars, snapshot

(* The inductive step of SemaphoreLaw. *)
LEMMA NextSemaphore ==
    ASSUME Types, Structure, SemaphoreLaw, [Next]_vars
    PROVE  SemaphoreLaw'
<1> SUFFICES ASSUME NEW g \in Gens, NEW b \in Backends
             PROVE  /\ slots'[g][b] = Cardinality(Holding(g, b)')
                    /\ MaxConc[b] > 0 => slots'[g][b] <= MaxConc[b]
    BY DEF SemaphoreLaw
<1> DEFINE H == Holding(g, b)
<1>0. /\ slots[g][b] = Cardinality(H)
      /\ MaxConc[b] > 0 => slots[g][b] <= MaxConc[b]
      /\ IsFiniteSet(H) /\ Cardinality(H) \in Nat
      /\ MaxConc[b] \in Nat
  <2>1. H \in SUBSET Reqs BY DEF Holding
  <2> QED BY <2>1, FS_Subset, FS_CardinalityType, ConstantsAssumption
          DEF SemaphoreLaw
<1>1. ASSUME H' = H, slots'[g][b] = slots[g][b]
      PROVE  /\ slots'[g][b] = Cardinality(H')
             /\ MaxConc[b] > 0 => slots'[g][b] <= MaxConc[b]
  BY <1>0, <1>1
<1>2. CASE Reload \/ UNCHANGED vars
  <2>1. H' = H BY <1>2, QuietStep DEF Holding
  <2> QED BY <1>1, <1>2, <2>1, QuietStep
<1>3. ASSUME NEW r \in Reqs, Serve(r) \/ CancelWait(r)
      PROVE  /\ slots'[g][b] = Cardinality(H')
             /\ MaxConc[b] > 0 => slots'[g][b] <= MaxConc[b]
  <2>1. \A q \in Reqs \ {r} : q \in H' <=> q \in H
    BY <1>3, OnlyOne DEF Holding
  <2>2. ASSUME r \in H' <=> r \in H PROVE H' = H
    BY <2>1, <2>2 DEF Holding
  <2>3. CASE AcquireSlot(r)
    <3>1. /\ pc[r] = "waiting" /\ pc'[r] = "upstream"
          /\ UNCHANGED <<tgt, semOf>>
          /\ tgt[r] \in Backends /\ semOf[r] \in Gens
      BY <2>3 DEF AcquireSlot, Goto, snapshot, Types, Structure, Bound, Queued
    <3>2. CASE Limited(semOf[r], tgt[r]) /\ g = semOf[r] /\ b = tgt[r]
      <4>1. /\ slots' = [slots EXCEPT ![g][b] = @ + 1]
            /\ slots[g][b] < MaxConc[b]
        BY <2>3, <3>2 DEF AcquireSlot
      <4>2. slots'[g][b] = slots[g][b] + 1 BY <4>1 DEF Types
      <4>3. r \notin H /\ H' = H \cup {r}
        BY <2>1, <3>1, <3>2 DEF Holding
      <4>4. Cardinality(H') = Cardinality(H) + 1
        BY <1>0, <4>3, FS_AddElement
      <4> QED BY <1>0, <4>1, <4>2, <4>4
    <3>3. CASE ~(Limited(semOf[r], tgt[r]) /\ g = semOf[r] /\ b = tgt[r])
      <4>1. slots'[g][b] = slots[g][b]
        <5>1. \/ slots' = slots
              \/ /\ slots' = [slots EXCEPT ![semOf[r]][tgt[r]] = @ + 1]
                 /\ ~(g = semOf[r] /\ b = tgt[r])
          BY <2>3, <3>3 DEF AcquireSlot
        <5>2. slots \in [Gens -> [Backends -> Int]] BY DEF Types
        <5> QED BY <3>1, <5>1, <5>2
      <4>2. H' = H
        BY <2>2, <3>1, <3>3 DEF Holding
      <4> QED BY <1>1, <4>1, <4>2
    <3> QED BY <3>2, <3>3
  <2>4. CASE Release(r)
    <3>1. /\ pc[r] \in {"returning", "aborting"}
          /\ pc'[r] \in {"done", "settlePanicked"}
          /\ UNCHANGED <<tgt, semOf>>
          /\ tgt[r] \in Backends /\ semOf[r] \in Gens
      BY <2>4 DEF Release, Leave, Goto, snapshot, Types, Structure, Bound, Queued
    <3>2. CASE Limited(semOf[r], tgt[r]) /\ g = semOf[r] /\ b = tgt[r]
      <4>1. slots' = [slots EXCEPT ![g][b] = @ - 1]
        BY <2>4, <3>2 DEF Release
      <4>2. slots'[g][b] = slots[g][b] - 1 BY <4>1 DEF Types
      <4>3. r \in H /\ H' = H \ {r}
        BY <2>1, <3>1, <3>2 DEF Holding
      <4>4. Cardinality(H') = Cardinality(H) - 1
        BY <1>0, <4>3, FS_RemoveElement
      <4> QED BY <1>0, <4>2, <4>4
    <3>3. CASE ~(Limited(semOf[r], tgt[r]) /\ g = semOf[r] /\ b = tgt[r])
      <4>1. slots'[g][b] = slots[g][b]
        <5>1. \/ slots' = slots
              \/ /\ slots' = [slots EXCEPT ![semOf[r]][tgt[r]] = @ - 1]
                 /\ ~(g = semOf[r] /\ b = tgt[r])
          BY <2>4, <3>3 DEF Release
        <5>2. slots \in [Gens -> [Backends -> Int]] BY DEF Types
        <5> QED BY <3>1, <5>1, <5>2
      <4>2. H' = H
        BY <2>2, <3>1, <3>3 DEF Holding
      <4> QED BY <1>1, <4>1, <4>2
    <3> QED BY <3>2, <3>3
  <2>5. CASE ~AcquireSlot(r) /\ ~Release(r)
    <3>1. /\ slots' = slots
          /\ \/ pc[r] \notin Holders /\ pc'[r] \notin Holders
             \/ pc[r] \in Holders /\ pc'[r] \in Holders /\ UNCHANGED <<tgt, semOf>>
      BY <1>3, <2>5, OwnStep DEF Holders, Gauged, Buffering
    <3>2. H' = H BY <2>2, <3>1 DEF Holding, Holders
    <3> QED BY <1>1, <3>1, <3>2
  <2> QED BY <2>3, <2>4, <2>5
<1> QED BY <1>2, <1>3 DEF Next

(* The inductive step of ActiveLaw. *)
LEMMA NextActive ==
    ASSUME Types, Structure, ActiveLaw, [Next]_vars
    PROVE  ActiveLaw'
<1> DEFINE A(b) == {q \in Reqs : tgt[q] = b /\ pc[q] \in Gauged}
<1> SUFFICES ASSUME NEW b \in Backends
             PROVE  active'[b] = Cardinality(A(b)')
    BY DEF ActiveLaw, Gauged
<1>0. /\ active[b] = Cardinality(A(b))
      /\ IsFiniteSet(A(b)) /\ Cardinality(A(b)) \in Nat
  <2>1. A(b) \in SUBSET Reqs OBVIOUS
  <2> QED BY <2>1, FS_Subset, FS_CardinalityType, ConstantsAssumption
          DEF ActiveLaw, Gauged
<1>2. CASE Reload \/ UNCHANGED vars
  <2>1. A(b)' = A(b) BY <1>2, QuietStep
  <2> QED BY <1>0, <1>2, <2>1, QuietStep
<1>3. ASSUME NEW r \in Reqs, Serve(r) \/ CancelWait(r)
      PROVE  active'[b] = Cardinality(A(b)')
  <2>1. \A q \in Reqs \ {r} : q \in A(b)' <=> q \in A(b)
    BY <1>3, OnlyOne
  <2>2. ASSUME r \in A(b)' <=> r \in A(b), active'[b] = active[b]
        PROVE  active'[b] = Cardinality(A(b)')
    <3>1. A(b)' = A(b) BY <2>1, <2>2
    <3> QED BY <1>0, <2>2, <3>1
  <2>3. CASE /\ pc[r] = "buffered" /\ pc'[r] \in {"recording", "admitted"} /\ tgt' = tgt
             /\ active' = [active EXCEPT ![tgt[r]] = @ + 1]
    <3>1. tgt[r] \in Backends BY <2>3 DEF Structure, Bound
    <3>2. CASE b = tgt[r]
      <4>1. r \notin A(b) /\ A(b)' = A(b) \cup {r} BY <2>1, <2>3, <3>2 DEF Gauged
      <4>2. Cardinality(A(b)') = Cardinality(A(b)) + 1
        BY <1>0, <4>1, FS_AddElement
      <4>3. active'[b] = active[b] + 1 BY <2>3, <3>2 DEF Types
      <4> QED BY <1>0, <4>2, <4>3
    <3>3. CASE b # tgt[r]
      BY <2>2, <2>3, <3>3 DEF Types
    <3> QED BY <3>2, <3>3
  <2>4. CASE /\ pc[r] \in {"waiting", "upstream", "streaming"}
             /\ pc'[r] \in {"slotCanceled", "completing", "returning"} /\ tgt' = tgt
             /\ active' = [active EXCEPT ![tgt[r]] = @ - 1]
    <3>1. tgt[r] \in Backends BY <2>4 DEF Structure, Bound
    <3>2. CASE b = tgt[r]
      <4>1. r \in A(b) /\ A(b)' = A(b) \ {r} BY <2>1, <2>4, <3>2 DEF Gauged
      <4>2. Cardinality(A(b)') = Cardinality(A(b)) - 1
        BY <1>0, <4>1, FS_RemoveElement
      <4>3. active'[b] = active[b] - 1 BY <2>4, <3>2 DEF Types
      <4> QED BY <1>0, <4>2, <4>3
    <3>3. CASE b # tgt[r]
      BY <2>2, <2>4, <3>3 DEF Types
    <3> QED BY <3>2, <3>3
  <2>5. CASE /\ active' = active
             /\ \/ pc[r] \notin Gauged /\ pc'[r] \notin Gauged
                \/ pc[r] \in Gauged /\ pc'[r] \in Gauged /\ tgt' = tgt
    BY <2>2, <2>5 DEF Gauged
  <2> QED BY <1>3, <2>3, <2>4, <2>5, OwnStep DEF Holders, Gauged, Buffering
<1> QED BY <1>2, <1>3 DEF Next

(* The inductive step of BufferedLaw. *)
LEMMA NextBuffered ==
    ASSUME Types, Structure, BufferedLaw, [Next]_vars
    PROVE  BufferedLaw'
<1> DEFINE B == {q \in Reqs : pc[q] \in Buffering}
<1> SUFFICES buffered' = Cardinality(B')
    BY DEF BufferedLaw, Buffering
<1>0. buffered = Cardinality(B) /\ IsFiniteSet(B) /\ Cardinality(B) \in Nat
  <2>1. B \in SUBSET Reqs OBVIOUS
  <2> QED BY <2>1, FS_Subset, FS_CardinalityType, ConstantsAssumption
          DEF BufferedLaw, Buffering
<1>2. CASE Reload \/ UNCHANGED vars
  <2>1. B' = B BY <1>2, QuietStep
  <2> QED BY <1>0, <1>2, <2>1, QuietStep
<1>3. ASSUME NEW r \in Reqs, Serve(r) \/ CancelWait(r)
      PROVE  buffered' = Cardinality(B')
  <2>1. \A q \in Reqs \ {r} : q \in B' <=> q \in B
    BY <1>3, OnlyOne
  <2>2. CASE pc[r] = "prepared" /\ pc'[r] = "buffered" /\ buffered' = buffered + 1
    <3>1. r \notin B /\ B' = B \cup {r} BY <2>1, <2>2 DEF Buffering
    <3> QED BY <1>0, <2>2, <3>1, FS_AddElement
  <2>3. CASE /\ pc[r] \in {"upstream", "streaming"}
             /\ pc'[r] \in {"completing", "returning"}
             /\ buffered' = buffered - 1
    <3>1. r \in B /\ B' = B \ {r} BY <2>1, <2>3 DEF Buffering
    <3>2. Cardinality(B') = Cardinality(B) - 1 BY <1>0, <3>1, FS_RemoveElement
    <3> QED BY <1>0, <2>3, <3>2
  <2>4. CASE /\ buffered' = buffered
             /\ \/ pc[r] \notin Buffering /\ pc'[r] \notin Buffering
                \/ pc[r] \in Buffering /\ pc'[r] \in Buffering
    <3>1. B' = B BY <2>1, <2>4 DEF Buffering
    <3> QED BY <1>0, <2>4, <3>1
  <2> QED BY <1>3, <2>2, <2>3, <2>4, OwnStep DEF Holders, Gauged, Buffering
<1> QED BY <1>2, <1>3 DEF Next
-----------------------------------------------------------------------------
(* SnapshotOrder.                                                          *)

(* The installed configuration is never ahead of the installed router, and *)
(* a handler's snapshot never ahead of either.                             *)
PointerOrder ==
    /\ cfgGen <= rtrGen
    /\ \A r \in Reqs : cfgOf[r] <= cfgGen

(* No step lets a configuration get ahead of the router. *)
LEMMA NextSnapshot ==
    ASSUME Types, Structure, PointerOrder, SnapshotOrder, [Next]_vars
    PROVE  PointerOrder' /\ SnapshotOrder'
<1> USE DEF Types, PointerOrder, SnapshotOrder
<1>0. /\ cfgGen \in Int /\ rtrGen \in Int
      /\ \A r \in Reqs : cfgOf[r] \in Int /\ rtrOf[r] \in Int
  BY ConstantFacts DEF None
<1>1. CASE UNCHANGED vars
  BY <1>1 DEF vars, pointers, snapshot
<1>2. CASE Reload
  BY <1>0, <1>2 DEF Reload, ReloadRouter, ReloadConfig, ReloadSemaphores,
     ReloadBalancer, snapshot
<1>3. ASSUME NEW r \in Reqs, Serve(r) \/ CancelWait(r)
      PROVE  PointerOrder' /\ SnapshotOrder'
  <2>1. /\ UNCHANGED <<rtrGen, cfgGen>>
        /\ \/ UNCHANGED <<cfgOf, rtrOf>>
           \/ cfgOf' = [cfgOf EXCEPT ![r] = cfgGen] /\ rtrOf' = rtrOf
                /\ rtrOf[r] = None
           \/ rtrOf' = [rtrOf EXCEPT ![r] = rtrGen] /\ cfgOf' = cfgOf
    <3> USE DEF Goto, snapshot, pointers
    <3>1. CASE Choose(r)
      BY <3>1 DEF Choose, RejectBody, LoadConfig, Reject, RouteDirect,
         RoutePassthrough, Bind, RouteGroup, SkipBalancer, ReadGroupConfig,
         Select, SelectFails, NilBalancer, Incr, Dispatch, Structure
    <3>2. CASE Forward(r)
      BY <3>2 DEF Forward, NoBackend, RejectEmpty, EncodeError, Encode,
         InvalidURL, Admit, Record, Enqueue, AcquireSlot
    <3>3. CASE Respond(r)
      BY <3>3 DEF Respond, ErrorHandler, BufferResponse, StartStream,
         CloseStream, CompleteAndDecr, InvalidatePin, NilAtEnd, Release, Leave, Settle
    <3>4. CASE CancelWait(r) BY <3>4 DEF CancelWait
    <3> QED BY <1>3, <3>1, <3>2, <3>3, <3>4 DEF Serve
  <2>2. CASE UNCHANGED <<cfgOf, rtrOf>> BY <2>1, <2>2
  <2>3. CASE cfgOf' = [cfgOf EXCEPT ![r] = cfgGen] /\ rtrOf' = rtrOf /\ rtrOf[r] = None
    BY <1>0, <2>1, <2>3 DEF None
  <2>4. CASE rtrOf' = [rtrOf EXCEPT ![r] = rtrGen] /\ cfgOf' = cfgOf
    BY <1>0, <2>1, <2>4
  <2> QED BY <2>1, <2>2, <2>3, <2>4
<1> QED BY <1>1, <1>2, <1>3 DEF Next
-----------------------------------------------------------------------------
(* The theorems.                                                           *)

IInv == /\ Types /\ Structure /\ Exact /\ SemaphoreLaw /\ ActiveLaw
        /\ BufferedLaw /\ PointerOrder /\ SnapshotOrder

(* The inductive invariant holds initially, *)
LEMMA InitIInv == Init => IInv
<1> SUFFICES ASSUME Init PROVE IInv
    OBVIOUS
<1>1. Types /\ Structure BY InitTypes
<1>2. \A g \in Gens, b \in Backends : inflight[g][b] = 0 /\ dispatched[g][b] = 0
            /\ completed[g][b] = 0 /\ slots[g][b] = 0 /\ active[b] = 0
  BY DEF Init, Zero
<1>3. Exact
  <2>1. \A g \in Gens, b \in Backends :
            Raised(g, b) = {} /\ Sent(g, b) = {} /\ Lowered(g, b) = {}
    BY ConstantFacts DEF Init, Raised, Sent, Lowered
  <2> SUFFICES ASSUME NEW g \in Gens, NEW b \in Backends PROVE Exact!(g, b)
      BY DEF Exact
  <2>2. /\ Cardinality(Raised(g, b)) = 0 /\ Cardinality(Sent(g, b)) = 0
        /\ Cardinality(Lowered(g, b)) = 0
    BY <2>1, FS_EmptySet
  <2> QED BY <1>2, <2>2
<1>4. SemaphoreLaw
  <2>1. \A g \in Gens, b \in Backends : Holding(g, b) = {}
    BY DEF Init, Holding
  <2> SUFFICES ASSUME NEW g \in Gens, NEW b \in Backends
               PROVE  SemaphoreLaw!(g, b)
      BY DEF SemaphoreLaw
  <2>2. Cardinality(Holding(g, b)) = 0 BY <2>1, FS_EmptySet
  <2>3. MaxConc[b] \in Nat BY ConstantsAssumption
  <2> QED BY <1>2, <2>2, <2>3
<1>5. ActiveLaw
  <2>1. \A b \in Backends :
            {r \in Reqs : tgt[r] = b /\ pc[r] \in Gauged} = {}
    BY DEF Init, Gauged
  <2> QED BY <1>2, <2>1, FS_EmptySet, ConstantFacts DEF ActiveLaw, Gauged
<1>6. BufferedLaw
  <2>1. {r \in Reqs : pc[r] \in Buffering} = {}
    BY DEF Init, Buffering
  <2> QED BY <2>1, FS_EmptySet DEF BufferedLaw, Buffering, Init
<1>7. PointerOrder /\ SnapshotOrder
  BY DEF Init, PointerOrder, SnapshotOrder, None
<1> QED BY <1>1, <1>3, <1>4, <1>5, <1>6, <1>7 DEF IInv

(* is preserved by every step, *)
LEMMA NextIInv == IInv /\ [Next]_vars => IInv'
BY NextTypes, NextExact, NextSemaphore, NextActive, NextBuffered, NextSnapshot
   DEF IInv

(* so it always holds, *)
LEMMA IInvAlways == Spec => []IInv
BY InitIInv, NextIInv, PTL DEF Spec

(* and it makes every count a natural number. *)
LEMMA IInvTypeOK == IInv => TypeOK
<1> SUFFICES ASSUME IInv PROVE TypeOK
    OBVIOUS
<1> USE DEF IInv
<1>1. ASSUME NEW g \in Gens, NEW b \in Backends PROVE slots[g][b] \in Nat
  <2>1. Holding(g, b) \in SUBSET Reqs BY DEF Holding
  <2> QED BY <2>1, FS_Subset, FS_CardinalityType, ConstantsAssumption
          DEF SemaphoreLaw
<1>2. ASSUME NEW b \in Backends PROVE active[b] \in Nat
  <2> DEFINE A == {r \in Reqs : tgt[r] = b /\ pc[r] \in Gauged}
  <2>1. A \in SUBSET Reqs OBVIOUS
  <2>2. Cardinality(A) \in Nat
    BY <2>1, FS_Subset, FS_CardinalityType, ConstantsAssumption
  <2> QED BY <2>2 DEF ActiveLaw, Gauged
<1>3. buffered \in Nat
  <2> DEFINE B == {r \in Reqs : pc[r] \in Buffering}
  <2>1. B \in SUBSET Reqs OBVIOUS
  <2>2. Cardinality(B) \in Nat
    BY <2>1, FS_Subset, FS_CardinalityType, ConstantsAssumption
  <2> QED BY <2>2 DEF BufferedLaw, Buffering
<1>4. slots \in [Gens -> [Backends -> Nat]] /\ active \in [Backends -> Nat]
  BY <1>1, <1>2 DEF Types
<1> QED BY <1>3, <1>4 DEF Types, TypeOK

(* Every reachable state is well typed, and no count but InFlight is ever  *)
(* negative, whatever the requests, reloads and configurations.            *)
THEOREM TypeCorrect == Spec => []TypeOK
BY IInvAlways, IInvTypeOK, PTL

(* The exact drift of InFlight and of the flow counters in every balancer, *)
(* over any number of reloads, however they fall between Incr, Dispatch    *)
(* and CompleteAndDecr: none of the three runs twice for a request, and    *)
(* CompleteAndDecr never on a path that returned early.                    *)
THEOREM InFlightLawHolds == Spec => []InFlightLaw
<1>1. IInv => InFlightLaw BY ExactLaw DEF IInv
<1> QED BY <1>1, IInvAlways, PTL

(* acquireSemaphore and its release keep every semaphore exact and within  *)
(* max_concurrency, across reloads.                                        *)
THEOREM SemaphoreLawHolds == Spec => []SemaphoreLaw
<1>1. IInv => SemaphoreLaw BY DEF IInv
<1> QED BY <1>1, IInvAlways, PTL

(* The ActiveRequests gauge is exact on every path but the panic between   *)
(* its increment and the queue.                                            *)
THEOREM ActiveLawHolds == Spec => []ActiveLaw
<1>1. IInv => ActiveLaw BY DEF IInv
<1> QED BY <1>1, IInvAlways, PTL

(* bufferedBytes leaks on exactly three paths. *)
THEOREM BufferedLawHolds == Spec => []BufferedLaw
<1>1. IInv => BufferedLaw BY DEF IInv
<1> QED BY <1>1, IInvAlways, PTL

(* A handler never works with a configuration newer than its router. *)
THEOREM SnapshotOrderHolds == Spec => []SnapshotOrder
<1>1. IInv => SnapshotOrder BY DEF IInv
<1> QED BY <1>1, IInvAlways, PTL
-----------------------------------------------------------------------------
(* ReloadTransparent: what a reload must not change.                       *)

(* What a handler cannot cope with, in two configurations or in one: only  *)
(* one of them has a balancer; a route's group, which some backend claims  *)
(* to be in, is not among the groups declared; a balanced backend is       *)
(* unknown.                                                                *)
Vanishes(g, h)   == Declared[g] = {} /\ Declared[h] # {}
Undeclared(g, h) == /\ Declared[h] # {}
                    /\ \E G \in Groups : Members[g][G] # {} /\ G \notin Declared[h]
Unknown(g, h)    == ~(Balanced(g) \subseteq Known[h])
Clash(g, h)      == Vanishes(g, h) \/ Undeclared(g, h) \/ Unknown(g, h)

(* Such configurations have been installed. *)
Clashing == \E g, h \in 0 .. rtrGen : Clash(g, h)

(* A handler panics only where two of the configurations installed so far  *)
(* clash, or one with itself: a server panics neither while it has one     *)
(* configuration whose backends are all in declared groups, nor when it is *)
(* reloaded with the same groups and backends that are never dropped from  *)
(* one file to the next.                                                   *)
PanicCause == (\E r \in Reqs : pc[r] \in Panicked) => Clashing

(* Where a handler's choices came from: every pointer it follows is to a   *)
(* configuration installed so far, and where it has passed a nil test, one *)
(* of them has a balancer.                                                 *)
Tested == {"selecting", "selected", "incremented", "recording", "completing",
           "invalidating"}
Doomed == {"noBackend", "aborting"} \cup Panicked

Sources ==
    /\ \E g \in 0 .. rtrGen : bal = BalancerOf(g)
    /\ \A r \in Reqs :
        /\ rtrOf[r] <= rtrGen
        /\ pc[r] = "grouped" =>
             /\ rtrOf[r] \in 0 .. rtrGen /\ grp[r] \in Groups
             /\ Members[rtrOf[r]][grp[r]] # {}
        /\ pc[r] = "selecting" => grp[r] \in Groups
        /\ pc[r] \in Tested => \E g \in 0 .. rtrGen : Declared[g] # {}
        /\ pc[r] \in {"selected", "incremented"} =>
             \E g \in 0 .. rtrGen : tgt[r] \in Balanced(g)
        /\ pc[r] \in Doomed => Clashing

(* A fresh server points to its first configuration only. *)
LEMMA InitSources == Init => Sources
BY ConstantFacts DEF Init, Sources, None, Tested, Doomed, Panicked

(* What has been installed stays installed. *)
LEMMA GensGrow ==
    ASSUME Types, [Next]_vars
    PROVE  rtrGen' \in Int /\ rtrGen <= rtrGen' /\ 0 .. rtrGen \subseteq 0 .. rtrGen'
<1>0. rtrGen \in Int
  BY ConstantFacts DEF Types
<1>1. rtrGen' = rtrGen \/ rtrGen' = rtrGen + 1
  <2>1. CASE UNCHANGED vars BY <2>1 DEF vars, pointers
  <2>2. CASE Reload
    BY <2>2 DEF Reload, ReloadRouter, ReloadConfig, ReloadSemaphores, ReloadBalancer
  <2>3. ASSUME NEW r \in Reqs, Serve(r) \/ CancelWait(r) PROVE rtrGen' = rtrGen
    BY <2>3 DEF Serve, Choose, RejectBody, LoadConfig, Reject, RouteDirect,
       RoutePassthrough, Bind, RouteGroup, SkipBalancer, ReadGroupConfig,
       Select, SelectFails, NilBalancer, Incr, Dispatch, Forward, NoBackend, RejectEmpty, EncodeError,
       Encode, InvalidURL, Admit, Record, Enqueue, AcquireSlot, Respond, ErrorHandler,
       BufferResponse, StartStream, CloseStream, CompleteAndDecr, InvalidatePin, NilAtEnd, Release, Leave, Settle, CancelWait,
       pointers
  <2> QED BY <2>1, <2>2, <2>3 DEF Next
<1> QED BY <1>0, <1>1

(* No step follows a pointer to anything else. *)
LEMMA NextSources ==
    ASSUME Types, Structure, PointerOrder, Sources, [Next]_vars
    PROVE  Sources'
<1>g. rtrGen' \in Int /\ rtrGen <= rtrGen' /\ 0 .. rtrGen \subseteq 0 .. rtrGen'
  BY GensGrow
<1>i. /\ rtrGen \in Int /\ rtrGen \in 0 .. rtrGen
      /\ \A r \in Reqs : cfgOf[r] \in Int /\ rtrOf[r] \in Int
      /\ \A r \in Reqs : cfgOf[r] \in Gens => cfgOf[r] \in 0 .. rtrGen
  BY ConstantFacts, ConstantsAssumption DEF Types, PointerOrder, Gens, None
<1>c. Clashing => Clashing'
  BY <1>g DEF Clashing
<1>1. CASE Reload \/ UNCHANGED vars
  <2>1. UNCHANGED <<pc, tgt, rtrOf, grp>>
    BY <1>1, QuietStep
  <2>2. \E g \in 0 .. rtrGen' : bal' = BalancerOf(g)
    <3>1. bal' = bal \/ bal' = BalancerOf(rtrGen)
      BY <1>1 DEF Reload, ReloadRouter, ReloadConfig, ReloadSemaphores,
         ReloadBalancer, vars, pointers
    <3> QED BY <1>g, <1>i, <3>1 DEF Sources
  <2> QED BY <1>g, <1>i, <1>c, <2>1, <2>2 DEF Sources
<1>2. ASSUME NEW r \in Reqs, Serve(r) \/ CancelWait(r) PROVE Sources'
  <2>1. UNCHANGED <<rtrGen, bal>> /\ Clashing' = Clashing
    <3>1. UNCHANGED pointers
      BY <1>2 DEF Serve, Choose, RejectBody, LoadConfig, Reject, RouteDirect,
         RoutePassthrough, Bind, RouteGroup, SkipBalancer, ReadGroupConfig,
         Select, SelectFails, NilBalancer, Incr, Dispatch, Forward, NoBackend, RejectEmpty, EncodeError,
         Encode, InvalidURL, Admit, Record, Enqueue, AcquireSlot, Respond, ErrorHandler,
         BufferResponse, StartStream, CloseStream, CompleteAndDecr, InvalidatePin, NilAtEnd, Release, Leave, Settle, CancelWait
    <3> QED BY <3>1 DEF pointers, Clashing
  <2>2. \A q \in Reqs \ {r} : /\ pc'[q] = pc[q] /\ tgt'[q] = tgt[q]
                              /\ rtrOf'[q] = rtrOf[q] /\ grp'[q] = grp[q]
    <3>1. rtrOf' = rtrOf \/ rtrOf' = [rtrOf EXCEPT ![r] = rtrGen]
      BY <1>2 DEF Serve, Choose, RejectBody, LoadConfig, Reject, RouteDirect,
         RoutePassthrough, Bind, RouteGroup, SkipBalancer, ReadGroupConfig,
         Select, SelectFails, NilBalancer, Incr, Dispatch, Forward, NoBackend,
         RejectEmpty, EncodeError, Encode, InvalidURL, Admit, Record, Enqueue,
         AcquireSlot, Respond, ErrorHandler, BufferResponse, StartStream,
         CloseStream, CompleteAndDecr, InvalidatePin, NilAtEnd, Release, Settle,
         CancelWait, snapshot
    <3>2. grp' = grp \/ \E G \in Groups : grp' = [grp EXCEPT ![r] = G]
      BY <1>2 DEF Serve, Choose, RejectBody, LoadConfig, Reject, RouteDirect,
         RoutePassthrough, Bind, RouteGroup, SkipBalancer, ReadGroupConfig,
         Select, SelectFails, NilBalancer, Incr, Dispatch, Forward, NoBackend,
         RejectEmpty, EncodeError, Encode, InvalidURL, Admit, Record, Enqueue,
         AcquireSlot, Respond, ErrorHandler, BufferResponse, StartStream,
         CloseStream, CompleteAndDecr, InvalidatePin, NilAtEnd, Release, Settle,
         CancelWait, snapshot
    <3> QED BY <1>2, <3>1, <3>2, OnlyOne DEF Types
  <2>3. /\ rtrOf'[r] <= rtrGen
        /\ pc'[r] = "grouped" =>
             /\ rtrOf'[r] \in 0 .. rtrGen /\ grp'[r] \in Groups
             /\ Members[rtrOf'[r]][grp'[r]] # {}
        /\ pc'[r] = "selecting" => grp'[r] \in Groups
        /\ pc'[r] \in Tested => \E g \in 0 .. rtrGen : Declared[g] # {}
        /\ pc'[r] \in {"selected", "incremented"} =>
             \E g \in 0 .. rtrGen : tgt'[r] \in Balanced(g)
        /\ pc'[r] \in Doomed => Clashing
    <3> USE <1>i DEF Goto, snapshot, Types, Sources, Tested, Doomed, Panicked
    <3>b. bal # None => \E g \in 0 .. rtrGen : bal = g /\ Declared[g] # {}
      BY DEF BalancerOf
    <3>n. bal = None => \E g \in 0 .. rtrGen : Declared[g] = {}
      <4>1. PICK g \in 0 .. rtrGen : bal = BalancerOf(g) OBVIOUS
      <4> QED BY <4>1 DEF BalancerOf, None
    <3>v. bal = None /\ (\E g \in 0 .. rtrGen : Declared[g] # {}) => Clashing
      BY <3>n DEF Clashing, Clash, Vanishes
    <3>1. CASE RejectBody(r) \/ LoadConfig(r) \/ Reject(r) \/ SelectFails(r)
      BY <3>1 DEF RejectBody, LoadConfig, Reject, SelectFails
    <3>2. CASE RouteDirect(r) \/ RoutePassthrough(r)
      BY <3>2 DEF RouteDirect, RoutePassthrough, Bind
    <3>3. CASE RouteGroup(r) BY <3>3 DEF RouteGroup
    <3>4. CASE SkipBalancer(r) BY <3>4 DEF SkipBalancer
    <3>5. CASE ReadGroupConfig(r)
      <4>1. /\ cfgOf[r] \in 0 .. rtrGen /\ pc[r] = "grouped" /\ bal # None
            /\ UNCHANGED <<rtrOf, grp, tgt>>
            /\ pc' = [pc EXCEPT ![r] = IF grp[r] \in Declared[cfgOf[r]]
                                       THEN "selecting" ELSE "panicked"]
        BY <3>5 DEF ReadGroupConfig, Structure
      <4>2. CASE grp[r] \in Declared[cfgOf[r]]
        <5>1. pc'[r] = "selecting" BY <4>1, <4>2
        <5> QED BY <3>b, <4>1, <5>1
      <4>3. CASE grp[r] \notin Declared[cfgOf[r]]
        <5>1. pc'[r] = "panicked" BY <4>1, <4>3
        <5>2. CASE Declared[cfgOf[r]] = {}
          BY <3>b, <4>1, <5>1, <5>2 DEF Clashing, Clash, Vanishes
        <5>3. CASE Declared[cfgOf[r]] # {}
          <6>1. Undeclared(rtrOf[r], cfgOf[r])
            BY <4>1, <4>3, <5>3 DEF Undeclared
          <6> QED BY <4>1, <5>1, <6>1 DEF Clashing, Clash
        <5> QED BY <5>2, <5>3
      <4> QED BY <4>2, <4>3
    <3>6. CASE Select(r)
      <4>1. PICK b \in Pool(bal, grp[r]) : tgt' = [tgt EXCEPT ![r] = b]
        BY <3>6 DEF Select
      <4>2. pc' = [pc EXCEPT ![r] = "selected"] /\ bal # None
            /\ UNCHANGED <<rtrOf, grp>>
        BY <3>6 DEF Select
      <4>3. b \in Balanced(bal)
        BY <4>1 DEF Pool, Balanced
      <4> QED BY <3>b, <4>1, <4>2, <4>3
    <3>7. CASE NilBalancer(r) BY <3>7, <3>v DEF NilBalancer
    <3>8. CASE Incr(r) BY <3>8 DEF Incr
    <3>12. CASE Dispatch(r)
      <4>1. /\ cfgOf[r] \in 0 .. rtrGen /\ pc[r] = "incremented"
            /\ pc' = [pc EXCEPT ![r] = IF tgt[r] \in Known[cfgOf[r]]
                                       THEN "prepared" ELSE "noBackend"]
            /\ UNCHANGED <<rtrOf, grp, tgt>>
        BY <3>12 DEF Dispatch, Structure
      <4>2. CASE tgt[r] \in Known[cfgOf[r]] BY <4>1, <4>2
      <4>3. CASE tgt[r] \notin Known[cfgOf[r]]
        <5>1. Clashing BY <4>1, <4>3 DEF Clashing, Clash, Unknown
        <5> QED BY <4>1, <4>3, <5>1
      <4> QED BY <4>2, <4>3
    <3>13. CASE Admit(r) BY <3>13, <3>b DEF Admit
    <3>14. CASE Record(r) BY <3>14, <3>v DEF Record
    <3>9. CASE NoBackend(r) \/ RejectEmpty(r) \/ EncodeError(r) \/ Encode(r)
               \/ InvalidURL(r) \/ Enqueue(r) \/ AcquireSlot(r)
      BY <3>9 DEF NoBackend, RejectEmpty, EncodeError, Encode, InvalidURL,
         Enqueue, AcquireSlot
    <3>10. CASE ErrorHandler(r) \/ BufferResponse(r) \/ CloseStream(r)
      BY <3>10, <3>b DEF ErrorHandler, BufferResponse, CloseStream, Settle
    <3>15. CASE NilAtEnd(r) BY <3>15, <3>v DEF NilAtEnd
    <3>16. CASE StartStream(r) \/ CompleteAndDecr(r) \/ InvalidatePin(r) \/ Release(r)
      BY <3>16 DEF StartStream, CompleteAndDecr, InvalidatePin, Release, Leave
    <3>11. CASE CancelWait(r) BY <3>11 DEF CancelWait
    <3> QED BY <1>2, <3>1, <3>2, <3>3, <3>4, <3>5, <3>6, <3>7, <3>8, <3>9, <3>10,
               <3>11, <3>12, <3>13, <3>14, <3>15, <3>16
            DEF Serve, Choose, Forward, Respond
  <2> QED BY <2>1, <2>2, <2>3 DEF Sources
<1> QED BY <1>1, <1>2 DEF Next

(* The pointers, always. *)
LEMMA SourcesAlways == Spec => []Sources
<1>1. IInv /\ Sources /\ [Next]_vars => Sources'
  BY NextSources DEF IInv
<1> QED BY <1>1, InitSources, IInvAlways, PTL DEF Spec

(* However the stores of any number of reloads fall between the reads of   *)
(* any number of handlers, a handler panics only if the configurations     *)
(* installed so far clash.                                                 *)
THEOREM PanicCauseHolds == Spec => []PanicCause
<1>1. Sources => PanicCause BY DEF Sources, PanicCause, Doomed
<1> QED BY <1>1, SourcesAlways, PTL

(* ReloadTransparent, as Reload's comment has it, holds where every        *)
(* configuration has groups, every group that a backend claims in one is   *)
(* declared in all, and the balanced backends of one are known to all.     *)
THEOREM CompatibleReloads ==
    ASSUME \A g, h \in Gens :
             /\ Declared[g] # {} /\ Balanced(g) \subseteq Known[h]
             /\ \A G \in Groups : Members[g][G] # {} => G \in Declared[h]
    PROVE  Spec => []ReloadTransparent
<1>1. IInv /\ PanicCause => ReloadTransparent
  <2> SUFFICES ASSUME IInv, PanicCause, NEW r \in Reqs, pc[r] \in Panicked PROVE FALSE
    BY DEF ReloadTransparent
  <2>1. 0 .. rtrGen \subseteq Gens
    BY ConstantsAssumption DEF IInv, Types, Gens
  <2>2. PICK g \in 0 .. rtrGen, h \in 0 .. rtrGen : Clash(g, h)
    BY DEF PanicCause, Clashing
  <2> QED BY <2>1, <2>2 DEF Clash, Vanishes, Undeclared, Unknown
<1> QED BY <1>1, IInvAlways, PanicCauseHolds, PTL
-----------------------------------------------------------------------------
(* What Served rests on besides fairness.                                  *)

(* Nobody queues in vain: where a request waits for a slot, its channel    *)
(* has one free, or a request past the queue holds a slot of that same     *)
(* channel, the one of an older generation too, which it will return.      *)
QueueMoves ==
    \A r \in Reqs : pc[r] = "waiting" =>
        LET g == semOf[r]
            b == tgt[r]
        IN Limited(g, b) => slots[g][b] < MaxConc[b] \/ Holding(g, b) \ {r} # {}

(* No order of arrivals, cancellations and reloads leaves requests waiting *)
(* at a full semaphore that nobody will release.                           *)
THEOREM QueueMovesHolds == Spec => []QueueMoves
<1>1. IInv => QueueMoves
  <2> SUFFICES ASSUME IInv, NEW r \in Reqs, pc[r] = "waiting", Limited(semOf[r], tgt[r]),
                      ~(slots[semOf[r]][tgt[r]] < MaxConc[tgt[r]])
               PROVE  Holding(semOf[r], tgt[r]) \ {r} # {}
    BY DEF QueueMoves
  <2>1. PICK g \in Gens : g = semOf[r]
    BY DEF IInv, Structure, Queued
  <2>2. PICK b \in Backends : b = tgt[r]
    BY DEF IInv, Structure, Bound
  <2>3. slots[g][b] = Cardinality(Holding(g, b)) /\ slots[g][b] \in Int
    BY DEF IInv, SemaphoreLaw, Types
  <2>4. MaxConc[b] \in Nat /\ MaxConc[b] > 0
    BY <2>1, <2>2, ConstantsAssumption DEF Limited
  <2>5. Cardinality(Holding(g, b)) # 0
    BY <2>1, <2>2, <2>3, <2>4
  <2>6. Holding(g, b) # {}
    BY <2>5, FS_EmptySet
  <2>7. r \notin Holding(g, b)
    BY DEF Holding
  <2> QED BY <2>1, <2>2, <2>6, <2>7
<1> QED BY <1>1, IInvAlways, PTL
=============================================================================
