----------------------------- MODULE ProcessProofs -----------------------------
(***************************************************************************)
(* Proofs about Process, for all contents of the configuration file and    *)
(* any number of edits and signals.                                        *)
(***************************************************************************)
EXTENDS Process, TLAPS, FiniteSetTheorems, WellFoundedInduction

\* Before Start nothing has happened.
Starting ==
    main = "starting" => /\ sent = 0 /\ ~hup /\ reloader = "idle" /\ tried = 0
                         /\ made = 0 /\ bal = None /\ ~crashed

\* Every balancer but the first answers a signal: so there is room for it.
One(p) == IF p THEN 1 ELSE 0
Budget == made + One(hup) + One(reloader \in {"load", "store", "build"}) <= hups + 1

\* Balancers not yet made are as Init left them.
Fresh == \A g \in Gens : g > made => ~done[g] /\ run[g] = {}

\* The WaitGroup counts at least the goroutines there are.
Counted == \A g \in Gens : IsFiniteSet(run[g]) /\ Cardinality(run[g]) <= wg[g]

\* What the reloader holds in each of its steps.
Replacing ==
    /\ reloader \in {"store", "build", "install"} => tried \in 1 .. Now
    /\ reloader = "build" => Balanced(file[tried])
    /\ reloader \in {"build", "install"} => old = bal
    /\ reloader = "install" /\ Balanced(file[tried]) => made > old /\ made > mine /\ ~done[made]
    /\ reloader \in {"close", "wait"} => old # None
    /\ reloader = "close" => old # bal

\* Until main has stopped a balancer, the installed one and the one about to be
\* replaced are open.
Open ==
    Alive /\ main \notin {"wait", "finish"} =>
        /\ bal # None => ~done[bal]
        /\ reloader \in {"build", "install", "close"} /\ old # None => ~done[old]

\* NoOrphans, with the balancer under construction counted only if it is going
\* to be installed.
Adopted ==
    Alive => \A g \in Gens : run[g] # {} =>
        \/ g = bal
        \/ g = made /\ reloader = "install" /\ Balanced(file[tried])
        \/ g = old /\ reloader \in {"close", "wait"}
        \/ g = mine /\ main \in {"close", "wait"}

PInv == /\ TypeOK /\ Starting /\ Budget /\ Fresh /\ Counted /\ Replacing /\ Open
        /\ Adopted /\ NoLostSignal

\* What New starts is a finite set of goroutines of the file's backends.
LEMMA MonitorsType ==
  ASSUME NEW c \in Contents, NEW s \in Monitors(c)
  PROVE  s \subseteq IDs \X Kinds /\ IsFiniteSet(s)
<1>1. BalancedIDs(c) \subseteq BackendIDs(c) /\ BackendIDs(c) \subseteq IDs
  BY DEF BalancedIDs, IDs
<1>2. s \subseteq BackendIDs(c) \X Kinds
  BY <1>1 DEF Monitors, startMonitoring, startAliveChecks, startPassiveRecovery, Kinds
<1>3. IsFiniteSet(BackendIDs(c))
  <2>1. IsFiniteSet(DOMAIN c.backends)
    <3>1. c.backends \in Seq(Entry)
      BY ProcessAssumption DEF WellFormed
    <3>2. DOMAIN c.backends = 1 .. Len(c.backends) /\ Len(c.backends) \in Nat
      BY <3>1
    <3> QED
      BY <3>2, FS_Interval
  <2> DEFINE f == [i \in DOMAIN c.backends |-> c.backends[i].id]
  <2>2. f \in Surjection(DOMAIN c.backends, BackendIDs(c))
    BY DEF BackendIDs, Surjection
  <2> QED
    BY <2>1, <2>2, FS_Surjection
<1>4. IsFiniteSet(Kinds)
  <2>1. IsFiniteSet({"scrape"})
    BY FS_Singleton
  <2>2. IsFiniteSet({"scrape"} \cup {"health"})
    BY <2>1, FS_AddElement
  <2>3. IsFiniteSet(({"scrape"} \cup {"health"}) \cup {"alive"})
    BY <2>2, FS_AddElement
  <2>4. IsFiniteSet((({"scrape"} \cup {"health"}) \cup {"alive"}) \cup {"passive"})
    BY <2>3, FS_AddElement
  <2>5. IsFiniteSet(((({"scrape"} \cup {"health"}) \cup {"alive"}) \cup {"passive"}) \cup {"leaving"})
    BY <2>4, FS_AddElement
  <2>6. IsFiniteSet((((({"scrape"} \cup {"health"}) \cup {"alive"}) \cup {"passive"}) \cup {"leaving"})
                      \cup {"doomed"})
    BY <2>5, FS_AddElement
  <2>7. Kinds = (((({"scrape"} \cup {"health"}) \cup {"alive"}) \cup {"passive"}) \cup {"leaving"})
                  \cup {"doomed"}
    BY DEF Kinds
  <2> QED
    BY <2>6, <2>7
<1>5. IsFiniteSet(BackendIDs(c) \X Kinds)
  BY <1>3, <1>4, FS_Product
<1> QED
  BY <1>1, <1>2, <1>5, FS_Subset

\* New gives balancer made + 1 its goroutines, all of them counted.
LEMMA NewEffect ==
  ASSUME TypeOK, Fresh, Counted, NEW v \in 1 .. Now, made + 1 \in Gens, New(v)
  PROVE  /\ made' = made + 1 /\ done' = done
         /\ conf' \in [Gens -> 0 .. Now]
         /\ run' \in [Gens -> SUBSET (IDs \X Kinds)]
         /\ wg' \in [Gens -> Nat]
         /\ \A g \in Gens \ {made + 1} : run'[g] = run[g]
         /\ ~done'[made + 1]
         /\ \A g \in Gens : IsFiniteSet(run'[g]) /\ Cardinality(run'[g]) <= wg'[g]
<1>1. PICK started \in Monitors(file[v]) :
        /\ made' = made + 1
        /\ conf' = [conf EXCEPT ![made'] = v]
        /\ run' = [run EXCEPT ![made'] = started]
        /\ wg' = [wg EXCEPT ![made'] = Cardinality(started)]
        /\ UNCHANGED done
  BY DEF New
<1>2. file[v] \in Contents /\ Now \in Nat
  BY DEF TypeOK, Now
<1>3. started \subseteq IDs \X Kinds /\ IsFiniteSet(started) /\ Cardinality(started) \in Nat
  BY <1>2, MonitorsType, FS_CardinalityType
<1>4. ~done[made + 1]
  BY DEF Fresh, TypeOK
<1>5. /\ conf' \in [Gens -> 0 .. Now]
      /\ run' \in [Gens -> SUBSET (IDs \X Kinds)]
      /\ wg' \in [Gens -> Nat]
  <2>1. conf' \in [Gens -> 0 .. Now]
    <3>1. v \in 0 .. Now
      BY <1>2
    <3> QED
      BY <1>1, <3>1 DEF TypeOK
  <2>2. run' \in [Gens -> SUBSET (IDs \X Kinds)]
    BY <1>1, <1>3 DEF TypeOK
  <2>3. wg' \in [Gens -> Nat]
    BY <1>1, <1>3 DEF TypeOK
  <2> QED
    BY <2>1, <2>2, <2>3
<1>6. \A g \in Gens : IF g = made + 1 THEN run'[g] = started /\ wg'[g] = Cardinality(started)
                                       ELSE run'[g] = run[g] /\ wg'[g] = wg[g]
  BY <1>1 DEF TypeOK
<1>7. \A g \in Gens : IsFiniteSet(run'[g]) /\ Cardinality(run'[g]) <= wg'[g]
  BY <1>3, <1>6 DEF Counted
<1> QED
  BY <1>1, <1>4, <1>5, <1>6, <1>7

\* Nothing has happened yet.
LEMMA InitPInv == Init => PInv
<1> SUFFICES ASSUME Init PROVE PInv
  OBVIOUS
<1>1. PICK c \in Contents : file = <<c>>
  BY DEF Init
<1>2. file \in Seq(Contents) /\ Len(file) = 1
  BY <1>1
<1>3. TypeOK
  <2>1. Now = 1 /\ MaxEdits \in Nat /\ MaxHups \in Nat
    BY <1>2, ProcessAssumption DEF Now
  <2>2. {bal, old, mine} \subseteq 0 .. made /\ made \in 0 .. MaxHups + 1
    BY <2>1 DEF Init, None
  <2>3. /\ conf \in [Gens -> 0 .. Now] /\ done \in [Gens -> BOOLEAN]
        /\ run \in [Gens -> SUBSET (IDs \X Kinds)] /\ wg \in [Gens -> Nat]
    BY <2>1 DEF Init
  <2>4. /\ sent \in 0 .. Now /\ hups \in 0 .. MaxHups
        /\ tried \in 0 .. Now /\ cfg \in 0 .. tried
    BY <2>1 DEF Init
  <2>5. hup \in BOOLEAN /\ quit \in BOOLEAN /\ crashed \in BOOLEAN
    BY Zenon DEF Init
  <2>6. Now \in 1 .. MaxEdits + 1
    BY <2>1
  <2>7. main = "starting" /\ reloader = "idle"
    BY DEF Init
  <2> QED
    BY <1>2, <2>2, <2>3, <2>4, <2>5, <2>6, <2>7 DEF TypeOK
<1>4. Counted
  BY FS_EmptySet DEF Init, Counted, Gens
<1>5. /\ Starting /\ Budget /\ Fresh /\ Replacing /\ Open
      /\ Adopted /\ NoLostSignal
  BY DEF Init, Starting, Budget, One, Fresh, Replacing, Open, Adopted, NoLostSignal,
         Alive, Stopping, Gens
<1> QED
  BY <1>3, <1>4, <1>5 DEF PInv

\* The parts of the invariant do not change with what is not named in them.
LEMMA Unmoved == PInv /\ UNCHANGED vars => PInv'
<1> SUFFICES ASSUME PInv, UNCHANGED vars PROVE PInv'
  OBVIOUS
<1> QED
  BY DEF vars, signals, reload, balancers, PInv, TypeOK, Starting, Budget, Fresh, Counted,
         Replacing, Open, Adopted, NoLostSignal, Alive, Now

\* The operator's steps.
LEMMA OperatorPInv ==
  ASSUME PInv, Edit \/ Hup \/ Quit \/ EarlySignal PROVE PInv'
<1> USE DEF PInv, signals, reload, balancers
<1>1. CASE Edit
  <2>1. PICK c \in Contents : file' = Append(file, c)
    BY <1>1 DEF Edit
  <2>2. file \in Seq(Contents) /\ Now \in Nat /\ MaxEdits \in Nat
    BY ProcessAssumption DEF TypeOK, Now
  <2>3. /\ file' \in Seq(Contents) /\ Now' = Now + 1
        /\ \A i \in 1 .. Now : file'[i] = file[i]
    BY <2>1, <2>2 DEF Now
  <2>4. TypeOK'
    BY <1>1, <2>2, <2>3 DEF Edit, TypeOK
  <2>5. tried \in 1 .. Now => file'[tried] = file[tried]
    BY <2>3
  <2>6. Replacing'
    <3>1. /\ reloader' = reloader /\ tried' = tried /\ old' = old /\ bal' = bal
          /\ mine' = mine /\ made' = made /\ done' = done
      BY <1>1 DEF Edit
    <3>2. tried \in 1 .. Now => tried \in 1 .. Now' /\ Balanced(file'[tried]) = Balanced(file[tried])
      BY <2>2, <2>3, <2>5
    <3> QED
      BY <3>1, <3>2 DEF Replacing
  <2>7. Adopted'
    BY <1>1, <2>5 DEF Edit, Replacing, Adopted, Alive
  <2> QED
    BY <1>1, <2>4, <2>6, <2>7
    DEF Edit, Starting, Budget, Fresh, Counted, Open, NoLostSignal, Alive
<1>2. CASE Hup
  <2>1. TypeOK'
    BY <1>2, ProcessAssumption DEF Hup, TypeOK, Now
  <2>2. Budget'
    BY <1>2, ProcessAssumption DEF Hup, Budget, One, TypeOK
  <2> QED
    BY <1>2, <2>1, <2>2
    DEF Hup, Starting, Fresh, Counted, Replacing, Open, Adopted, NoLostSignal, Alive,
        Now, Stopping
<1>3. CASE Quit
  BY <1>3 DEF Quit, TypeOK, Starting, Budget, Fresh, Counted, Replacing, Open, Adopted,
              NoLostSignal, Alive, Now
<1>4. CASE EarlySignal
  BY <1>4 DEF EarlySignal, TypeOK, Starting, Budget, Fresh, Counted, Replacing, Open, Adopted,
              NoLostSignal, Alive, Now, Stopping
<1> QED
  BY <1>1, <1>2, <1>3, <1>4

\* A panic that ends the process changes nothing else.
LEMMA PanicPInv ==
  ASSUME PInv, Alive, crashed' = TRUE,
         UNCHANGED <<file, signals, main, reload, bal, mine, balancers>>
  PROVE  PInv'
<1> USE DEF PInv, signals, reload, balancers
<1>1. TypeOK' /\ Budget' /\ Fresh' /\ Counted' /\ Replacing'
  BY DEF TypeOK, Budget, Fresh, Counted, Replacing, Now
<1>2. Starting'
  BY DEF Starting, Alive, Stopping
<1>3. Open' /\ Adopted' /\ NoLostSignal'
  BY DEF Open, Adopted, NoLostSignal, Alive
<1> QED
  BY <1>1, <1>2, <1>3

\* The reloading goroutine's steps.
LEMMA ReloaderPInv ==
  ASSUME PInv, Reloader PROVE PInv'
<1> USE DEF PInv, signals, reload, balancers, Step
<1>0. /\ MaxHups \in Nat /\ Now \in Nat /\ tried \in Nat /\ sent \in Nat /\ made \in Nat
      /\ bal \in Nat /\ old \in Nat /\ mine \in Nat /\ hups \in Nat
  BY ProcessAssumption DEF TypeOK, Now
<1>1. CASE Receive
  <2>1. Budget'
    BY <1>1, <1>0 DEF Receive, Budget, One
  <2>2. TypeOK'
    BY <1>1 DEF Receive, TypeOK, Now
  <2>3. NoLostSignal'
    BY <1>1 DEF Receive, NoLostSignal
  <2> QED
    BY <1>1, <2>1, <2>2, <2>3
    DEF Receive, Starting, Fresh, Counted, Replacing, Open, Adopted, Alive, Now, Stopping
<1>2. CASE Load
  <2>1. Budget'
    BY <1>2, <1>0 DEF Load, Budget, One
  <2>2. TypeOK'
    BY <1>2, <1>0 DEF Load, TypeOK, Now
  <2>3. NoLostSignal'
    BY <1>2, <1>0 DEF Load, NoLostSignal, TypeOK, Now
  <2>4. Replacing'
    BY <1>2, <1>0 DEF Load, Replacing, TypeOK, Now
  <2> QED
    BY <1>2, <2>1, <2>2, <2>3, <2>4
    DEF Load, Starting, Fresh, Counted, Open, Adopted, Alive, Stopping
<1>3. CASE Store
  <2>1. Budget'
    BY <1>3, <1>0 DEF Store, Budget, One
  <2>2. TypeOK'
    BY <1>3, <1>0 DEF Store, TypeOK, Now
  <2>3. NoLostSignal'
    BY <1>3 DEF Store, NoLostSignal, Alive
  <2>4. Replacing'
    BY <1>3, <1>0 DEF Store, Replacing, Now
  <2> QED
    BY <1>3, <2>1, <2>2, <2>3, <2>4
    DEF Store, Starting, Fresh, Counted, Open, Adopted, Alive, Stopping
<1>4. CASE Build
  <2>1. tried \in 1 .. Now /\ made + 1 \in Gens /\ Balanced(file[tried]) /\ old = bal
    BY <1>4, <1>0 DEF Build, Replacing, Budget, One, Gens, TypeOK
  <2>2. New(tried)
    BY <1>4 DEF Build
  <2>3. /\ made' = made + 1 /\ done' = done
        /\ conf' \in [Gens -> 0 .. Now]
        /\ run' \in [Gens -> SUBSET (IDs \X Kinds)]
        /\ wg' \in [Gens -> Nat]
        /\ \A g \in Gens \ {made + 1} : run'[g] = run[g]
        /\ ~done'[made + 1]
        /\ \A g \in Gens : IsFiniteSet(run'[g]) /\ Cardinality(run'[g]) <= wg'[g]
    BY <2>1, <2>2, NewEffect
  <2>4. TypeOK'
    <3>1. /\ file' = file /\ sent' = sent /\ hups' = hups /\ hup' = hup /\ quit' = quit
          /\ main' = main /\ reloader' = "install" /\ tried' = tried /\ cfg' = cfg
          /\ old' = old /\ bal' = bal /\ mine' = mine /\ crashed' = crashed
      BY <1>4 DEF Build
    <3>2. made' \in 0 .. MaxHups + 1 /\ {bal, old, mine} \subseteq 0 .. made'
      BY <1>0, <2>1, <2>3 DEF TypeOK, Gens
    <3> QED
      BY <2>3, <3>1, <3>2 DEF TypeOK, Now
  <2>5. Budget'
    BY <1>4, <1>0, <2>3 DEF Build, Budget, One
  <2>6. Fresh' /\ Counted'
    <3>1. \A g \in Gens : g > made + 1 => g > made /\ g \in Gens \ {made + 1}
      BY <1>0 DEF Gens
    <3>2. Fresh'
      BY <2>3, <3>1 DEF Fresh
    <3>3. Counted'
      BY <2>3 DEF Counted
    <3> QED
      BY <3>2, <3>3
  <2>7. Replacing'
    BY <1>4, <1>0, <2>1, <2>3 DEF Build, Replacing, Now, TypeOK
  <2>8. Adopted'
    BY <1>4, <2>1, <2>3 DEF Build, Adopted, Alive
  <2> QED
    BY <1>4, <1>0, <2>3, <2>4, <2>5, <2>6, <2>7, <2>8
    DEF Build, Starting, Open, Alive, Stopping, NoLostSignal
<1>5. CASE Install
  <2>1. Budget'
    BY <1>5, <1>0 DEF Install, Budget, One
  <2>2. TypeOK'
    BY <1>5, <1>0 DEF Install, TypeOK, Now, None
  <2>3. NoLostSignal' /\ Starting' /\ Fresh' /\ Counted'
    BY <1>5 DEF Install, NoLostSignal, Starting, Fresh, Counted, Alive, Stopping
  <2>4. Replacing'
    BY <1>5, <1>0 DEF Install, Replacing, None
  <2>5. Open'
    BY <1>5 DEF Install, Open, Replacing, Alive
  <2>6. Adopted'
    BY <1>5 DEF Install, Adopted, Replacing, Alive, Gens, None
  <2> QED
    BY <2>1, <2>2, <2>3, <2>4, <2>5, <2>6
<1>6. CASE CloseOld
  <2>1. old # None /\ old # bal /\ old \in Gens
    BY <1>6, <1>0 DEF CloseOld, Replacing, TypeOK, Gens, None
  <2>2. CASE done[old]
    <3>1. crashed' = TRUE /\ done' = done
      BY <1>6, <2>2 DEF CloseOld, Close
    <3>2. main \in {"wait", "finish"} /\ main' = main
      BY <1>6, <2>1, <2>2 DEF CloseOld, Open
    <3>3. TypeOK' /\ Budget'
      BY <1>6, <1>0, <3>1 DEF CloseOld, TypeOK, Budget, One, Now
    <3>4. ~Alive'
      BY <3>1 DEF Alive
    <3>5. Starting'
      BY <3>2 DEF Starting, Stopping
    <3>6. Fresh' /\ Counted' /\ Replacing'
      BY <1>6, <3>1 DEF CloseOld, Fresh, Counted, Replacing
    <3> QED
      BY <3>3, <3>4, <3>5, <3>6 DEF Open, Adopted, NoLostSignal
  <2>3. CASE ~done[old]
    <3>1. crashed' = crashed /\ done' = [done EXCEPT ![old] = TRUE]
      BY <1>6, <2>3 DEF CloseOld, Close
    <3>2. TypeOK' /\ Budget'
      BY <1>6, <1>0, <3>1 DEF CloseOld, TypeOK, Budget, One, Now
    <3>3. Fresh'
      BY <1>6, <1>0, <3>1 DEF CloseOld, TypeOK, Fresh, Gens
    <3>4. Starting' /\ Counted' /\ NoLostSignal' /\ Replacing' /\ Adopted'
      BY <1>6, <3>1 DEF CloseOld, Starting, Counted, NoLostSignal, Replacing,
                        Adopted, Alive, Stopping
    <3>5. Open'
      BY <1>6, <2>1, <3>1 DEF CloseOld, Open, Alive, TypeOK
    <3> QED
      BY <3>2, <3>3, <3>4, <3>5
  <2> QED
    BY <2>2, <2>3
<1>7. CASE WaitOld
  <2>1. old \in Gens
    BY <1>7, <1>0 DEF WaitOld, Replacing, TypeOK, Gens, None
  <2>2. run[old] = {}
    <3>1. IsFiniteSet(run[old]) /\ Cardinality(run[old]) <= 0
      BY <1>7, <2>1 DEF WaitOld, Counted
    <3>2. Cardinality(run[old]) = 0
      BY <3>1, FS_CardinalityType
    <3> QED
      BY <3>1, <3>2, FS_EmptySet
  <2>3. TypeOK' /\ Budget'
    BY <1>7, <1>0 DEF WaitOld, TypeOK, Budget, One, Now
  <2>4. Adopted'
    BY <1>7, <2>2 DEF WaitOld, Adopted, Alive
  <2> QED
    BY <1>7, <2>3, <2>4
    DEF WaitOld, Starting, Fresh, Counted, Replacing, Open, Alive, Stopping, NoLostSignal
<1>8. CASE Probe
  <2>1. TypeOK' /\ Budget'
    BY <1>8, <1>0 DEF Probe, TypeOK, Budget, One, Now
  <2> QED
    BY <1>8, <2>1
    DEF Probe, Starting, Fresh, Counted, Replacing, Open, Adopted, Alive, Stopping, NoLostSignal
<1>9. CASE LoadDies
  BY <1>9, PanicPInv DEF LoadDies
<1> QED
  BY <1>1, <1>2, <1>3, <1>4, <1>5, <1>6, <1>7, <1>8, <1>9 DEF Reloader

\* The main goroutine's steps, and a listener that fails.
LEMMA MainPInv ==
  ASSUME PInv, Main \/ Refuse \/ ListenFails PROVE PInv'
<1> USE DEF PInv, signals, reload, balancers, Go
<1>0. /\ MaxHups \in Nat /\ Now \in Nat /\ tried \in Nat /\ sent \in Nat /\ made \in Nat
      /\ bal \in Nat /\ old \in Nat /\ mine \in Nat /\ hups \in Nat
  BY ProcessAssumption DEF TypeOK, Now
<1>1. CASE Start
  <2>1. /\ sent = 0 /\ ~hup /\ reloader = "idle" /\ tried = 0 /\ made = 0 /\ bal = None /\ ~crashed
    BY <1>1 DEF Start, Starting
  <2>2. /\ main' = "serving" /\ cfg' = 1 /\ tried' = 1 /\ file' = file /\ sent' = sent
        /\ hups' = hups /\ hup' = hup /\ quit' = quit /\ reloader' = reloader /\ old' = old
        /\ mine' = mine /\ crashed' = crashed
    BY <1>1 DEF Start
  <2>3. 1 \in 1 .. Now /\ 1 \in Gens
    BY <1>0 DEF TypeOK, Gens
  <2>4. \A g \in Gens : ~done[g] /\ run[g] = {}
    BY <1>0, <2>1 DEF Fresh, Gens
  <2>5. CASE Balanced(file[1])
    <3>1. New(1) /\ bal' = 1
      BY <1>1, <2>5 DEF Start
    <3>2. /\ made' = made + 1 /\ done' = done
          /\ conf' \in [Gens -> 0 .. Now]
          /\ run' \in [Gens -> SUBSET (IDs \X Kinds)]
          /\ wg' \in [Gens -> Nat]
          /\ \A g \in Gens \ {made + 1} : run'[g] = run[g]
          /\ ~done'[made + 1]
          /\ \A g \in Gens : IsFiniteSet(run'[g]) /\ Cardinality(run'[g]) <= wg'[g]
      BY <2>1, <2>3, <3>1, NewEffect
    <3>3. made' = 1 /\ made' \in 0 .. MaxHups + 1 /\ {bal', old, mine} \subseteq 0 .. made'
      BY <1>0, <2>1, <3>1, <3>2 DEF TypeOK
    <3>4. TypeOK'
      <4>1. tried' \in 0 .. Now' /\ cfg' \in 0 .. tried'
        BY <1>0, <2>2, <2>3 DEF Now
      <4> QED
        BY <2>1, <2>2, <3>2, <3>3, <4>1 DEF TypeOK, Now
    <3>5. Budget'
      BY <1>0, <2>1, <2>2, <3>3 DEF Budget, One
    <3>6. Fresh' /\ Counted'
      BY <2>1, <2>4, <3>2, <3>3 DEF Fresh, Counted, Gens
    <3>7. Adopted'
      BY <2>1, <2>4, <3>1, <3>2, <3>3 DEF Adopted
    <3>8. NoLostSignal' /\ Starting' /\ Replacing'
      BY <2>1, <2>2 DEF NoLostSignal, Starting, Replacing
    <3>9. Open'
      BY <2>1, <2>2, <3>1, <3>2 DEF Open
    <3> QED
      BY <3>4, <3>5, <3>6, <3>7, <3>8, <3>9
  <2>6. CASE ~Balanced(file[1])
    <3>1. UNCHANGED <<made, conf, done, run, wg, bal>>
      BY <1>1, <2>6 DEF Start
    <3>2. TypeOK'
      <4>1. tried' \in 0 .. Now' /\ cfg' \in 0 .. tried'
        BY <1>0, <2>2, <2>3 DEF Now
      <4> QED
        BY <2>1, <2>2, <3>1, <4>1 DEF TypeOK, Now
    <3>3. Budget'
      BY <1>0, <2>1, <2>2, <3>1 DEF Budget, One
    <3>4. NoLostSignal' /\ Starting' /\ Replacing' /\ Open'
      BY <2>1, <2>2, <3>1 DEF NoLostSignal, Starting, Replacing, Open
    <3>5. Fresh' /\ Counted' /\ Adopted'
      BY <2>1, <2>4, <3>1 DEF Fresh, Counted, Adopted
    <3> QED
      BY <3>2, <3>3, <3>4, <3>5
  <2> QED
    BY <2>5, <2>6
<1>2. ASSUME Refuse \/ ListenFails \/ Drain \/ Drained \/ CheckBalancer \/ Finish
      PROVE  PInv'
  <2>1. /\ file' = file /\ sent' = sent /\ hups' = hups /\ hup' = hup /\ reloader' = reloader
        /\ tried' = tried /\ cfg' = cfg /\ old' = old /\ bal' = bal /\ mine' = mine
        /\ made' = made /\ conf' = conf /\ done' = done /\ run' = run /\ wg' = wg
        /\ crashed' = crashed /\ quit' \in BOOLEAN
    BY <1>2 DEF Refuse, ListenFails, Drain, Drained, CheckBalancer, Finish, TypeOK
  <2>2. \/ main' \in {"refused", "killed", "exited"} /\ ~crashed
        \/ /\ Alive /\ main \notin {"close", "wait", "finish"}
           /\ main' \in {"draining", "check", "stop"} \/ (main' = "finish" /\ main = "check")
    <3>1. CASE Refuse
      BY <3>1 DEF Refuse, Starting
    <3>2. CASE ListenFails \/ Finish
      BY <3>2 DEF ListenFails, Finish, Alive
    <3>3. CASE Drain \/ Drained
      BY <3>3 DEF Drain, Drained
    <3>4. CASE CheckBalancer
      BY <3>4 DEF CheckBalancer
    <3> QED
      BY <1>2, <3>1, <3>2, <3>3, <3>4
  <2>3. TypeOK'
    <3>1. main' \in {"refused", "killed", "exited", "draining", "check", "stop", "finish"}
      BY <2>2
    <3> QED
      BY <2>1, <3>1 DEF TypeOK, Now, Stopping
  <2>4. Starting' /\ (Alive' => Alive /\ main \notin {"close", "wait", "finish"})
    BY <2>1, <2>2 DEF Starting, Alive, Stopping
  <2>5. Open' /\ NoLostSignal'
    BY <2>1, <2>4 DEF Open, NoLostSignal
  <2>6. Adopted'
    BY <2>1, <2>4 DEF Adopted
  <2>7. Budget' /\ Fresh' /\ Counted' /\ Replacing'
    BY <2>1 DEF Budget, Fresh, Counted, Replacing, Now
  <2> QED
    BY <2>3, <2>4, <2>5, <2>6, <2>7
<1>3. CASE ReadBalancer
  <2>1. /\ file' = file /\ sent' = sent /\ hups' = hups /\ hup' = hup /\ quit' = quit
        /\ reloader' = reloader /\ tried' = tried /\ cfg' = cfg /\ old' = old /\ bal' = bal
        /\ made' = made /\ conf' = conf /\ done' = done /\ run' = run /\ wg' = wg
        /\ mine' = bal /\ main' = "close" /\ main = "stop" /\ Alive
    BY <1>3 DEF ReadBalancer
  <2>2. crashed' \in BOOLEAN
    BY <1>3, Zenon DEF ReadBalancer
  <2>3. TypeOK' /\ Budget'
    BY <2>1, <2>2 DEF TypeOK, Budget, Now, Stopping
  <2>4. Replacing'
    BY <2>1 DEF Replacing, Now
  <2>5. Starting' /\ (Alive' => Alive)
    BY <2>1 DEF Starting, Alive, Stopping
  <2>6. Fresh' /\ Counted' /\ NoLostSignal' /\ Open'
    BY <2>1, <2>5 DEF Fresh, Counted, NoLostSignal, Open
  <2>7. Adopted'
    BY <2>1, <2>5 DEF Adopted
  <2> QED
    BY <2>3, <2>4, <2>5, <2>6, <2>7
<1>4. CASE CloseMine
  <2>1. /\ file' = file /\ sent' = sent /\ hups' = hups /\ hup' = hup /\ quit' = quit
        /\ reloader' = reloader /\ tried' = tried /\ cfg' = cfg /\ old' = old /\ bal' = bal
        /\ made' = made /\ conf' = conf /\ run' = run /\ wg' = wg
        /\ mine' = mine /\ main' = "wait" /\ main = "close" /\ Alive
    BY <1>4 DEF CloseMine
  <2>2. \/ crashed' = TRUE /\ done' = done
        \/ crashed' = crashed /\ done' = [done EXCEPT ![mine] = TRUE]
    BY <1>4 DEF CloseMine, Close
  <2>3. crashed' \in BOOLEAN
    BY <2>2, Zenon DEF TypeOK
  <2>4. done' \in [Gens -> BOOLEAN] /\ \A g \in Gens : g # mine => done'[g] = done[g]
    BY <2>2 DEF TypeOK
  <2>5. TypeOK' /\ Budget'
    BY <2>1, <2>3, <2>4 DEF TypeOK, Budget, Now, Stopping
  <2>6. Fresh'
    BY <1>0, <2>1, <2>4 DEF Fresh, Gens, TypeOK
  <2>7. Replacing'
    <3>1. reloader = "install" /\ Balanced(file[tried]) => ~done'[made]
      <4> SUFFICES ASSUME reloader = "install", Balanced(file[tried]) PROVE ~done'[made]
        OBVIOUS
      <4>1. made > old /\ made > mine /\ ~done[made]
        BY DEF Replacing
      <4>2. made \in Gens /\ made # mine
        BY <1>0, <4>1 DEF TypeOK, Gens
      <4> QED
        BY <2>4, <4>1, <4>2
    <3> QED
      BY <2>1, <3>1 DEF Replacing, Now
  <2>8. Starting' /\ (Alive' => Alive)
    BY <2>1 DEF Starting, Alive, Stopping
  <2>9. Counted' /\ NoLostSignal' /\ Open'
    BY <2>1, <2>8 DEF Counted, NoLostSignal, Open
  <2>10. Adopted'
    BY <2>1, <2>8 DEF Adopted
  <2> QED
    BY <2>5, <2>6, <2>7, <2>8, <2>9, <2>10
<1>5. CASE WaitMine
  <2>1. /\ file' = file /\ sent' = sent /\ hups' = hups /\ hup' = hup /\ quit' = quit
        /\ reloader' = reloader /\ tried' = tried /\ cfg' = cfg /\ old' = old /\ bal' = bal
        /\ made' = made /\ conf' = conf /\ run' = run /\ wg' = wg /\ done' = done
        /\ mine' = mine /\ main' = "finish" /\ main = "wait" /\ Alive /\ crashed' = crashed
    BY <1>5 DEF WaitMine
  <2>2. mine \in Gens => run[mine] = {}
    <3> SUFFICES ASSUME mine \in Gens PROVE run[mine] = {}
      OBVIOUS
    <3>1. IsFiniteSet(run[mine]) /\ Cardinality(run[mine]) <= 0
      BY <1>5 DEF WaitMine, Counted
    <3>2. Cardinality(run[mine]) = 0
      BY <3>1, FS_CardinalityType
    <3> QED
      BY <3>1, <3>2, FS_EmptySet
  <2>3. TypeOK' /\ Budget' /\ Fresh' /\ Counted' /\ Replacing'
    BY <2>1 DEF TypeOK, Budget, Fresh, Counted, Replacing, Now, Stopping
  <2>4. Starting' /\ NoLostSignal' /\ Open' /\ (Alive' => Alive)
    BY <2>1 DEF Starting, NoLostSignal, Open, Alive, Stopping
  <2>5. Adopted'
    BY <2>1, <2>2, <2>4 DEF Adopted
  <2> QED
    BY <2>3, <2>4, <2>5
<1> QED
  BY <1>1, <1>2, <1>3, <1>4, <1>5 DEF Main

\* One more element makes a set larger by at most one.
LEMMA AddOne ==
  ASSUME NEW S, NEW x, IsFiniteSet(S)
  PROVE  IsFiniteSet(S \cup {x}) /\ Cardinality(S \cup {x}) <= Cardinality(S) + 1
<1>1. Cardinality(S) \in Nat
  BY FS_CardinalityType
<1>2. /\ IsFiniteSet(S \cup {x})
      /\ Cardinality(S \cup {x}) = IF x \in S THEN Cardinality(S) ELSE Cardinality(S) + 1
  BY FS_AddElement
<1> QED
  BY <1>1, <1>2

\* The monitoring goroutines' steps.
LEMMA MonitorPInv ==
  ASSUME PInv, Monitor PROVE PInv'
<1> USE DEF PInv, signals, reload, balancers
<1>0. CASE \E g \in Gens, id \in IDs : TickerPanics(g, id)
  BY <1>0, PanicPInv DEF TickerPanics
<1> SUFFICES ASSUME ~\E g \in Gens, id \in IDs : TickerPanics(g, id) PROVE PInv'
  BY <1>0
<1>1. PICK g \in Gens, id \in IDs :
        BecomeScraper(g, id) \/ \E k \in Kinds : Leave(g, <<id, k>>)
  BY DEF Monitor
<1>2. IsFiniteSet(run[g]) /\ Cardinality(run[g]) \in Nat /\ Cardinality(run[g]) <= wg[g] /\ wg[g] \in Nat
  BY FS_CardinalityType DEF Counted, TypeOK
<1>3. /\ file' = file /\ sent' = sent /\ hups' = hups /\ hup' = hup /\ quit' = quit
      /\ reloader' = reloader /\ tried' = tried /\ cfg' = cfg /\ old' = old /\ bal' = bal
      /\ made' = made /\ conf' = conf /\ done' = done /\ mine' = mine /\ main' = main
      /\ crashed' = crashed
  BY <1>1 DEF BecomeScraper, Leave
<1>4. PICK R, n : /\ run' = [run EXCEPT ![g] = R] /\ wg' = [wg EXCEPT ![g] = n]
                  /\ R \in SUBSET (IDs \X Kinds) /\ n \in Nat /\ run[g] # {}
                  /\ IsFiniteSet(R) /\ Cardinality(R) <= n
  <2>1. CASE BecomeScraper(g, id)
    <3> DEFINE h == <<id, "health">>
               A == run[g] \ {h}
               B == A \cup {<<id, "leaving">>}
               R == B \cup {<<id, "scrape">>}
    <3>1. h \in run[g] /\ run' = [run EXCEPT ![g] = R] /\ wg' = [wg EXCEPT ![g] = wg[g] + 1]
      <4>1. R = (run[g] \ {<<id, "health">>}) \cup {<<id, "leaving">>, <<id, "scrape">>}
        OBVIOUS
      <4> QED
        BY <2>1, <4>1 DEF BecomeScraper
    <3>2. IsFiniteSet(A) /\ Cardinality(A) = Cardinality(run[g]) - 1
      BY <1>2, <3>1, FS_RemoveElement
    <3>3. IsFiniteSet(B) /\ Cardinality(B) <= Cardinality(A) + 1
      BY <3>2, AddOne
    <3>4. IsFiniteSet(R) /\ Cardinality(R) <= Cardinality(B) + 1
      BY <3>3, AddOne
    <3>5. Cardinality(A) \in Nat /\ Cardinality(B) \in Nat /\ Cardinality(R) \in Nat
      BY <3>2, <3>3, <3>4, FS_CardinalityType
    <3>6. Cardinality(R) <= wg[g] + 1 /\ wg[g] + 1 \in Nat
      <4> HIDE DEF A, B, R
      <4> QED
        BY <1>2, <3>2, <3>3, <3>4, <3>5
    <3>7. R \in SUBSET (IDs \X Kinds) /\ run[g] # {}
      BY <3>1 DEF TypeOK, Kinds
    <3> HIDE DEF R
    <3> QED
      BY <3>1, <3>4, <3>6, <3>7
  <2>2. CASE \E k \in Kinds : Leave(g, <<id, k>>)
    <3>1. PICK k \in Kinds : Leave(g, <<id, k>>)
      BY <2>2
    <3> DEFINE t == <<id, k>>
               R == run[g] \ {t}
    <3>2. t \in run[g] /\ run' = [run EXCEPT ![g] = R] /\ wg' = [wg EXCEPT ![g] = wg[g] - 1]
      BY <3>1 DEF Leave
    <3>3. IsFiniteSet(R) /\ Cardinality(R) = Cardinality(run[g]) - 1 /\ Cardinality(R) \in Nat
      BY <1>2, <3>2, FS_RemoveElement, FS_CardinalityType
    <3>4. R \in SUBSET (IDs \X Kinds) /\ run[g] # {}
      BY <3>2 DEF TypeOK
    <3> HIDE DEF R
    <3>5. wg[g] - 1 \in Nat /\ Cardinality(R) <= wg[g] - 1
      BY <1>2, <3>3
    <3> QED
      BY <3>2, <3>3, <3>4, <3>5
  <2> QED
    BY <1>1, <2>1, <2>2
<1>5. run' \in [Gens -> SUBSET (IDs \X Kinds)] /\ wg' \in [Gens -> Nat]
  BY <1>4 DEF TypeOK
<1>6. \A x \in Gens : IF x = g THEN run'[x] = R /\ wg'[x] = n /\ run[x] # {}
                               ELSE run'[x] = run[x] /\ wg'[x] = wg[x]
  BY <1>4 DEF TypeOK
<1>7. TypeOK' /\ Budget'
  BY <1>3, <1>5 DEF TypeOK, Budget, Now
<1>8. Counted'
  BY <1>4, <1>6 DEF Counted
<1>9. \A x \in Gens : run'[x] # {} => run[x] # {}
  BY <1>6
<1>10. Fresh' /\ Adopted'
  BY <1>3, <1>9 DEF Fresh, Adopted, Alive
<1>11. Starting' /\ Replacing' /\ Open' /\ NoLostSignal'
  BY <1>3 DEF Starting, Replacing, Open, NoLostSignal, Alive, Now
<1> QED
  BY <1>7, <1>8, <1>10, <1>11

\* PInv is an invariant.
LEMMA PInvAlways == Spec => []PInv
<1>1. PInv /\ [Next]_vars => PInv'
  <2> SUFFICES ASSUME PInv, [Next]_vars PROVE PInv'
    OBVIOUS
  <2>1. CASE UNCHANGED vars
    BY <2>1, Unmoved
  <2>2. CASE Next
    BY <2>2, OperatorPInv, ReloaderPInv, MainPInv, MonitorPInv DEF Next
  <2> QED
    BY <2>1, <2>2
<1> QED
  BY InitPInv, <1>1, PTL DEF Spec

\* Type correctness of main.go's process, for any file contents, edits, signals.
THEOREM TypeCorrect == Spec => []TypeOK
<1>1. PInv => TypeOK
  BY DEF PInv
<1> QED
  BY <1>1, PInvAlways, PTL

\* The SIGHUP channel of capacity one loses no request to reload: the last
\* signal is waiting, about to be answered by a Load, or already answered.
THEOREM NoLostSignalHolds == Spec => []NoLostSignal
<1>1. PInv => NoLostSignal
  BY DEF PInv
<1> QED
  BY <1>1, PInvAlways, PTL

\* Every balancer that still has goroutines is installed, about to be, or in a
\* Stop that has not returned, however many reloads there were.
THEOREM NoOrphansHolds == Spec => []NoOrphans
<1>1. PInv => NoOrphans
  BY DEF PInv, Adopted, NoOrphans
<1> QED
  BY <1>1, PInvAlways, PTL
-----------------------------------------------------------------------------
(* What ends the process.                                                  *)

\* A health check is doomed only in a balancer built from a file that asks for it.
DoomedIn(c, s) == \A id : <<id, "doomed">> \in s => Hasty(c)
Doomed == \A g \in Gens : run[g] # {} =>
    g <= made /\ conf[g] \in 1 .. Now /\ DoomedIn(file[conf[g]], run[g])

\* New starts a doomed health check only for a negative interval.
LEMMA MonitorsDoomed ==
  ASSUME NEW c, NEW s \in Monitors(c)
  PROVE  DoomedIn(c, s)
<1> DEFINE firsts == {f \in [BalancedIDs(c) -> DOMAIN c.groups] :
                        \A id \in BalancedIDs(c) : f[id] \in GroupsOf(c, id)}
<1>1. PICK f \in firsts, a \in firsts, up \in [BalancedIDs(c) -> BOOLEAN] :
        s = startMonitoring(c, f, up) \cup startAliveChecks(c, a) \cup startPassiveRecovery(c)
  BY DEF Monitors
<1> SUFFICES ASSUME NEW id, <<id, "doomed">> \in s PROVE Hasty(c)
  BY DEF DoomedIn
<1>2. <<id, "doomed">> \in startMonitoring(c, f, up)
  BY <1>1 DEF startAliveChecks, startPassiveRecovery
<1>3. /\ id \in BalancedIDs(c)
      /\ c.groups[f[id]].health /\ c.groups[f[id]].negative
  BY <1>2 DEF startMonitoring
<1>4. f[id] \in DOMAIN c.groups
  BY <1>3
<1> QED
  BY <1>3, <1>4 DEF Hasty

\* A balancer New has made adds no doomed goroutine but those of its file.
LEMMA NewDoomed ==
  ASSUME PInv, Doomed, NEW v \in 1 .. Now, made + 1 \in Gens, New(v), file' = file
  PROVE  Doomed'
<1>1. PICK started \in Monitors(file[v]) :
        /\ made' = made + 1
        /\ conf' = [conf EXCEPT ![made'] = v]
        /\ run' = [run EXCEPT ![made'] = started]
        /\ UNCHANGED done
  BY DEF New
<1>2. DoomedIn(file[v], started)
  BY <1>1, MonitorsDoomed
<1>3. made \in Nat /\ Now' = Now /\ Gens \subseteq Nat
  BY DEF PInv, TypeOK, Now, Gens
<1>4. ASSUME NEW g \in Gens, run'[g] # {}
      PROVE  g <= made' /\ conf'[g] \in 1 .. Now' /\ DoomedIn(file'[conf'[g]], run'[g])
  <2>1. CASE g = made + 1
    <3>1. conf'[g] = v /\ run'[g] = started
      BY <1>1, <2>1 DEF PInv, TypeOK
    <3> QED
      BY <1>1, <1>2, <1>3, <2>1, <3>1
  <2>2. CASE g # made + 1
    <3>1. conf'[g] = conf[g] /\ run'[g] = run[g]
      BY <1>1, <2>2 DEF PInv, TypeOK
    <3>2. g <= made /\ conf[g] \in 1 .. Now /\ DoomedIn(file[conf[g]], run[g])
      BY <1>4, <3>1 DEF Doomed
    <3> QED
      BY <1>1, <1>3, <3>1, <3>2
  <2> QED
    BY <2>1, <2>2
<1> QED
  BY <1>4 DEF Doomed

\* No goroutine becomes doomed after it was started.
LEMMA MonitorDoomed ==
  ASSUME PInv, Doomed, Monitor PROVE Doomed'
<1> USE DEF signals, reload, balancers
<1>1. PICK g \in Gens, id \in IDs :
        BecomeScraper(g, id) \/ TickerPanics(g, id) \/ \E k \in Kinds : Leave(g, <<id, k>>)
  BY DEF Monitor
<1>2. file' = file /\ made' = made /\ conf' = conf /\ Now' = Now
  BY <1>1 DEF BecomeScraper, Leave, TickerPanics, Now
<1>3. ASSUME NEW x \in Gens
      PROVE  /\ run'[x] # {} => run[x] # {}
             /\ \A i : <<i, "doomed">> \in run'[x] => <<i, "doomed">> \in run[x]
  <2>1. CASE BecomeScraper(g, id)
    <3>1. IF x = g THEN /\ run'[x] = (run[x] \ {<<id, "health">>}) \cup {<<id, "leaving">>, <<id, "scrape">>}
                        /\ run[x] # {}
                   ELSE run'[x] = run[x]
      BY <2>1 DEF BecomeScraper, PInv, TypeOK
    <3> QED
      BY <3>1
  <2>2. CASE \E k \in Kinds : Leave(g, <<id, k>>)
    <3>1. PICK k \in Kinds : Leave(g, <<id, k>>)
      BY <2>2
    <3>2. IF x = g THEN run'[x] = run[x] \ {<<id, k>>} ELSE run'[x] = run[x]
      BY <3>1 DEF Leave, PInv, TypeOK
    <3> QED
      BY <3>2
  <2>3. CASE TickerPanics(g, id)
    BY <2>3 DEF TickerPanics
  <2> QED
    BY <1>1, <2>1, <2>2, <2>3
<1> QED
  BY <1>2, <1>3 DEF Doomed, DoomedIn

\* Doomed is an invariant.
LEMMA DoomedAlways == Spec => []Doomed
<1>1. Init => Doomed
  BY DEF Init, Doomed
<1>2. PInv /\ Doomed /\ [Next]_vars => Doomed'
  <2> SUFFICES ASSUME PInv, Doomed, [Next]_vars PROVE Doomed'
    OBVIOUS
  <2> USE DEF signals, reload, balancers
  <2>0. /\ MaxHups \in Nat /\ Now \in Nat /\ made \in Nat
        /\ file \in Seq(Contents) /\ Gens \subseteq Nat
    BY ProcessAssumption DEF PInv, TypeOK, Now, Gens
  <2>1. CASE Edit
    <3>1. PICK c \in Contents : file' = Append(file, c)
      BY <2>1 DEF Edit
    <3>2. Now' = Now + 1 /\ \A i \in 1 .. Now : file'[i] = file[i] /\ i \in 1 .. Now'
      BY <2>0, <3>1 DEF Now
    <3>3. made' = made /\ conf' = conf /\ run' = run
      BY <2>1 DEF Edit
    <3> QED
      BY <3>2, <3>3 DEF Doomed
  <2>2. CASE Build
    <3>1. tried \in 1 .. Now /\ made + 1 \in Gens
      BY <2>0, <2>2 DEF Build, Step, PInv, Replacing, Budget, One, Gens, TypeOK
    <3> QED
      BY <2>2, <3>1, NewDoomed DEF Build
  <2>3. CASE Start /\ Balanced(file[1])
    <3>1. made = 0 /\ 1 \in 1 .. Now /\ made + 1 \in Gens
      BY <2>0, <2>3 DEF Start, PInv, Starting, Gens, TypeOK
    <3> QED
      BY <2>3, <3>1, NewDoomed DEF Start
  <2>4. CASE Monitor
    BY <2>4, MonitorDoomed
  <2>5. ASSUME UNCHANGED <<file, made, conf, run>> PROVE Doomed'
    BY <2>5 DEF Doomed, Now
  <2>6. CASE \/ Hup \/ Quit \/ EarlySignal \/ Refuse \/ ListenFails \/ UNCHANGED vars
             \/ Receive \/ Load \/ LoadDies \/ Store \/ Install \/ CloseOld \/ WaitOld \/ Probe
             \/ Start /\ ~Balanced(file[1])
             \/ Drain \/ Drained \/ CheckBalancer \/ ReadBalancer \/ CloseMine \/ WaitMine \/ Finish
    <3>1. UNCHANGED <<file, made, conf, run>>
      BY <2>6, Zenon
      DEF vars, Hup, Quit, EarlySignal, Refuse, ListenFails, Receive, Load, LoadDies, Store,
          Install, CloseOld, WaitOld, Probe, Start, Drain, Drained, CheckBalancer, ReadBalancer,
          CloseMine, WaitMine, Finish
    <3> QED
      BY <2>5, <3>1
  <2> QED
    BY <2>1, <2>2, <2>3, <2>4, <2>6 DEF Next, Reloader, Main
<1> QED
  BY <1>1, <1>2, PInvAlways, PTL DEF Spec

\* Whatever is reloaded and however often, Balancer.Stop closes done a second
\* time, or is called on nil, only when the shutdown has come to the balancer;
\* while the program serves, only a file without a document, as Load reads it, or
\* a negative interval in a file a balancer was built from can end it.
THEOREM CrashLawHolds == Spec => []CrashLaw
<1>1. Init => CrashLaw
  BY DEF Init, CrashLaw
<1>2. PInv /\ Doomed /\ CrashLaw /\ [Next]_vars => CrashLaw'
  <2> SUFFICES ASSUME PInv, Doomed, CrashLaw, [Next]_vars PROVE CrashLaw'
    OBVIOUS
  <2> USE DEF signals, reload, balancers, Step, Go
  <2>1. CASE UNCHANGED vars
    BY <2>1 DEF vars, CrashLaw, Now
  <2>2. ASSUME crashed' = crashed, ~crashed PROVE CrashLaw'
    BY <2>2 DEF CrashLaw
  <2>3. CASE Edit \/ Hup \/ Quit \/ EarlySignal \/ Refuse \/ ListenFails \/ Start
             \/ Receive \/ Load \/ Store \/ Build \/ Install \/ WaitOld \/ Probe
             \/ Drain \/ Drained \/ CheckBalancer \/ WaitMine \/ Finish
    <3>1. crashed' = crashed
      BY <2>3, Zenon
      DEF Edit, Hup, Quit, EarlySignal, Refuse, ListenFails, Start, Receive, Load, Store,
          Build, Install, WaitOld, Probe, Drain, Drained, CheckBalancer, WaitMine, Finish
    <3>2. Alive \/ main = "starting"
      BY <2>3, Zenon
      DEF Edit, Hup, Quit, EarlySignal, Refuse, ListenFails, Start, Receive, Load, Store,
          Build, Install, WaitOld, Probe, Drain, Drained, CheckBalancer, WaitMine, Finish
    <3>3. ~crashed
      BY <3>2 DEF Alive, PInv, Starting
    <3> QED
      BY <2>2, <3>1, <3>3
  <2>4. CASE LoadDies
    BY <2>4 DEF LoadDies, CrashLaw, Now
  <2>5. CASE Monitor
    <3>1. PICK g \in Gens, id \in IDs :
            BecomeScraper(g, id) \/ TickerPanics(g, id) \/ \E k \in Kinds : Leave(g, <<id, k>>)
      BY <2>5 DEF Monitor
    <3>2. CASE TickerPanics(g, id)
      <4>1. <<id, "doomed">> \in run[g] /\ UNCHANGED <<file, made, conf>>
        BY <3>2 DEF TickerPanics
      <4>2. g <= made /\ Hasty(file[conf[g]])
        BY <4>1 DEF Doomed, DoomedIn
      <4>3. g \in 1 .. made
        BY <4>2 DEF Gens, PInv, TypeOK
      <4> QED
        BY <4>1, <4>2, <4>3 DEF CrashLaw
    <3>3. CASE BecomeScraper(g, id) \/ \E k \in Kinds : Leave(g, <<id, k>>)
      BY <2>2, <3>3 DEF BecomeScraper, Leave, Alive
    <3> QED
      BY <3>1, <3>2, <3>3
  <2>6. CASE CloseOld
    <3>1. old \in Gens /\ old # None
      BY <2>6, ProcessAssumption DEF CloseOld, PInv, Replacing, TypeOK, Gens, None
    <3>2. CASE done[old]
      BY <2>6, <3>1, <3>2 DEF CloseOld, PInv, Open, CrashLaw, Stopping
    <3>3. CASE ~done[old]
      BY <2>2, <2>6, <3>3 DEF CloseOld, Close, Alive
    <3> QED
      BY <3>2, <3>3
  <2>7. CASE ReadBalancer \/ CloseMine
    BY <2>7 DEF ReadBalancer, CloseMine, CrashLaw, Stopping
  <2> QED
    BY <2>1, <2>3, <2>4, <2>5, <2>6, <2>7 DEF Next, Reloader, Main
<1> QED
  BY <1>1, <1>2, PInvAlways, DoomedAlways, PTL DEF Spec
-----------------------------------------------------------------------------
(* Every backend of a balancer that is not stopped is watched.             *)

\* A set of goroutines that leaves no backend of the file alone.
Guarded(c, s) == \A id \in BalancedIDs(c) : Uniform(c, id) =>
    \E k \in Kinds \ {"leaving", "doomed"} : <<id, k>> \in s

\* Watched, of every balancer there is and not only of the installed one: the
\* one under construction has to have its goroutines when it is installed.
WInv == \A g \in Gens : g <= made /\ ~done[g] =>
            conf[g] \in 1 .. Now /\ Guarded(file[conf[g]], run[g])

\* New leaves no backend alone, in whatever order the groups are met and
\* whichever metrics answer.
LEMMA MonitorsGuard ==
  ASSUME NEW c, NEW s \in Monitors(c)
  PROVE  Guarded(c, s)
<1> DEFINE firsts == {f \in [BalancedIDs(c) -> DOMAIN c.groups] :
                        \A id \in BalancedIDs(c) : f[id] \in GroupsOf(c, id)}
<1>1. PICK f \in firsts, a \in firsts, up \in [BalancedIDs(c) -> BOOLEAN] :
        s = startMonitoring(c, f, up) \cup startAliveChecks(c, a) \cup startPassiveRecovery(c)
  BY DEF Monitors
<1> SUFFICES ASSUME NEW id \in BalancedIDs(c), Uniform(c, id)
             PROVE  \E k \in Kinds \ {"leaving", "doomed"} : <<id, k>> \in s
  BY DEF Guarded
<1>2. f[id] \in GroupsOf(c, id) /\ a[id] \in GroupsOf(c, id)
  OBVIOUS
<1>3. CASE Scrapes(c, id) /\ up[id]
  <2>1. <<id, "scrape">> \in startMonitoring(c, f, up)
    BY <1>3 DEF startMonitoring
  <2> QED
    BY <1>1, <2>1 DEF Kinds
<1>4. CASE ~(Scrapes(c, id) /\ up[id]) /\ c.groups[f[id]].health
  <2>1. <<id, "health">> \in startMonitoring(c, f, up)
    BY <1>2, <1>4 DEF startMonitoring, Uniform
  <2> QED
    BY <1>1, <2>1 DEF Kinds
<1>5. CASE c.groups[a[id]].alive
  <2>1. <<id, "alive">> \in startAliveChecks(c, a)
    BY <1>5 DEF startAliveChecks
  <2> QED
    BY <1>1, <2>1 DEF Kinds
<1>6. CASE ~c.groups[f[id]].health /\ ~c.groups[a[id]].alive
  <2>1. \A g \in GroupsOf(c, id) : ~c.groups[g].health /\ ~c.groups[g].alive
    BY <1>2, <1>6 DEF Uniform
  <2>2. <<id, "passive">> \in startPassiveRecovery(c)
    BY <2>1 DEF startPassiveRecovery
  <2> QED
    BY <1>1, <2>2 DEF Kinds
<1> QED
  BY <1>3, <1>4, <1>5, <1>6

\* A balancer New has made is watched; the others are as they were.
LEMMA NewWInv ==
  ASSUME PInv, WInv, NEW v \in 1 .. Now, made + 1 \in Gens, New(v), file' = file
  PROVE  WInv'
<1>1. PICK started \in Monitors(file[v]) :
        /\ made' = made + 1
        /\ conf' = [conf EXCEPT ![made'] = v]
        /\ run' = [run EXCEPT ![made'] = started]
        /\ UNCHANGED done
  BY DEF New
<1>2. Guarded(file[v], started)
  BY <1>1, MonitorsGuard
<1>3. made \in Nat /\ Now' = Now /\ Gens \subseteq Nat
  BY DEF PInv, TypeOK, Now, Gens
<1>4. ASSUME NEW g \in Gens, g <= made', ~done'[g]
      PROVE  conf'[g] \in 1 .. Now' /\ Guarded(file'[conf'[g]], run'[g])
  <2>1. CASE g = made + 1
    <3>1. conf'[g] = v /\ run'[g] = started
      BY <1>1, <2>1 DEF PInv, TypeOK
    <3> QED
      BY <1>2, <1>3, <3>1
  <2>2. CASE g # made + 1
    <3>1. conf'[g] = conf[g] /\ run'[g] = run[g] /\ done[g] = done'[g] /\ g <= made
      BY <1>1, <1>3, <1>4, <2>2 DEF PInv, TypeOK
    <3> QED
      BY <1>3, <1>4, <3>1 DEF WInv
  <2> QED
    BY <2>1, <2>2
<1> QED
  BY <1>4 DEF WInv

\* A goroutine leaves a balancer that is not stopped only for its successor.
LEMMA MonitorWInv ==
  ASSUME PInv, WInv, Monitor PROVE WInv'
<1>0. CASE \E g \in Gens, id \in IDs : TickerPanics(g, id)
  BY <1>0 DEF TickerPanics, WInv, Now, signals, reload, balancers
<1> SUFFICES ASSUME ~\E g \in Gens, id \in IDs : TickerPanics(g, id) PROVE WInv'
  BY <1>0
<1>1. PICK g \in Gens, id \in IDs :
        BecomeScraper(g, id) \/ \E k \in Kinds : Leave(g, <<id, k>>)
  BY DEF Monitor
<1>2. file' = file /\ made' = made /\ conf' = conf /\ done' = done /\ Now' = Now
  BY <1>1 DEF BecomeScraper, Leave, Now
<1>3. ASSUME NEW x \in Gens, x <= made, ~done[x]
      PROVE  Guarded(file[conf[x]], run'[x])
  <2>1. Guarded(file[conf[x]], run[x])
    BY <1>3 DEF WInv
  <2>2. ASSUME NEW i, NEW k \in Kinds \ {"leaving", "doomed"}, <<i, k>> \in run[x]
        PROVE  \E l \in Kinds \ {"leaving", "doomed"} : <<i, l>> \in run'[x]
    <3>1. CASE x # g
      <4>1. run'[x] = run[x]
        BY <1>1, <3>1 DEF BecomeScraper, Leave, PInv, TypeOK
      <4> QED
        BY <2>2, <4>1
    <3>2. CASE x = g /\ BecomeScraper(g, id)
      <4>1. run'[g] = (run[g] \ {<<id, "health">>}) \cup {<<id, "leaving">>, <<id, "scrape">>}
        BY <3>2 DEF BecomeScraper, PInv, TypeOK
      <4>2. CASE <<i, k>> = <<id, "health">>
        BY <3>2, <4>1, <4>2 DEF Kinds
      <4>3. CASE <<i, k>> # <<id, "health">>
        BY <2>2, <3>2, <4>1, <4>3
      <4> QED
        BY <4>2, <4>3
    <3>3. CASE x = g /\ \E q \in Kinds : Leave(g, <<id, q>>)
      <4>1. PICK q \in Kinds : Leave(g, <<id, q>>)
        BY <3>3
      <4>2. run'[g] = run[g] \ {<<id, q>>} /\ q = "leaving"
        BY <1>3, <3>3, <4>1 DEF Leave, PInv, TypeOK
      <4>3. <<i, k>> # <<id, q>>
        BY <4>2
      <4> QED
        BY <2>2, <3>3, <4>2, <4>3
    <3> QED
      BY <1>1, <3>1, <3>2, <3>3
  <2> QED
    BY <2>1, <2>2 DEF Guarded
<1> QED
  BY <1>2, <1>3 DEF WInv

\* WInv is an invariant: it speaks of versions of the file, which an edit adds
\* to and never changes, and of balancers that closing only takes out.
LEMMA WInvAlways == Spec => []WInv
<1>1. Init => WInv
  BY DEF Init, WInv, Gens
<1>2. PInv /\ WInv /\ [Next]_vars => WInv'
  <2> SUFFICES ASSUME PInv, WInv, [Next]_vars PROVE WInv'
    OBVIOUS
  <2> USE DEF signals, reload, balancers
  <2>0. /\ MaxHups \in Nat /\ Now \in Nat /\ made \in Nat /\ done \in [Gens -> BOOLEAN]
        /\ file \in Seq(Contents) /\ Gens \subseteq Nat
    BY ProcessAssumption DEF PInv, TypeOK, Now, Gens
  <2>1. CASE Edit
    <3>1. PICK c \in Contents : file' = Append(file, c)
      BY <2>1 DEF Edit
    <3>2. Now' = Now + 1 /\ \A i \in 1 .. Now : file'[i] = file[i] /\ i \in 1 .. Now'
      BY <2>0, <3>1 DEF Now
    <3>3. made' = made /\ conf' = conf /\ done' = done /\ run' = run
      BY <2>1 DEF Edit
    <3> QED
      BY <3>2, <3>3 DEF WInv
  <2>2. CASE Build
    <3>1. tried \in 1 .. Now /\ made + 1 \in Gens
      BY <2>0, <2>2 DEF Build, Step, PInv, Replacing, Budget, One, Gens, TypeOK
    <3> QED
      BY <2>2, <3>1, NewWInv DEF Build
  <2>3. CASE Start /\ Balanced(file[1])
    <3>1. made = 0 /\ 1 \in 1 .. Now /\ made + 1 \in Gens
      BY <2>0, <2>3 DEF Start, PInv, Starting, Gens, TypeOK
    <3> QED
      BY <2>3, <3>1, NewWInv DEF Start
  <2>4. CASE Monitor
    BY <2>4, MonitorWInv
  <2>5. CASE CloseOld \/ CloseMine
    <3>1. file' = file /\ made' = made /\ conf' = conf /\ run' = run /\ Now' = Now
      BY <2>5 DEF CloseOld, CloseMine, Now
    <3>2. PICK g : Close(g)
      BY <2>5 DEF CloseOld, CloseMine
    <3>3. \A x \in Gens : ~done'[x] => ~done[x]
      BY <2>0, <3>2 DEF Close
    <3> QED
      BY <3>1, <3>3 DEF WInv
  <2>6. ASSUME UNCHANGED <<file, made, conf, done, run>> PROVE WInv'
    BY <2>6 DEF WInv, Now
  <2>7. CASE \/ Hup \/ Quit \/ EarlySignal \/ Refuse \/ ListenFails \/ UNCHANGED vars
             \/ Receive \/ Load \/ LoadDies \/ Store \/ Install \/ WaitOld \/ Probe
             \/ Start /\ ~Balanced(file[1])
             \/ Drain \/ Drained \/ CheckBalancer \/ ReadBalancer \/ WaitMine \/ Finish
    <3>1. UNCHANGED <<file, made, conf, done, run>>
      BY <2>7, Zenon
      DEF vars, Hup, Quit, EarlySignal, Refuse, ListenFails, Receive, Load, LoadDies, Store, Install,
          WaitOld, Probe, Start, Drain, Drained, CheckBalancer, ReadBalancer, WaitMine, Finish
    <3> QED
      BY <2>6, <3>1
  <2> QED
    BY <2>1, <2>2, <2>3, <2>4, <2>5, <2>7 DEF Next, Reloader, Main
<1> QED
  BY <1>1, <1>2, PInvAlways, PTL DEF Spec

\* Every backend of the installed balancer whose groups agree on the probes has a
\* goroutine that can bring it back, for all files, through every reload and
\* while a health check hands over to a scraper.
THEOREM WatchedHolds == Spec => []Watched
<1>1. PInv /\ WInv => Watched
  <2> SUFFICES ASSUME PInv, WInv, bal # None, ~done[bal] PROVE Guarded(file[conf[bal]], run[bal])
    BY DEF Watched, Guarded
  <2>1. bal \in Gens /\ bal <= made
    BY ProcessAssumption DEF PInv, TypeOK, Gens, None
  <2> QED
    BY <2>1 DEF WInv
<1> QED
  BY <1>1, PInvAlways, WInvAlways, PTL
-----------------------------------------------------------------------------
(* What is installed: what Applied rests on besides fairness.              *)

\* The installed balancer is the one of the installed configuration.
Matched == IF Balanced(file[cfg]) THEN bal # None /\ conf[bal] = cfg ELSE bal = None

\* Whatever is edited and signalled while a reload runs, a refused file is never
\* installed, and when the reloader rests with no signal waiting, what is
\* installed is the file as it was at the last signal or a later one, with the
\* balancer that belongs to it; or that file was refused and nothing has changed.
UpToDate ==
    Alive => /\ Accepted(file[cfg])
             /\ reloader = "idle" /\ ~hup => Settled(sent)

\* How far the reload has come, step by step.
InstallInv ==
    Alive =>
      /\ cfg \in 1 .. Now /\ tried \in 1 .. Now /\ Accepted(file[cfg])
      /\ reloader \notin {"build", "install"} => Matched
      /\ reloader \in {"build", "install", "close", "wait"} => cfg = tried
      /\ reloader \in {"idle", "load", "probe"} => cfg = tried \/ ~Accepted(file[tried])
      /\ reloader = "store" => Accepted(file[tried])
      /\ reloader = "install" /\ Balanced(file[tried]) => conf[made] = tried

\* The reloader's own steps.
LEMMA ReloaderInstall ==
  ASSUME PInv, InstallInv, Reloader PROVE InstallInv'
<1> USE DEF signals, reload, balancers, Step
<1>0. /\ Alive /\ file' = file /\ Now' = Now /\ Now \in Nat \ {0}
      /\ cfg \in 1 .. Now /\ tried \in 1 .. Now /\ Accepted(file[cfg])
      /\ Now \in 1 .. Now
  <2>1. Alive /\ file' = file
    BY DEF Reloader, Receive, Load, LoadDies, Store, Build, Install, CloseOld, WaitOld, Probe
  <2>2. Now \in Nat \ {0}
    BY ProcessAssumption DEF PInv, TypeOK
  <2> QED
    BY <2>1, <2>2 DEF InstallInv, Now
<1>1. CASE Receive
  BY <1>0, <1>1 DEF Receive, InstallInv, Matched
<1>2. CASE Load
  <2>1. /\ tried' = Now /\ UNCHANGED <<cfg, bal, conf, made>> /\ reloader = "load"
        /\ reloader' = IF Accepted(file[Now]) THEN "store" ELSE "probe"
    BY <1>2 DEF Load
  <2>2. Matched'
    BY <1>0, <2>1 DEF InstallInv, Matched
  <2> QED
    BY <1>0, <2>1, <2>2 DEF InstallInv
<1>3. CASE Store
  <2>1. /\ cfg' = tried /\ UNCHANGED <<tried, bal, conf, made>> /\ reloader = "store"
        /\ reloader' = CASE Balanced(file[tried]) -> "build"
                         [] ~Balanced(file[tried]) /\ bal # None -> "install"
                         [] OTHER -> "probe"
    BY <1>3 DEF Store
  <2>2. CASE Balanced(file[tried])
    BY <1>0, <2>1, <2>2 DEF InstallInv
  <2>3. CASE ~Balanced(file[tried])
    <3>1. IF bal # None THEN reloader' = "install" ELSE reloader' = "probe"
      BY <2>1, <2>3
    <3>2. bal = None => Matched'
      BY <1>0, <2>1, <2>3 DEF Matched
    <3> QED
      BY <1>0, <2>1, <2>3, <3>1, <3>2 DEF InstallInv
  <2> QED
    BY <2>2, <2>3
<1>4. CASE Build
  <2>1. /\ made' = made + 1 /\ conf' = [conf EXCEPT ![made'] = tried]
        /\ UNCHANGED <<tried, cfg, bal>> /\ reloader = "build" /\ reloader' = "install"
    BY <1>4 DEF Build, New
  <2>2. made + 1 \in Gens
    BY <1>4, ProcessAssumption DEF Build, PInv, Replacing, Budget, One, Gens, TypeOK
  <2>3. conf'[made'] = tried
    BY <2>1, <2>2 DEF PInv, TypeOK
  <2> QED
    BY <1>0, <2>1, <2>3 DEF InstallInv
<1>5. CASE Install
  <2>1. /\ bal' = IF Balanced(file[tried]) THEN made ELSE None
        /\ UNCHANGED <<tried, cfg, conf, made>> /\ reloader = "install"
        /\ reloader' = IF old # None THEN "close" ELSE "probe"
    BY <1>5 DEF Install
  <2>2. Balanced(file[tried]) => made # None
    <3>1. Balanced(file[tried]) => made > old
      BY <2>1 DEF PInv, Replacing
    <3>2. old \in Nat /\ made \in Nat
      BY ProcessAssumption DEF PInv, TypeOK
    <3> QED
      BY <3>1, <3>2 DEF None
  <2>3. Matched'
    BY <1>0, <2>1, <2>2 DEF InstallInv, Matched
  <2> QED
    BY <1>0, <2>1, <2>3 DEF InstallInv
<1>6. CASE CloseOld \/ WaitOld \/ Probe \/ LoadDies
  BY <1>0, <1>6 DEF LoadDies, CloseOld, WaitOld, Probe, InstallInv, Matched
<1> QED
  BY <1>1, <1>2, <1>3, <1>4, <1>5, <1>6 DEF Reloader

\* The program starts with its first file and that file's balancer.
LEMMA StartInstall ==
  ASSUME PInv, Start PROVE InstallInv'
<1> USE DEF signals, reload, balancers
<1>1. /\ file' = file /\ cfg' = 1 /\ tried' = 1 /\ reloader' = "idle" /\ Accepted(file[1])
      /\ made = 0 /\ bal = None
  BY DEF Start, PInv, Starting
<1>2. 1 \in 1 .. Now' /\ 1 \in Gens
  BY <1>1, ProcessAssumption DEF PInv, TypeOK, Gens, Now
<1>3. Matched'
  <2>1. CASE Balanced(file[1])
    <3>1. made' = made + 1 /\ conf' = [conf EXCEPT ![made'] = 1] /\ bal' = 1
      BY <2>1 DEF Start, New
    <3>2. conf'[1] = 1
      BY <1>1, <1>2, <3>1 DEF PInv, TypeOK
    <3> QED
      BY <1>1, <2>1, <3>1, <3>2 DEF Matched, None
  <2>2. CASE ~Balanced(file[1])
    BY <1>1, <2>2 DEF Start, Matched
  <2> QED
    BY <2>1, <2>2
<1> QED
  BY <1>1, <1>2, <1>3 DEF InstallInv

\* An edit changes no content the file has had.
LEMMA EditInstall ==
  ASSUME PInv, InstallInv, Edit PROVE InstallInv'
<1>1. PICK c \in Contents : file' = Append(file, c)
  BY DEF Edit
<1>2. /\ Now \in Nat /\ Now' = Now + 1
      /\ \A i \in 1 .. Now : file'[i] = file[i] /\ i \in 1 .. Now'
  BY <1>1 DEF PInv, TypeOK, Now
<1>3. /\ Alive /\ Alive' = Alive
      /\ UNCHANGED <<reloader, tried, cfg, bal, conf, made>>
  BY DEF Edit, Alive, reload, balancers
<1>4. cfg \in 1 .. Now /\ tried \in 1 .. Now
  BY <1>3 DEF InstallInv
<1>5. file'[cfg'] = file[cfg] /\ file'[tried'] = file[tried] /\ cfg' \in 1 .. Now' /\ tried' \in 1 .. Now'
  BY <1>2, <1>3, <1>4
<1>6. Matched' = Matched
  BY <1>3, <1>5 DEF Matched
<1> QED
  BY <1>3, <1>5, <1>6 DEF InstallInv

\* The program never serves a file it refused, and a reloader at rest has brought
\* the program up to the last signal, through any number of edits and signals that
\* fall into the reloads (main.go, Server.Reload).
THEOREM UpToDateHolds == Spec => []UpToDate
<1>1. Init => InstallInv
  BY DEF Init, InstallInv, Alive, Stopping
<1>2. PInv /\ InstallInv /\ [Next]_vars => InstallInv'
  <2> SUFFICES ASSUME PInv, InstallInv, [Next]_vars PROVE InstallInv'
    OBVIOUS
  <2>1. CASE Reloader
    BY <2>1, ReloaderInstall
  <2>2. CASE Start
    BY <2>2, StartInstall
  <2>3. CASE Edit
    BY <2>3, EditInstall
  <2>4. CASE \/ Hup \/ Quit \/ EarlySignal \/ Refuse \/ ListenFails \/ UNCHANGED vars
             \/ Drain \/ Drained \/ CheckBalancer \/ ReadBalancer \/ CloseMine \/ WaitMine
             \/ Finish \/ Monitor
    <3>1. UNCHANGED <<file, reloader, tried, cfg, bal, conf, made>>
      BY <2>4 DEF vars, signals, reload, balancers, Hup, Quit, EarlySignal, Refuse, ListenFails,
         Drain, Drained, CheckBalancer, ReadBalancer, CloseMine, WaitMine, Finish, Monitor,
         BecomeScraper, TickerPanics, Leave
    <3>2. Alive' => Alive
      BY <2>4 DEF vars, signals, reload, balancers, Hup, Quit, EarlySignal, Refuse, ListenFails,
         Drain, Drained, CheckBalancer, ReadBalancer, CloseMine, WaitMine, Finish, Monitor,
         BecomeScraper, TickerPanics, Leave, Go, Alive, Stopping
    <3> QED
      BY <3>1, <3>2 DEF InstallInv, Matched, Now
  <2> QED
    BY <2>1, <2>2, <2>3, <2>4 DEF Next, Main
<1>3. PInv /\ InstallInv => UpToDate
  <2> SUFFICES ASSUME PInv, InstallInv, Alive
               PROVE  /\ Accepted(file[cfg])
                      /\ reloader = "idle" /\ ~hup => Settled(sent)
    BY DEF UpToDate
  <2>1. reloader = "idle" /\ ~hup => tried >= sent
    <3>1. sent \in Int /\ tried \in Int
      BY DEF PInv, TypeOK
    <3> QED
      BY <3>1 DEF PInv, NoLostSignal
  <2> QED
    BY <2>1 DEF InstallInv, Settled, Matched
<1> QED
  BY <1>1, <1>2, <1>3, PInvAlways, PTL DEF Spec
-----------------------------------------------------------------------------
(* The WaitGroup counts neither too many goroutines nor too few.           *)

\* A backend whose health check runs has no scraper and no health check that
\* is about to return: what runHealthCheck starts is not there yet.
OneWatch(s) == \A id : <<id, "health">> \in s =>
    <<id, "leaving">> \notin s /\ <<id, "scrape">> \notin s

\* The WaitGroup of every balancer is the number of its goroutines, so that
\* Wait of Stop returns when the last one has left, neither earlier nor never,
\* and Done never finds it at zero.
WaitExact == \A g \in Gens : wg[g] = Cardinality(run[g])

EInv == WaitExact /\ \A g \in Gens : OneWatch(run[g])

\* New starts the health check or the scraper of a backend, not both.
LEMMA MonitorsOneWatch ==
  ASSUME NEW c, NEW s \in Monitors(c)
  PROVE  OneWatch(s)
<1> DEFINE firsts == {f \in [BalancedIDs(c) -> DOMAIN c.groups] :
                        \A id \in BalancedIDs(c) : f[id] \in GroupsOf(c, id)}
<1>1. PICK f \in firsts, a \in firsts, up \in [BalancedIDs(c) -> BOOLEAN] :
        s = startMonitoring(c, f, up) \cup startAliveChecks(c, a) \cup startPassiveRecovery(c)
  BY DEF Monitors
<1> HIDE DEF firsts
<1>2. \A id : <<id, "health">> \in s => <<id, "health">> \in startMonitoring(c, f, up)
  BY <1>1 DEF startAliveChecks, startPassiveRecovery
<1>3. \A id : <<id, "scrape">> \in s => <<id, "scrape">> \in startMonitoring(c, f, up)
  BY <1>1 DEF startAliveChecks, startPassiveRecovery
<1>4. \A id : <<id, "leaving">> \notin s
  BY <1>1 DEF startMonitoring, startAliveChecks, startPassiveRecovery
<1>5. \A id : ~(/\ <<id, "health">> \in startMonitoring(c, f, up)
                /\ <<id, "scrape">> \in startMonitoring(c, f, up))
  BY DEF startMonitoring
<1> QED
  BY <1>2, <1>3, <1>4, <1>5 DEF OneWatch

\* New counts what it starts.
LEMMA NewEInv ==
  ASSUME PInv, EInv, NEW v, made + 1 \in Gens, New(v)
  PROVE  EInv'
<1>1. PICK started \in Monitors(file[v]) :
        /\ made' = made + 1
        /\ run' = [run EXCEPT ![made'] = started]
        /\ wg' = [wg EXCEPT ![made'] = Cardinality(started)]
  BY DEF New
<1>2. OneWatch(started)
  BY <1>1, MonitorsOneWatch
<1>3. \A g \in Gens : IF g = made + 1 THEN run'[g] = started /\ wg'[g] = Cardinality(started)
                                       ELSE run'[g] = run[g] /\ wg'[g] = wg[g]
  BY <1>1 DEF PInv, TypeOK
<1>4. WaitExact'
  BY <1>3 DEF EInv, WaitExact
<1>5. \A g \in Gens : OneWatch(run'[g])
  BY <1>2, <1>3 DEF EInv
<1> QED
  BY <1>4, <1>5 DEF EInv

\* A goroutine that leaves is counted off once, and the scraper a health check
\* starts is counted before it is left alone.
LEMMA MonitorEInv ==
  ASSUME PInv, EInv, Monitor PROVE EInv'
<1>0. CASE \E g \in Gens, id \in IDs : TickerPanics(g, id)
  BY <1>0 DEF TickerPanics, EInv, WaitExact, signals, reload, balancers
<1> SUFFICES ASSUME ~\E g \in Gens, id \in IDs : TickerPanics(g, id) PROVE EInv'
  BY <1>0
<1>1. PICK g \in Gens, id \in IDs :
        BecomeScraper(g, id) \/ \E k \in Kinds : Leave(g, <<id, k>>)
  BY DEF Monitor
<1>2. IsFiniteSet(run[g]) /\ Cardinality(run[g]) \in Nat /\ wg[g] = Cardinality(run[g])
      /\ OneWatch(run[g])
  BY FS_CardinalityType DEF PInv, Counted, EInv, WaitExact
<1>3. PICK R, n : /\ run' = [run EXCEPT ![g] = R] /\ wg' = [wg EXCEPT ![g] = n]
                  /\ n = Cardinality(R) /\ OneWatch(R)
  <2>1. CASE BecomeScraper(g, id)
    <3> DEFINE h == <<id, "health">>
               A == run[g] \ {h}
               B == A \cup {<<id, "leaving">>}
               R == B \cup {<<id, "scrape">>}
    <3>1. h \in run[g] /\ run' = [run EXCEPT ![g] = R] /\ wg' = [wg EXCEPT ![g] = wg[g] + 1]
      <4>1. R = (run[g] \ {<<id, "health">>}) \cup {<<id, "leaving">>, <<id, "scrape">>}
        OBVIOUS
      <4> QED
        BY <2>1, <4>1 DEF BecomeScraper
    <3>2. <<id, "leaving">> \notin A /\ <<id, "scrape">> \notin B
      BY <1>2, <3>1 DEF OneWatch
    <3>3. IsFiniteSet(A) /\ Cardinality(A) = Cardinality(run[g]) - 1
      BY <1>2, <3>1, FS_RemoveElement
    <3>4. IsFiniteSet(B) /\ Cardinality(B) = Cardinality(A) + 1
      <4> HIDE DEF A
      <4> QED
        BY <3>2, <3>3, FS_AddElement
    <3>5. Cardinality(R) = Cardinality(B) + 1
      <4> HIDE DEF B
      <4> QED
        BY <3>2, <3>4, FS_AddElement
    <3>6. Cardinality(R) = wg[g] + 1
      <4> HIDE DEF A, B, R
      <4> QED
        BY <1>2, <3>3, <3>4, <3>5
    <3>7. OneWatch(R)
      <4> SUFFICES ASSUME NEW i, <<i, "health">> \in R
                   PROVE  <<i, "leaving">> \notin R /\ <<i, "scrape">> \notin R
        BY DEF OneWatch
      <4>1. <<i, "health">> \in run[g] /\ i # id
        OBVIOUS
      <4>2. <<i, "leaving">> \notin run[g] /\ <<i, "scrape">> \notin run[g]
        BY <1>2, <4>1 DEF OneWatch
      <4> QED
        BY <4>1, <4>2
    <3> HIDE DEF R
    <3> QED
      BY <3>1, <3>6, <3>7
  <2>2. CASE \E k \in Kinds : Leave(g, <<id, k>>)
    <3>1. PICK k \in Kinds : Leave(g, <<id, k>>)
      BY <2>2
    <3> DEFINE t == <<id, k>>
               R == run[g] \ {t}
    <3>2. t \in run[g] /\ run' = [run EXCEPT ![g] = R] /\ wg' = [wg EXCEPT ![g] = wg[g] - 1]
      BY <3>1 DEF Leave
    <3>3. Cardinality(R) = Cardinality(run[g]) - 1
      BY <1>2, <3>2, FS_RemoveElement
    <3>4. OneWatch(R)
      BY <1>2 DEF OneWatch
    <3> HIDE DEF R
    <3>5. wg[g] - 1 = Cardinality(R)
      BY <1>2, <3>3
    <3> QED
      BY <3>2, <3>4, <3>5
  <2> QED
    BY <1>1, <2>1, <2>2
<1>4. \A x \in Gens : IF x = g THEN run'[x] = R /\ wg'[x] = n
                               ELSE run'[x] = run[x] /\ wg'[x] = wg[x]
  BY <1>3 DEF PInv, TypeOK
<1>5. WaitExact'
  BY <1>3, <1>4 DEF EInv, WaitExact
<1>6. \A x \in Gens : OneWatch(run'[x])
  BY <1>3, <1>4 DEF EInv
<1> QED
  BY <1>5, <1>6 DEF EInv

\* Stop of a replaced or last balancer waits for its goroutines and for nothing
\* else, through every reload and every hand-over of a health check to a
\* scraper: the WaitGroup is exact.  Wait is what a shutdown can hang in; that
\* it ends (ShutdownEnds) needs this and the fairness of the loops.
THEOREM WaitExactHolds == Spec => []WaitExact
<1>1. Init => EInv
  <2> SUFFICES ASSUME Init PROVE EInv
    OBVIOUS
  <2>1. \A g \in Gens : run[g] = {} /\ wg[g] = 0
    BY DEF Init
  <2>2. WaitExact
    BY <2>1, FS_EmptySet DEF WaitExact
  <2>3. \A g \in Gens : OneWatch(run[g])
    BY <2>1 DEF OneWatch
  <2> QED
    BY <2>2, <2>3 DEF EInv
<1>2. PInv /\ EInv /\ [Next]_vars => EInv'
  <2> SUFFICES ASSUME PInv, EInv, [Next]_vars PROVE EInv'
    OBVIOUS
  <2> USE DEF signals, reload, balancers
  <2>1. CASE Build
    <3>1. made + 1 \in Gens
      <4>1. MaxHups \in Nat /\ made \in Nat
        BY ProcessAssumption DEF PInv, TypeOK
      <4> QED
        BY <2>1, <4>1 DEF Build, Step, PInv, Budget, One, Gens, TypeOK
    <3> QED
      BY <2>1, <3>1, NewEInv DEF Build
  <2>2. CASE Start /\ Balanced(file[1])
    <3>1. made + 1 \in Gens
      BY <2>2, ProcessAssumption DEF Start, PInv, Starting, Gens, TypeOK
    <3> QED
      BY <2>2, <3>1, NewEInv DEF Start
  <2>3. CASE Monitor
    BY <2>3, MonitorEInv
  <2>4. ASSUME UNCHANGED <<run, wg>> PROVE EInv'
    BY <2>4 DEF EInv, WaitExact
  <2>5. CASE \/ Edit \/ Hup \/ Quit \/ EarlySignal \/ Refuse \/ ListenFails
             \/ UNCHANGED vars
             \/ Receive \/ Load \/ LoadDies \/ Store \/ Install \/ CloseOld \/ WaitOld \/ Probe
             \/ Start /\ ~Balanced(file[1])
             \/ Drain \/ Drained \/ CheckBalancer \/ ReadBalancer \/ CloseMine
             \/ WaitMine \/ Finish
    <3>1. UNCHANGED <<run, wg>>
      BY <2>5, Zenon
      DEF vars, Edit, Hup, Quit, EarlySignal, Refuse, ListenFails, Receive, Load, LoadDies, Store,
          Install, CloseOld, WaitOld, Probe, Start, Drain, Drained, CheckBalancer,
          ReadBalancer, CloseMine, WaitMine, Finish
    <3> QED
      BY <2>4, <3>1
  <2> QED
    BY <2>1, <2>2, <2>3, <2>5 DEF Next, Reloader, Main
<1> QED
  BY <1>1, <1>2, PInvAlways, PTL DEF Spec, EInv

-----------------------------------------------------------------------------
(* Routing: what a file that is accepted and sound says is what is done.   *)

\* A set of natural numbers has a least one.
LEMMA Least ==
  ASSUME NEW S \in SUBSET Nat, S # {}
  PROVE  SetExt!Min(S) \in S
<1> DEFINE R == {s \in Nat \X Nat : s[1] < s[2]}
<1>1. IsWellFoundedOn(R, Nat)
  BY NatLessThanWellFounded DEF OpToRel
<1>2. PICK x \in S : \A y \in S : ~(<<y, x>> \in R)
  <2> HIDE DEF R
  <2> QED
    BY <1>1, WFMin
<1>3. ASSUME NEW y \in S PROVE x =< y
  <2>1. x \in Nat /\ y \in Nat /\ (<<y, x>> \in R <=> y < x)
    OBVIOUS
  <2>2. ~(<<y, x>> \in R)
    BY <1>2
  <2> HIDE DEF R
  <2> QED
    BY <2>1, <2>2
<1> QED
  BY <1>3 DEF SetExt!Min

\* validateRoutes leaves at most one route to a model.
LEMMA OneRoute ==
  ASSUME NEW c, Accepted(c), NEW m, NEW r \in Route(c, m)
  PROVE  /\ Route(c, m) = {r} /\ r.model = m
         /\ \E i \in DOMAIN c.routes : r = c.routes[i]
<1>1. \A i, j \in DOMAIN c.routes : c.routes[i].model = c.routes[j].model => i = j
  BY DEF Accepted, Loads, validate, validateRoutes
<1> QED
  BY <1>1 DEF Route

\* In a sound file an id is that of one entry, which Backend finds.
LEMMA OneEntry ==
  ASSUME NEW c, WellFormed(c), Sound(c), NEW i \in DOMAIN c.backends
  PROVE  /\ i \in Nat \ {0}
         /\ \A j \in DOMAIN c.backends : c.backends[j].id = c.backends[i].id => j = i
         /\ Backend(c, c.backends[i].id) = i
<1> DEFINE bs == c.backends
           f == [k \in DOMAIN bs |-> bs[k].id]
<1>1. DOMAIN bs = 1 .. Len(bs) /\ Len(bs) \in Nat
  BY DEF WellFormed
<1>2. IsFiniteSet(DOMAIN bs) /\ Cardinality(DOMAIN bs) = Len(bs)
  BY <1>1, FS_Interval
<1>3. f \in Surjection(DOMAIN bs, BackendIDs(c))
  BY DEF BackendIDs, Surjection
<1>4. Cardinality(BackendIDs(c)) = Len(bs)
  BY DEF Sound
<1>5. f \in Injection(DOMAIN bs, BackendIDs(c))
  BY <1>2, <1>3, <1>4, FS_Surjection
<1>6. \A j \in DOMAIN bs : bs[j].id = bs[i].id => j = i
  BY <1>5 DEF Injection, IsInjective
<1>7. i \in Nat \ {0}
  BY <1>1
<1>8. {j \in DOMAIN bs : bs[j].id = bs[i].id} = {i}
  BY <1>6
<1>9. Backend(c, bs[i].id) = SetExt!Max({0} \cup {i})
  BY <1>8 DEF Backend
<1>10. SetExt!Max({0} \cup {i}) = i
  <2>1. \A x \in {0} \cup {i} : (\A y \in {0} \cup {i} : x >= y) <=> x = i
    BY <1>7
  <2> QED
    BY <2>1 DEF SetExt!Max
<1> QED
  BY <1>6, <1>7, <1>9, <1>10

\* A route that is not automatic is forwarded to entries it names, and to one at
\* least.
LEMMA ForwardedNamed ==
  ASSUME NEW c, WellFormed(c), Accepted(c), Sound(c), NEW q \in DOMAIN c.routes, ~c.routes[q].auto
  PROVE  LET r == c.routes[q] IN
         /\ Resolvable(c, r)
         /\ Forwarded(c, r) # {}
         /\ Forwarded(c, r) \subseteq Named(c, r)
         /\ 0 \notin Forwarded(c, r)
<1> DEFINE r == c.routes[q]
           bs == c.backends
<1>1. \A i \in DOMAIN bs : i \in Nat \ {0} /\ Backend(c, bs[i].id) = i
  BY OneEntry
<1>2. Named(c, r) \subseteq DOMAIN bs /\ 0 \notin Named(c, r)
  BY <1>1 DEF Named
<1>3. CASE r.group = ""
  <2>1. r.backend \in BackendIDs(c)
    BY <1>3 DEF Accepted, Loads, validate, validateRoutes
  <2>2. PICK i \in DOMAIN bs : bs[i].id = r.backend
    BY <2>1 DEF BackendIDs
  <2>3. Backend(c, r.backend) = i /\ i # 0
    BY <1>1, <2>2
  <2>4. Forwarded(c, r) = {i}
    BY <1>3, <2>3 DEF Forwarded
  <2>5. i \in Named(c, r)
    BY <1>3, <2>2 DEF Named
  <2>6. Resolvable(c, r)
    BY <1>3, <2>3 DEF Resolvable
  <2> QED
    BY <2>3, <2>4, <2>5, <2>6
<1>4. CASE r.group # ""
  <2> DEFINE G == GroupBackends(c, r.group)
  <2>1. G # {} /\ (Balanced(c) => r.group \in DOMAIN c.groups)
    BY <1>4 DEF Sound
  <2>2. G = Named(c, r)
    BY <1>4 DEF GroupBackends, Named
  <2>3. Resolvable(c, r)
    BY <1>4, <2>1 DEF Resolvable
  <2>4. CASE Balanced(c)
    <3>1. Forwarded(c, r) = {Backend(c, bs[i].id) : i \in G}
      BY <1>4, <2>1, <2>4 DEF Forwarded
    <3>2. {Backend(c, bs[i].id) : i \in G} = G
      BY <1>1, <1>2, <2>2
    <3> QED
      BY <1>2, <2>1, <2>2, <2>3, <3>1, <3>2
  <2>5. CASE ~Balanced(c)
    <3>1. Forwarded(c, r) = {SetExt!Min(G)}
      BY <1>4, <2>5 DEF Forwarded
    <3>2. G \in SUBSET Nat
      BY <1>1, <1>2, <2>2
    <3>3. SetExt!Min(G) \in G
      <4> HIDE DEF G
      <4> QED
        BY <2>1, <3>2, Least
    <3> QED
      BY <1>2, <2>2, <2>3, <3>1, <3>3
  <2> QED
    BY <2>4, <2>5
<1> QED
  BY <1>3, <1>4

\* A model with a route: the router follows it, once if it is automatic.
LEMMA RoutedServes ==
  ASSUME NEW c, WellFormed(c), Accepted(c), Sound(c), NEW m, NEW vision \in BOOLEAN,
         NEW r \in Route(c, m)
  PROVE  LET n == IF ~r.auto THEN m ELSE IF vision THEN r.vision ELSE r.text IN
         /\ Fates(c, m, vision) # {}
         /\ \E e \in Route(c, n) :
              ~e.auto /\ Fates(c, m, vision) \subseteq {[entry |-> k] : k \in Named(c, e)}
<1> DEFINE n == IF ~r.auto THEN m ELSE IF vision THEN r.vision ELSE r.text
           F == Fates(c, m, vision)
<1>1. Route(c, m) = {r} /\ \E i \in DOMAIN c.routes : r = c.routes[i]
  BY OneRoute
<1>2. PICK e \in Route(c, n) : ~e.auto
  <2>1. CASE ~r.auto
    BY <2>1
  <2>2. CASE r.auto
    <3>1. \A t \in {r.text, r.vision} : \E d \in Route(c, t) : ~d.auto
      BY <1>1, <2>2 DEF Sound
    <3> QED
      BY <2>2, <3>1
  <2> QED
    BY <2>1, <2>2
<1>3. Route(c, n) = {e} /\ \E i \in DOMAIN c.routes : e = c.routes[i]
  BY OneRoute
<1>4. Target(c, m, vision) = {e}
  <2>1. CASE ~r.auto
    <3>1. e = r
      BY <1>1, <2>1
    <3>2. {a \in Route(c, m) : a.auto} = {} /\ {a \in Route(c, m) : ~a.auto} = {r}
      BY <1>1, <2>1
    <3> QED
      BY <3>1, <3>2 DEF Target
  <2>2. CASE r.auto
    <3>1. {a \in Route(c, m) : a.auto} = {r} /\ {a \in Route(c, m) : ~a.auto} = {}
      BY <1>1, <2>2
    <3>2. n = IF vision THEN r.vision ELSE r.text
      BY <2>2
    <3>3. {t \in Route(c, IF vision THEN r.vision ELSE r.text) : ~t.auto} = {e}
      BY <1>2, <1>3, <3>2
    <3> QED
      BY <3>1, <3>3 DEF Target
  <2> QED
    BY <2>1, <2>2
<1>5. /\ Resolvable(c, e) /\ Forwarded(c, e) # {} /\ 0 \notin Forwarded(c, e)
      /\ Forwarded(c, e) \subseteq Named(c, e)
  BY <1>2, <1>3, ForwardedNamed
<1>6. resolve(c, m, vision) = {e}
  BY <1>4, <1>5 DEF resolve
<1>7. F = {IF i = 0 THEN [panic |-> TRUE] ELSE [entry |-> i] : i \in Forwarded(c, e)}
  <2>1. UNION {Forwarded(c, a) : a \in {e}} = Forwarded(c, e)
    OBVIOUS
  <2> QED
    BY <1>6, <2>1 DEF Fates
<1>8. F = {[entry |-> i] : i \in Forwarded(c, e)}
  BY <1>5, <1>7
<1>9. F # {} /\ F \subseteq {[entry |-> k] : k \in Named(c, e)}
  BY <1>5, <1>8
<1> QED
  BY <1>2, <1>9

\* A model without a route: the default backend, or a refusal.
LEMMA UnroutedServes ==
  ASSUME NEW c, WellFormed(c), Accepted(c), NEW m, NEW vision \in BOOLEAN, Route(c, m) = {}
  PROVE  /\ Fates(c, m, vision) # {}
         /\ \A f \in Fates(c, m, vision) : Unrouted(c, f)
<1> DEFINE bs == c.backends
           marked == {i \in DOMAIN bs : bs[i].def}
           d == DefaultBackend(c)
<1>1. resolve(c, m, vision) = {}
  BY DEF resolve, Target
<1>2. \/ ~c.passthrough /\ Fates(c, m, vision) = {[status |-> 404]}
      \/ c.passthrough /\ d = 0 /\ Fates(c, m, vision) = {[status |-> 503]}
      \/ c.passthrough /\ d # 0 /\ Fates(c, m, vision) = {[entry |-> d]}
  BY <1>1 DEF Fates
<1>3. DOMAIN bs = 1 .. Len(bs) /\ Len(bs) \in Nat /\ (bs = <<>> <=> Len(bs) = 0)
  BY DEF WellFormed
<1>4. CASE marked # {}
  <2>1. marked \in SUBSET Nat /\ 0 \notin marked
    BY <1>3
  <2>2. d = SetExt!Min(marked)
    BY <1>4 DEF DefaultBackend
  <2>3. d \in marked
    <3> HIDE DEF marked, d
    <3> QED
      BY <1>4, <2>1, <2>2, Least
  <2>4. d # 0 /\ d \in DOMAIN bs /\ bs[d].def
    BY <2>1, <2>3
  <2>5. CASE c.passthrough /\ Fates(c, m, vision) = {[entry |-> d]}
    <3>1. Unrouted(c, [entry |-> d])
      BY <2>4, <2>5 DEF Unrouted
    <3> QED
      BY <2>5, <3>1
  <2>6. CASE ~c.passthrough /\ Fates(c, m, vision) = {[status |-> 404]}
    BY <2>6 DEF Unrouted
  <2> QED
    BY <1>2, <2>4, <2>5, <2>6
<1>5. CASE marked = {} /\ bs # <<>>
  <2>1. d = 1 /\ 1 \in DOMAIN bs
    BY <1>3, <1>5 DEF DefaultBackend
  <2>2. \A j \in DOMAIN bs : ~bs[j].def
    BY <1>5
  <2>3. CASE c.passthrough /\ Fates(c, m, vision) = {[entry |-> d]}
    <3>1. Unrouted(c, [entry |-> d])
      BY <2>1, <2>2, <2>3 DEF Unrouted
    <3> QED
      BY <2>3, <3>1
  <2>4. CASE ~c.passthrough /\ Fates(c, m, vision) = {[status |-> 404]}
    BY <2>4 DEF Unrouted
  <2> QED
    BY <1>2, <2>1, <2>3, <2>4
<1>6. CASE marked = {} /\ bs = <<>>
  <2>1. d = 0
    BY <1>6 DEF DefaultBackend
  <2>2. CASE c.passthrough /\ Fates(c, m, vision) = {[status |-> 503]}
    <3>1. Unrouted(c, [status |-> 503])
      BY <1>6, <2>2 DEF Unrouted
    <3> QED
      BY <2>2, <3>1
  <2>3. CASE ~c.passthrough /\ Fates(c, m, vision) = {[status |-> 404]}
    BY <2>3 DEF Unrouted
  <2> QED
    BY <1>2, <2>1, <2>2, <2>3
<1> QED
  BY <1>4, <1>5, <1>6

\* Router.resolve and the handler send every request where the file says, for
\* every file the operator may write and every model asked for: validation and
\* what Sound adds to it are enough that no handler meets a missing backend.
THEOREM ServableHolds == Spec => []Servable
<1>1. ASSUME NEW c \in Family, NEW m \in Models, NEW vision \in BOOLEAN, Accepted(c), Sound(c)
      PROVE  Serves(c, m, vision)
  <2>1. WellFormed(c)
    BY ProcessAssumption
  <2>2. CASE Route(c, m) = {}
    BY <1>1, <2>1, <2>2, UnroutedServes DEF Serves
  <2>3. CASE Route(c, m) # {}
    <3>1. Fates(c, m, vision) # {}
      BY <1>1, <2>1, <2>3, RoutedServes
    <3>2. \A r \in Route(c, m) :
            \E e \in Route(c, IF ~r.auto THEN m ELSE IF vision THEN r.vision ELSE r.text) :
              ~e.auto /\ Fates(c, m, vision) \subseteq {[entry |-> k] : k \in Named(c, e)}
      BY <1>1, <2>1, RoutedServes
    <3> QED
      BY <2>3, <3>1, <3>2 DEF Serves
  <2> QED
    BY <2>2, <2>3
<1>2. Servable
  BY <1>1 DEF Servable
<1> QED
  BY <1>2, PTL
=============================================================================
