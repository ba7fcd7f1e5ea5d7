-------------------------------- MODULE Process --------------------------------
(***************************************************************************)
(* The running program (cmd/hikyaku/main.go): start, the goroutine that    *)
(* reloads the configuration on SIGHUP (Server.Reload), and the shutdown   *)
(* on SIGINT or SIGTERM, with the balancers they create and stop and the   *)
(* monitoring goroutines those run (Balancer.New and Stop).                *)
(*                                                                         *)
(* The operator edits the file and sends signals at any moment.  The file  *)
(* is the sequence of its contents so far; a configuration is named by its *)
(* position there and a balancer by the order of creation.  The reload's   *)
(* stores of router, configuration and semaphores are one step here;       *)
(* RequestLifecycle interleaves them with the requests.                    *)
(***************************************************************************)
EXTENDS Configuration

CONSTANTS
    Contents,  \* contents the file may have
    Family,    \* files whose routing is looked at
    Models,    \* models that requests ask for
    MaxEdits,  \* bound: edits of the file
    MaxHups    \* bound: signals sent, so balancers are at most 1 + MaxHups

ASSUME ProcessAssumption ==
    /\ MaxEdits \in Nat /\ MaxHups \in Nat
    /\ \A c \in Contents \cup Family : WellFormed(c)

VARIABLES
    file,     \* the contents the file has had, the last one is there now
    sent,     \* version of the file at the last SIGHUP, 0 before the first
    hups,     \* signals sent
    hup,      \* the channel hup (capacity one) holds a signal
    quit,     \* so does quit
    main,     \* where the main goroutine is
    reloader, \* where the reloading goroutine is
    tried,    \* version its last Load read
    cfg,      \* version installed in s.cfg
    bal,      \* s.balancer, None for nil
    made,     \* balancers created
    old,      \* the balancer Reload is replacing
    mine,     \* the balancer main is stopping
    conf,     \* conf[g]: version balancer g was built from
    done,     \* done[g]: its channel is closed
    run,      \* run[g]: its goroutines, <<id, kind>>
    wg,       \* wg[g]: its WaitGroup
    crashed   \* a panic outside the request handlers ended the process

signals   == <<sent, hups, hup, quit>>
balancers == <<made, conf, done, run, wg>>
reload    == <<reloader, tried, cfg, old>>
vars      == <<file, signals, main, reload, bal, mine, balancers, crashed>>

None == 0
Gens == 1 .. MaxHups + 1
Now  == Len(file)

Stopping == {"check", "stop", "close", "wait", "finish"}
Alive == main \in {"serving", "draining"} \cup Stopping /\ ~crashed

Init ==
    /\ file \in {<<c>> : c \in Contents}
    /\ sent = 0 /\ hups = 0 /\ hup = FALSE /\ quit = FALSE
    /\ main = "starting"
    /\ reloader = "idle" /\ tried = 0 /\ cfg = 0
    /\ bal = None /\ old = None /\ mine = None
    /\ made = 0
    /\ conf = [g \in Gens |-> 0]
    /\ done = [g \in Gens |-> FALSE]
    /\ run = [g \in Gens |-> {}]
    /\ wg = [g \in Gens |-> 0]
    /\ crashed = FALSE
-----------------------------------------------------------------------------
(* The operator.                                                           *)

Edit ==
    /\ Alive /\ Now <= MaxEdits
    /\ \E c \in Contents : file' = Append(file, c)
    /\ UNCHANGED <<signals, main, reload, bal, mine, balancers, crashed>>

\* A signal that finds the channel full is dropped.
Hup ==
    /\ Alive /\ hups < MaxHups
    /\ hups' = hups + 1
    /\ sent' = Now
    /\ hup' = TRUE
    /\ UNCHANGED <<file, quit, main, reload, bal, mine, balancers, crashed>>

Quit ==
    /\ Alive /\ ~quit /\ main = "serving"
    /\ quit' = TRUE
    /\ UNCHANGED <<file, sent, hups, hup, main, reload, bal, mine, balancers, crashed>>

\* Until signal.Notify is called a signal ends the process.
EarlySignal ==
    /\ main = "starting"
    /\ main' = "killed"
    /\ UNCHANGED <<file, signals, reload, bal, mine, balancers, crashed>>
-----------------------------------------------------------------------------
(* Balancers.                                                              *)

\* New: the goroutines are counted before they start.
New(v) ==
    \E started \in Monitors(file[v]) :
        /\ made' = made + 1
        /\ conf' = [conf EXCEPT ![made'] = v]
        /\ run' = [run EXCEPT ![made'] = started]
        /\ wg' = [wg EXCEPT ![made'] = Cardinality(started)]
        /\ UNCHANGED done

\* Mutated form: the new goroutine is not added to the WaitGroup.
BecomeScraperUncounted(g, id) ==
    /\ Alive
    /\ <<id, "health">> \in run[g] /\ Scrapes(file[conf[g]], id)
    /\ run' = [run EXCEPT ![g] = (@ \ {<<id, "health">>}) \cup {<<id, "leaving">>, <<id, "scrape">>}]
    /\ UNCHANGED <<file, signals, main, reload, bal, mine, made, conf, done, wg, crashed>>

\* runHealthCheck: the metrics answer at last; a scraper is started and the
\* goroutine leaves.  The select may choose this with done closed.
BecomeScraper(g, id) ==
    /\ Alive
    /\ <<id, "health">> \in run[g] /\ Scrapes(file[conf[g]], id)
    /\ run' = [run EXCEPT ![g] = (@ \ {<<id, "health">>}) \cup {<<id, "leaving">>, <<id, "scrape">>}]
    /\ wg' = [wg EXCEPT ![g] = @ + 1]
    /\ UNCHANGED <<file, signals, main, reload, bal, mine, made, conf, done, crashed>>

\* Mutated form: the passive recovery loop does not wait for done.
LeaveNotPassive(g, t) ==
    /\ Alive
    /\ t \in run[g] /\ t[2] \notin {"passive", "doomed"}
    /\ done[g] \/ t[2] = "leaving"
    /\ run' = [run EXCEPT ![g] = @ \ {t}]
    /\ wg' = [wg EXCEPT ![g] = @ - 1]
    /\ UNCHANGED <<file, signals, main, reload, bal, mine, made, conf, done, crashed>>

\* The loops return once done is closed; a doomed health check has none.
Leave(g, t) ==
    /\ Alive
    /\ t \in run[g] /\ t[2] # "doomed" /\ (done[g] \/ t[2] = "leaving")
    /\ run' = [run EXCEPT ![g] = @ \ {t}]
    /\ wg' = [wg EXCEPT ![g] = @ - 1]
    /\ UNCHANGED <<file, signals, main, reload, bal, mine, made, conf, done, crashed>>

\* runHealthCheck: the ticker cannot have a negative interval.
TickerPanics(g, id) ==
    /\ Alive
    /\ <<id, "doomed">> \in run[g]
    /\ crashed' = TRUE
    /\ UNCHANGED <<file, signals, main, reload, bal, mine, balancers>>

\* close(b.done) of Stop: a second close panics.
Close(g) ==
    IF done[g] THEN crashed' = TRUE /\ UNCHANGED done
               ELSE done' = [done EXCEPT ![g] = TRUE] /\ UNCHANGED crashed
-----------------------------------------------------------------------------
(* The reloading goroutine.                                                *)

Step(from, to) == Alive /\ reloader = from /\ reloader' = to

Receive ==
    /\ Step("idle", "load") /\ hup
    /\ hup' = FALSE
    /\ UNCHANGED <<file, sent, hups, quit, main, tried, cfg, old, bal, mine,
                   balancers, crashed>>

\* Load and ValidateListenPolicy; a file that fails keeps the old configuration.
Load ==
    /\ ~LoadPanics(file[Now])
    /\ Step("load", IF Accepted(file[Now]) THEN "store" ELSE "probe")
    /\ tried' = Now
    /\ UNCHANGED <<file, signals, main, cfg, old, bal, mine, balancers, crashed>>

\* Nothing recovers a panic of the reloading goroutine.
LoadDies ==
    /\ Alive /\ reloader = "load" /\ LoadPanics(file[Now])
    /\ crashed' = TRUE
    /\ UNCHANGED <<file, signals, main, reload, bal, mine, balancers>>

\* Reload stores router, configuration, semaphores, capture, loop detector and
\* looks at the balancer.
Store ==
    /\ Step("store", CASE Balanced(file[tried]) -> "build"
                       [] ~Balanced(file[tried]) /\ bal # None -> "install"
                       [] OTHER -> "probe")
    /\ cfg' = tried
    /\ old' = bal
    /\ UNCHANGED <<file, signals, main, tried, bal, mine, balancers, crashed>>

Build ==
    /\ Step("build", "install")
    /\ New(tried)
    /\ UNCHANGED <<file, signals, main, tried, cfg, old, bal, mine, crashed>>

\* Mutated form: a nil balancer is not stored, the stopped one stays.
InstallNotNil ==
    /\ Step("install", IF old # None THEN "close" ELSE "probe")
    /\ bal' = IF Balanced(file[tried]) THEN made ELSE bal
    /\ UNCHANGED <<file, signals, main, tried, cfg, old, mine, balancers, crashed>>

Install ==
    /\ Step("install", IF old # None THEN "close" ELSE "probe")
    /\ bal' = IF Balanced(file[tried]) THEN made ELSE None
    /\ UNCHANGED <<file, signals, main, tried, cfg, old, mine, balancers, crashed>>

CloseOld ==
    /\ Step("close", "wait")
    /\ Close(old)
    /\ UNCHANGED <<file, signals, main, tried, cfg, old, bal, mine, made, conf, run, wg>>

WaitOld ==
    /\ Step("wait", "probe")
    /\ wg[old] = 0
    /\ UNCHANGED <<file, signals, main, tried, cfg, old, bal, mine, balancers, crashed>>

\* Mutated form: signals that came during the reload are discarded.
ProbeDrains ==
    /\ Step("probe", "idle")
    /\ hup' = FALSE
    /\ UNCHANGED <<file, sent, hups, quit, main, tried, cfg, old, bal, mine, balancers,
                   crashed>>

\* probeBackends: every backend is asked once, with a timeout, and logged.
Probe ==
    /\ Step("probe", "idle")
    /\ UNCHANGED <<file, signals, main, tried, cfg, old, bal, mine, balancers, crashed>>

Reloader == \/ Receive \/ Load \/ LoadDies \/ Store \/ Build \/ Install
            \/ CloseOld \/ WaitOld \/ Probe
-----------------------------------------------------------------------------
(* The main goroutine.                                                     *)

\* Load, probes, proxy.New and the registration of the signals.
Start ==
    /\ main = "starting" /\ Accepted(file[1])
    /\ main' = "serving"
    /\ cfg' = 1 /\ tried' = 1
    /\ IF Balanced(file[1]) THEN New(1) /\ bal' = 1
                            ELSE UNCHANGED <<balancers, bal>>
    /\ UNCHANGED <<file, signals, reloader, old, mine, crashed>>

\* log.Fatalf: the file is refused, or telemetry or the journal is not to be had;
\* or Load panics.
Refuse ==
    /\ main = "starting"
    /\ main' = "refused"
    /\ UNCHANGED <<file, signals, reload, bal, mine, balancers, crashed>>

Go(from, to) == Alive /\ main = from /\ main' = to

\* A listener cannot be opened or breaks: its goroutine calls log.Fatalf.
ListenFails ==
    /\ Go("serving", "killed")
    /\ UNCHANGED <<file, signals, reload, bal, mine, balancers, crashed>>

Drain ==
    /\ Go("serving", "draining") /\ quit
    /\ quit' = FALSE
    /\ UNCHANGED <<file, sent, hups, hup, reload, bal, mine, balancers, crashed>>

\* proxyServer.Shutdown returns, at the latest when its context expires.
Drained ==
    /\ Go("draining", "check")
    /\ UNCHANGED <<file, signals, reload, bal, mine, balancers, crashed>>

CheckBalancer ==
    /\ Go("check", IF bal # None THEN "stop" ELSE "finish")
    /\ UNCHANGED <<file, signals, reload, bal, mine, balancers, crashed>>

\* The second call of Balancer(); Stop of nil panics.
ReadBalancer ==
    /\ Go("stop", "close")
    /\ mine' = bal
    /\ crashed' = (bal = None)
    /\ UNCHANGED <<file, signals, reload, bal, balancers>>

CloseMine ==
    /\ Go("close", "wait")
    /\ Close(mine)
    /\ UNCHANGED <<file, signals, reload, bal, mine, made, conf, run, wg>>

WaitMine ==
    /\ Go("wait", "finish")
    /\ wg[mine] = 0
    /\ UNCHANGED <<file, signals, reload, bal, mine, balancers, crashed>>

\* Metrics server and journal are shut down; main returns.
Finish ==
    /\ Go("finish", "exited")
    /\ UNCHANGED <<file, signals, reload, bal, mine, balancers, crashed>>

Main == Start \/ Drain \/ Drained \/ CheckBalancer \/ ReadBalancer
        \/ CloseMine \/ WaitMine \/ Finish
-----------------------------------------------------------------------------
IDs == UNION {BackendIDs(c) : c \in Contents}
Kinds == {"scrape", "health", "alive", "passive", "leaving", "doomed"}

Monitor == \E g \in Gens, id \in IDs :
             \/ BecomeScraper(g, id) \/ TickerPanics(g, id)
             \/ \E k \in Kinds : Leave(g, <<id, k>>)

Next == Edit \/ Hup \/ Quit \/ EarlySignal \/ Refuse \/ ListenFails \/ Reloader \/ Main \/ Monitor

\* The scheduler runs every goroutine, every call they wait in has a timeout,
\* so has the probe before a ticker, and a select does not pass over the closed
\* done channel for ever.
Fairness ==
    /\ WF_vars(Reloader) /\ WF_vars(Main)
    /\ \A g \in Gens, id \in IDs : WF_vars(TickerPanics(g, id))
    /\ \A g \in Gens, id \in IDs, k \in Kinds : WF_vars(Leave(g, <<id, k>>))

Spec == Init /\ [][Next]_vars /\ Fairness
-----------------------------------------------------------------------------
\* Type correctness of the process's state.
TypeOK ==
    /\ file \in Seq(Contents) /\ Now \in 1 .. MaxEdits + 1
    /\ sent \in 0 .. Now /\ hups \in 0 .. MaxHups
    /\ hup \in BOOLEAN /\ quit \in BOOLEAN /\ crashed \in BOOLEAN
    /\ main \in {"starting", "refused", "killed", "serving", "draining", "exited"}
                  \cup Stopping
    /\ reloader \in {"idle", "load", "store", "build", "install", "close", "wait",
                     "probe"}
    /\ tried \in 0 .. Now /\ cfg \in 0 .. tried
    /\ made \in 0 .. MaxHups + 1
    /\ {bal, old, mine} \subseteq 0 .. made
    /\ conf \in [Gens -> 0 .. Now]
    /\ done \in [Gens -> BOOLEAN]
    /\ run \in [Gens -> SUBSET (IDs \X Kinds)]
    /\ wg \in [Gens -> Nat]

\* A SIGHUP is never lost although the channel holds one signal and drops the
\* rest: while the last one sent is newer than the file the reloader has read,
\* a signal is waiting or the reloader is about to read.
NoLostSignal == Alive /\ sent > tried => hup \/ reloader = "load"

\* Server.Reload and main stop every balancer they replace, with all of its
\* goroutines: one that still runs belongs to the installed balancer, to the
\* one being built, or to one whose Stop has not returned.
NoOrphans ==
    Alive => \A g \in Gens : run[g] # {} =>
        \/ g = bal
        \/ g = made /\ reloader = "install"
        \/ g = old /\ reloader \in {"close", "wait"}
        \/ g = mine /\ main \in {"close", "wait"}

\* The health checks of file c may be doomed.
Hasty(c) == \E g \in DOMAIN c.groups : c.groups[g].health /\ c.groups[g].negative

\* However often it is reloaded, the program ends with a panic (done closed
\* twice, Stop of a nil balancer) only after the shutdown has come to the
\* balancer: reloads alone stop every balancer once.  Two kinds of files end it
\* while it serves: one without a YAML document, at the moment Load reads it, and
\* one with a negative health check interval, once a balancer was built from it.
CrashLaw == crashed =>
    \/ main \in Stopping \ {"check"}
    \/ reloader = "load" /\ LoadPanics(file[Now])
    \/ \E g \in 1 .. made : Hasty(file[conf[g]])

\* A backend of the installed balancer always has a goroutine that can bring it
\* back into the pool (BackendHealth!Recovers rests on that), also while its
\* health check turns into a scraper.  Exempt is an id listed in groups whose
\* probe settings differ: startMonitoring and startAliveChecks use the group met
\* first and startPassiveRecovery any group, so it may have none.  Exempt is also
\* one whose health check is doomed.
Uniform(c, id) == \A g, h \in GroupsOf(c, id) :
    /\ c.groups[g].health = c.groups[h].health /\ c.groups[g].alive = c.groups[h].alive
    /\ ~c.groups[g].negative

Watched ==
    Alive /\ bal # None /\ ~done[bal] =>
        LET c == file[conf[bal]] IN
        \A id \in BalancedIDs(c) : Uniform(c, id) =>
            \E k \in Kinds \ {"leaving", "doomed"} : <<id, k>> \in run[bal]

\* Every request for a model of an accepted and sound file is served as the file
\* says, whatever repeated, missing or unknown names are in it.  The files are
\* looked at as the program starts, when it reads its own.
Servable == main = "starting" =>
    \A c \in Family, m \in Models, vision \in BOOLEAN :
        Accepted(c) /\ Sound(c) => Serves(c, m, vision)

\* The reloader has dealt with version v or a later one: a file that is accepted
\* is installed, with its own balancer, any other one has changed nothing.
Settled(v) ==
    /\ reloader = "idle" /\ tried >= v
    /\ cfg = tried \/ ~Accepted(file[tried])
    /\ IF Balanced(file[cfg]) THEN bal # None /\ conf[bal] = cfg ELSE bal = None

\* A SIGHUP sent to the serving program leads to the installation of the file as
\* it was then, or of a later one, unless the program is shut down or has been
\* given a file that ends it.
Applied == \A v \in 1 .. MaxEdits + 1 :
    (main = "serving" /\ sent = v) ~>
        \/ Settled(v) \/ main # "serving"
        \/ \E i \in 1 .. Now : LoadPanics(file[i]) \/ Hasty(file[i])

\* A SIGINT or SIGTERM ends the process, whatever the reloader is doing.
ShutdownEnds == quit ~> (main \in {"exited", "killed"} \/ crashed)
=============================================================================
