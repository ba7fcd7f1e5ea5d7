# Verification of llm-proxy (hikyaku)

TLA+ models of the proxy's request accounting, of its load balancer, of what it
does to a request and to a streamed response, and of the program around them;
the TLC runs that check them on small instances; and TLAPS proofs of the safety
invariants for every instance. Paths are relative to the repository root.

## 1. The system

hikyaku is a reverse proxy for LLM backends. A request names a virtual model;
the router turns that into a backend or into a *group* of backends, the
balancer picks one of a group, and the reverse proxy forwards the rewritten
body. Configuration is reloaded on SIGHUP while requests are served.

| Component | State | Operations | Interacts with |
|---|---|---|---|
| Request handling (`proxy/server.go`: `proxyRequest`, `modifyResponse`, `ErrorHandler`) | `bufferedBytes`, active-request gauge; locals of each handler goroutine | one handler per request, ten ways to return | reads `cfg`, `rtr`, `balancer`, `semaphores`; moves the balancer's counters |
| Reload (`Server.Reload`) | the pointers `rtr`, `cfg`, `semaphores`, `balancer` | a sequence of stores | races with every handler |
| Concurrency limits (`buildSemaphores`, `acquireSemaphore`) | one channel per limited backend | acquire, cancel, release | replaced by Reload |
| Selection (`balancer.go`, `*_selector*.go`, `select.go`, `flow_stats.go`) | `InFlight`, flow counters, cooldown, scraped metrics | `Select`, `Incr`, `Dispatch`, `CompleteAndDecr`, `InvalidatePin` | reads health, calls the affinity store |
| Affinity store (`store.go`) | map + LRU list of pins | `Get`, `Set`, `Touch`, `Delete`, `EvictExpired`, `Migrate` | called by sticky selection |
| Backend health (`state.go`, monitoring half of `balancer.go`) | `Healthy`, `ConsecutiveFailures`, `UnhealthySince`, `LastSuccessAt`, ramp-up | probes, scrapes, alive checks, passive recovery, request outcomes | written by up to four goroutines and every request |
| Idle timeout (`stream.go`: `idleTimeoutBody`) | channel of capacity one, timer, left-over bytes | `readLoop`, `Read`, `Close` | sits between the backend's body and the reverse proxy |
| Request defenders (`proxy/defender.go`, settings in `config.go`) | the loop detector's map of entries | `checkDefenders`: zero-content check, `checkLoop`, `getEntry`, `applyLoopDetected` | runs in every routed request before selection; the map is shared by all |
| Stream parsers (`stream.go`: `interceptedBody`, `sseParser`, `ollamaParser`; `capture.CappedBuffer`) | the unfinished line, counts, the capped copy | `Read`, `Feed`, `Close` with `onClose` | around the idle timeout; `onClose` settles the request with the balancer |
| Parameters (`router.mergeParams`; `deepMergeInto`, `translateParams` in `server.go`) | the request's body; the maps of the configuration | merge, inject, translate, encode | requests of a route share its maps |
| Configuration and routing (`config.go`, `router.go`) | the file | `Load`, `validate`, `ValidateListenPolicy`, `resolve` | read by everything |
| Main program (`cmd/hikyaku/main.go`) | signal channels, the reloading goroutine | start, SIGHUP, SIGINT/SIGTERM, listeners that fail | creates and stops balancers, with `Reload` |
| Monitoring start and stop (`balancer.go`: `New`, `Stop`, `start*`) | `done`, a WaitGroup | start the goroutines of a file, turn a health check into a scraper, stop | called by `Reload` and by main's shutdown |
| Capture (`internal/capture`, `startCapture` … `finish*`) | the window's counter | `Arm`, `Reserve`, `Slot.Write` | SIGUSR1 arms it, every request may claim a slot, `Reload` replaces it |
| Metrics parser, affinity key, journal, telemetry, logging | see `PROJECT.json` | | text, hashing or output only |

The hard behaviours are: counters moved on many return paths; a reload between
any two steps of a handler; pins looked up, checked and set in separate
critical sections; probes and requests writing one failure counter; the select
between data and timer; an entry looked up again after the mutex is released; a
balancer that Reload and the shutdown stop at once; one signal's worth of room in
a channel; a map of the configuration that requests write to.
`PROJECT.json` lists them as hazards at their lines.

What makes each part correct:

- *accounting*: what every counter holds follows from the requests, on every return
  path, after every panic and across reloads; slots are returned to the channel they came from;
- *store*: map and list agree, the table is bounded, the evicted pin is an
  oldest one;
- *selection*: a session stays on a usable backend; ramping and cooling
  backends are avoided; there is always a candidate;
- *health*: a dead backend leaves the pool, a live one returns;
- *idle timeout*: bytes arrive once and in order, the end last, and a silent
  backend does not hold the caller;
- *defenders*: no request is accused wrongly, a loop is noticed and finally
  refused, the map does not fill with stale entries;
- *streams*: the counts do not depend on how the lines were cut, and a request is
  settled once, however its body ends;
- *parameters*: the documented layers win in their order, and requests do not
  disturb each other through the maps they share;
- *program*: no signal is lost, no goroutine outlives its balancer, every pooled
  backend has a goroutine that can readmit it, nothing but a shutdown or a fatal file
  ends the program, a shutdown ends;
- *capture*: a slot is claimed once, a signal is worth one window, and a claimed slot
  is written.

## 2. Modules

| Module | Models | Notes |
|---|---|---|
| `RequestLifecycle` | `proxyRequest` … `Release`, and `Reload` | one action per step at which another goroutine can see a difference; generations name configurations |
| `MCRequestLifecycle` | instances | backends, limits, the configurations of the reloads |
| `RequestLifecycleProofs` | proofs | |
| `PinTable` | what an affinity store promises | abstract |
| `AffinityStore` | `inMemoryStore` | refines `PinTable` |
| `BackendHealth` | `BackendState` and the goroutines that write it | time stamps are ages, saturated |
| `MCBackendHealth` | the configurations of a group | |
| `BackendHealthProofs` | proofs | |
| `Selection` | `Balancer.Select`, selectors, score, `InvalidatePin` | extends `AffinityStore`: its pins are the store's |
| `SelectionHistory` | `Selection` with a history of what each request could rely on | a history variable, no code |
| `MCSelection` | instance | |
| `BalancerProofs` | proofs about the store, its refinement, and selection | |
| `IdleTimeoutBody` | `idleTimeoutBody` | |
| `StreamBody` | `interceptedBody`, `sseParser`, `ollamaParser`, `CappedBuffer`, `onClose` | extends `IdleTimeoutBody`: its bytes are what the parsers are fed |
| `ByteStream` | what the caller of the wrapped body is promised | `StreamBody` implements it |
| `MCStreamBody` | the bodies | |
| `StreamBodyProofs` | proofs, of the idle timeout too | |
| `Defenders` | `checkDefenders`, `loopDetector`, `GetLoopDetection`, `GetZeroContentDetection` | |
| `MCDefenders` | configurations of the defenders | |
| `DefendersProofs` | proofs | |
| `Configuration` | `validate`, `ValidateListenPolicy`, the lookups, `resolve` and what the handler makes of it, the goroutines `New` starts | operators only |
| `Process` | `main`, `Server.Reload`, `Balancer.New` and `Stop` | extends `Configuration` |
| `MCProcess` | the files, and a family of files for `Servable` | |
| `ProcessProofs` | proofs | |
| `Capture` | `internal/capture` and its callers | |
| `MCCapture`, `CaptureProofs` | instance; proofs | |
| `Rewrite` | `mergeParams`, `deepMergeInto`, `translateParams`, options of Ollama | |
| `MCRewrite` | routes and requests | |
| `RewriteProofs` | proofs | |

### RequestLifecycle

`pc[r]` is where a handler is; `cfgOf`, `rtrOf`, `grp`, `tgt`, `semOf` are its
captured `cfg`, the generation of its resolution, its group and backend and the
semaphore captured by `release`. `inflight[g][b]` is `InFlight` of backend `b` in the
balancer of generation `g`: a balancer that Reload replaced keeps its counters.
`incGen`, `dspGen` and `decGen` are history variables. The handler's steps follow the
source in order: `LoadConfig` (line 359), the router's answer (`RouteDirect`,
`RouteGroup`, `RoutePassthrough`, `Reject`), then every read of the plain field
`s.balancer` as a step of its own: the nil test (`ReadGroupConfig`/`SkipBalancer`,
430), `Select` (447; `SelectFails` is the 503), `Incr` (459), `Dispatch` (460), the
test before the totals (`Admit`, 598) and the totals (`Record`, 599-600), and at the
end the test (`Settle`, 629/950/1006), `CompleteAndDecr` (635/963/1007) and
`InvalidatePin`. Between them are the returns after selection (`RejectEmpty`,
`EncodeError`, `InvalidURL`, `CancelWait`); `ErrorHandler`, `BufferResponse` and
`CloseStream` are the three ways to settle. A nil dereference ends the handler
(net/http recovers it), in one of three states that differ in what stays counted:
`panicked` (before the body is buffered), `recordPanicked` (after the gauge was
raised) and `settlePanicked` (after the exchange; the deferred release still runs).
A configuration has any number of groups; a backend may name one that is not
declared. Abstracted: bodies, headers, status codes and the choice among a group's
members, which `Selection` models.

### AffinityStore and PinTable

Each operation is one action, as each runs under the store's mutex. Removing
elements from the list one by one is stated by its result: `Sublists(l, K)` are
the lists with the elements `K` in the order of `l`. `PinTable` says that a new
pin replaces an *oldest* one when the table is full, without a list; the
refinement maps `pins` to `entries`. `EvictExpired` and `Migrate` are operations
of the store that no code calls today; they are modelled because the interface
offers them.

### BackendHealth

`up` is the environment. `running` holds the goroutines that `New` starts for
the group's `setup` (`Started`): scraping replaces the health probe if the first
scrape answers, and the passive loop runs if neither health nor alive probes are
enabled. A probe is two or three steps (`Ticker`; `ProbeSucceeds` or
`ProbeFails`; `Blame`), because `markUnhealthy` looks at `InFlight` and
`LastSuccessAt` before it takes the lock under which it demotes.
`CompleteAndDecr` is two steps (`Decr`, `RecordOutcome`). All endpoints of a
backend answer or none does; a probe that fails by chance is a backend that is
down for a moment (`Flip`). Counters saturate at `Cap`, ages at the delay they
are compared with, so that runs are not bounded in time. A streamed request is
counted out by `DecrStream`, which tells the balancer of a success however the
stream ended unless the client left. A request that comes past its group to a member
(`Bypass`, a direct or passthrough route) lowers `InFlight` without having raised it,
so `leaked`, by which the counter is off, is an integer.

### Selection

A request goes through `Scan` (healthy pool), `Rescan` (last resort), `Lookup`,
`Honour`, `Choose`, `Pin`, `Count`, `Finish` and, after a failure, `Blame` and
`Unpin` (the two halves of `InvalidatePin`). `Abandon` is a request that the handler
gives up after it was counted, `Bypass` one that comes to a member without having
been counted and is completed all the same: `InFlight` is an integer. A request ends
well, broken, or with a timeout. A pass over the backend states is
one step. The pool has no order, because the code collects it from a map; the
selectors that index it choose over all orders. The load score is an exact
fraction. Health and ramp-up change arbitrarily, which includes everything
`BackendHealth` does. The weight of a backend is always 1 in the code.
`SelectionHistory` adds `since[r]`: what has held of each backend in every state
since request `r` scanned the pool (pinned and usable, settled, ramping up, cooling
down), which is what a session can rely on.

### IdleTimeoutBody

The body is the sequence 1, 2, … ; `LoopRead` and `LoopSend` are `readLoop`,
`ReadPending`, `ReadWait`, `Receive` and `GiveUp` are `Read`. When a result and
the timer are both ready, either case of the select may be taken. The body ends by
EOF, by a reset, or by an error that says it is a timeout (`netTimeout`, a dead
connection).

### StreamBody and ByteStream

A line is any number of events and a newline; an event stands for characters of
the line, and the last one says what the line's JSON would (text, reasoning, usage,
stop, `[DONE]`, nothing of interest). The parsers are functions of the bytes of one
`Read` and the partial line kept from the reads before: `Scan(p, d)[n]` is the
parser after the first `n` bytes. What matters is that a line may be spread over
several reads. `Read` composes the idle timeout's reads
with the feed and the copy; `Close`, `CloseAgain` and the client that leaves
settle the request through `onClose`, as a timeout if the client left or the read
error said so (`TimedOut`, server.go:955-959). A text delta is two characters, so that
the cap on the kept text can fall inside one. `ByteStream` says what all of it is for, with
no goroutine, channel or left-over bytes: the caller gets the backend's bytes from
the first on, the end behind the last of them or a timeout, and the request is
settled once. The refinement maps `given` to `got` and `outcome` to `result`.

### Configuration and Process

A file is a record of what `validate`, the router and the balancer look at.
`Monitors(c)` is the *set* of possible results of the three passes that start
goroutines, since two of them range over a map. `Process` interleaves the
operator (edits, SIGHUP, SIGINT), the reloading goroutine in the steps `Receive`,
`Load`, `Store`, `Build`, `Install`, `CloseOld`, `WaitOld`, `Probe`, the shutdown
of main (`Drain` … `Finish`, with its two separate calls of `srv.Balancer()`) and
the monitoring goroutines of every balancer ever made. Closing a closed channel
and stopping a nil balancer end the process (`crashed`). So do two kinds of files: a
blank one, on which `normalizeMapToList` indexes an empty document (config.go:269;
`LoadDies`, in the reloading goroutine), and one whose health check interval is
negative, on which `time.NewTicker` panics (balancer.go:471; such a goroutine is
`doomed` and ends with `TickerPanics`). `Sound(c)` is what
validation leaves to the operator, and `Serves(c, m, vision)` what the file itself
says of a request for `m`; `Servable` compares it with `Fates`, which composes the
lookups, `resolve` and the handler.

### Capture

`Reserve` is a load and a compare-and-swap (`ReserveLoad`, `ReserveSwap`) between
which others reserve and SIGUSR1 arms; the request then takes one of the paths of
the handler, each writing its slot or not as the code does. A handle is named by
the generation of its configuration, and requests keep the one they loaded. A stream
that breaks off (`BreakStream`) is written like a complete one, as in `onClose`. A
reload that drops the balancer makes requests that have just tested it panic before
they write.

### Rewrite

Of a value only the origin is kept: a layer, or the request that sent it. Two maps of
the body matter, because `translateParams` writes into them: `stream_options`
(`include_usage`, server.go:1063-1070) and `chat_template_kwargs` (`enable_thinking`,
1080-1087). Each is the caller's own or a new map or, when the caller sent none and
`inject` has one, the map of the route itself (`held`); the route's may be there with
or without the entry (`route.maps`). Reads and writes of a shared map take two steps,
so that two of them can overlap; Go's runtime may then end the process.

### Defenders

A key is a pair of affinity key and last user message, which is what the map is
indexed by. `CheckLoop` is one step because `checkLoop` holds the mutex;
`ApplyLoopDetected` is another, because the entry is looked up again without it.
In between a sweep may have removed the entry (the handler panics and net/http
drops the request), and a concurrent write of the map may make the Go runtime
stop the process (`ConcurrentMapAccess`). Settings are resolved as in the code:
defaults, global block, route block. `log` is a history of all checks. Reload
installs a new detector; handlers keep the one they have, so each detector is an
instance of the module of its own.

## 3. Runs

Passing runs:

| Run | Bounds | Shows |
|---|---|---|
| `Lifecycle` | 2 requests, 2 backends, 2 groups, 1 slot, 2 reloads that drop the groups and bring one back | `InFlightLaw`, `SemaphoreLaw`, `BufferedLaw`, `SnapshotOrder`, `Served` |
| `AffinityStore` | 4 keys, capacity 3, 2 backends, 3 ticks, TTL 1 | `MapListAgree`, `Implements` |
| `Health` | 4 setups, 2 requests, `InFlight` off by 1 at most, limits 2 (probes) and 3 (requests), delays 1 | `BelowLimit`, `Recovers`, `Detects` |
| `Sticky` | 2 requests of one key, 2 backends, all strategies, both overload limits, expiry | `SessionKept`, `Sheltered`, `NeverEmpty`, `ScoreMonotone` |
| `StreamBody` | bodies of 8 bytes in 3 or 4 lines, buffer 3, reads of 2, three backend types, copy of 5 bytes, 3 characters of text kept | `InOrder`, `SplitFree`, `CountedOnce`, `TeePrefix`, `Delivers`, `Ends`, `ReaderFreed` |
| `Defenders` | 4 requests, 3 keys, 2 routes, 4 configurations, 4 ticks, window 1, sweeps at 2 entries | `NoFalseAlarm`, `MissBound`, `SweepBound`, `PanicLaw` |
| `Process` | 8 files, 1 edit, 2 SIGHUPs, so up to 3 balancers | `NoLostSignal`, `NoOrphans`, `CrashLaw`, `Watched`, `Servable`, `Applied`, `ShutdownEnds` |
| `Capture` | 2 requests, 2 reloads, 2 arms, windows of 2, of 1, and none | `WindowLaw`, `SlotBound`, `SlotWritten` |
| `Rewrite` | 2 requests, 70 routes, 15 kinds of requests | `LayerLaw`, `LeakLaw` |

Runs that refute a statement of the repository:

| Run | Statement | What the code does |
|---|---|---|
| `LifecycleMixed` | server.go:116 "Reload atomically swaps in a new config and router. In-flight requests continue with the old config." | a handler that straddles a reload mixes configurations and dereferences nil |
| `RewriteShared` | docs/configuration.md:287 "`inject` deep-merges a config-supplied object into the request body" | the configuration's own map becomes part of the body and is written to: one caller's `enable_thinking` is sent with another's request |
| `DefendersEscalate` | LOAD-BALANCING.md:524 "If a further M identical requests arrive after the injection, escalate to `refuse_429`." | each detection takes the count back to the threshold, so with `escalate_after` of 2 (the default) or more it never escalates |

Why the bounds are enough. Two requests suffice for every pairwise race, one
holding the slot that the other queues for. Two reloads give three
generations: a handler can hold an old snapshot while the installed objects are
one and two generations newer, and the groups disappear and one appears; a backend
that names an undeclared group is there before and after. Four keys
over a capacity of three make evictions, re-pins and touches of middle elements
happen. In `Sticky`, one key makes the requests collide; two backends give every
pair of tiers. In `Health` the two limits differ and both are above one, so that
probes assign a count that requests have raised, and the other way round, before
either limit is reached; the setups are a health check that may hand over to a
scraper, a health check beside an alive probe, and none with and without scraping.
`MaxLeak` is how far `InFlight` may be off, up by early returns and down by
completions of requests that were not counted. In `StreamBody` the buffer is larger than a
read and no divisor of the body, so results and lines are split unevenly, and the
copy ends in the middle of a line; one body has lines of several events, an empty
line and a last one without a newline. In `Process` a second SIGHUP meets each step of
the first reload, and the shutdown each step of both; the files add, drop and
change groups, list an id twice, are refused in either of two ways, or end the program
in either of two. In `Capture` a window of two is followed by the default of one and
by a setting that is refused, in a file without groups, under requests that have
loaded the counter. In `Rewrite` some routes differ in their layers, others in the
maps they inject, with and without the entry that `translateParams` writes. `StallLimit`
keeps the code's 10, which two requests do not reach: overload by stalls is not
exercised. In `Defenders`, four
arrivals make three misses around a window's end, which is one more than a
threshold of two allows, and three keys outgrow a sweep at two; the real limits
(1000 and 100) are the constants `CleanupEvery` and `CleanupMin`. Symmetry is
used in `Sticky` and `Defenders`, which check invariants only.

`CHECK_DEADLOCK FALSE` stands where a run ends: all requests answered, the body
closed.

### Fairness

- `RequestLifecycle`: weak fairness of each handler. The goroutine runs, and an
  upstream exchange ends because the idle timeout, the backend or the client
  ends it; a configuration without `timeout_seconds` relies on the latter two.
  Go's channels are FIFO for waiting senders; the model needs less, since each
  request runs once.
- `BackendHealth`: time passes, tickers fire and probes return (they have
  timeouts), the passive loop ticks, requests end. Nobody need send requests.
- `StreamBody`: `readLoop`, the caller and the timer proceed; the backend
  need not.
- `Process`: the reloading goroutine, main and the monitoring goroutines are
  scheduled; what they wait in (probes, `Shutdown`) has a timeout; a `select`
  does not pass over the closed `done` for ever. Nobody need send a signal.
- `Capture`: the handlers and the SIGUSR1 goroutine proceed; nobody need arm.

### What holds only in part

`MissBound` gives up to twice what the threshold lets pass, because the
detector's windows are fixed (docs/configuration.md:635 says "sliding window").
`InFlightLaw` says what `InFlight` is, not that it is right: it keeps the requests
lost by early returns and panics, and it misses one for every request that a direct
or passthrough route sends to a group member, because `CompleteAndDecr` runs for
every request. `BufferedLaw` names the three ends that keep their body.
`SemaphoreLaw` bounds each *generation* of semaphores: after a reload, old and new
requests together can exceed `max_concurrency` (docs/configuration.md:113 says
"maximum number of in-flight requests"). `ScoreMonotone` is about loads that are not
negative. `Detects` excludes a lost request (`markUnhealthy` gives up while
`InFlight > 0`) and requests that time out. `Watched` exempts an id listed in
groups whose probe settings differ, and `Servable` files that name a group or an
auto-route target that is not there: the code accepts both. `CrashLaw` and `Applied`
exempt the two kinds of files that end the program. `ReaderFreed` is about a `readLoop`
that is reading with nothing handed over. `LayerLaw` is about the keys that no step
after the merge drops or replaces. `SlotWritten` says that a slot is written, not how
often or what.

Other places where documents and code differ, found while modelling:

- Four returns after `Incr` do not take it back, nor do the panics, and requests that
  were never counted are taken off (server.go:490, 576, 585, 610; 635, 963, 1007);
  LOAD-BALANCING.md:203 says "incremented when the proxy dispatches to this backend,
  decremented when the response completes (or errors)". `InFlight` may so become
  negative; the penalties of `loadScore` then *lower* the score of the worse backend.
- A backend that a probe or a request readmits does not ramp up, because the count
  that tells a recovery is reset just before it is read (balancer.go:390);
  docs/configuration.md:520, LOAD-BALANCING.md:413 and
  docs/design/health-recovery.md:242 say that it does.
- `readLoop` may be blocked for good in its send, which closing the body does not
  unblock (stream.go:364; the comment at 327 says "which unblocks the goroutine").
- A blank or comment-only file given to a reload ends the program (config.go:269), and
  so does a negative health check interval (config.go:434, balancer.go:471);
  docs/logging.md:28 says "If the new config fails to parse, the old config is kept".
- A stream that the idle timeout or a reset ended is settled as a success: the
  error has no `Timeout()` and the status was 200 (server.go:950-963, whose comment
  speaks of a "read timeout"), while a dead connection is settled as a timeout, like a
  client that left; `Close` of `ByteStream` says which is which.
- A clamped `max_completion_tokens` gives way to any `max_tokens`, also the caller's
  (server.go:473; docs/configuration.md:258 "Clamp — always wins; caller cannot
  override these"), and a default of a key that is not a sampling key, such as
  `num_ctx`, overrides the caller (docs/configuration.md:155, 160 "`defaults < caller's
  options < clamp`"). Thinking on an Anthropic backend replaces a clamped temperature
  (server.go:1105; README.md:211 "applied unconditionally").
- A route to a group that is not declared is accepted, and panics (server.go:434)
  if another group is declared; the targets of `auto_route` are not looked up;
  ids may be listed twice, and the lookup gives the last.
- An id in groups with different probe settings may have no goroutine that readmits
  it (balancer.go:724).
- A capture slot is written twice when a buffered response cannot be read
  (server.go:996, then 646; capture.go:101 and 150 say "exactly once"). A stream that
  broke off is captured as a success with status 200 (server.go:981-987);
  docs/logging.md:175 says "Errors (semaphore rejection, upstream failures) also write
  a capture file with `response.error` set".
- A shutdown during a reload may close a balancer twice, or stop a nil one
  (main.go:169-170); a SIGHUP before `signal.Notify` ends the process.
- `RecordFailure` assigns the prober's count (state.go:106) where the comment
  says "increments", so probes can take back strikes of requests
  (docs/configuration.md:489 "after 3 strikes the backend is marked unhealthy").
- A 4xx counts as a failure (server.go:1007); the same line says "Failure (5xx)".
- Alive probes use the health check's threshold (balancer.go:563), not
  `monitoring.alive.unhealthy_after` (docs/configuration.md:576).
- The grace check of `markUnhealthy` (balancer.go:557) and the demotion are not
  atomic (CURRENT-FEATURES.md:27).
- Two first requests of a session may pin it twice (sticky_selector.go:97;
  LOAD-BALANCING.md:452 "Same affinity key → both pin to same backend").
- `InvalidatePin` cools down what the key is pinned to *now* (balancer.go:645),
  or nothing if the pin expired (642), rather than the backend that failed
  (docs/configuration.md:512).
- A request that leaves an overloaded pinned backend takes the pin along
  (sticky_selector.go:97; LOAD-BALANCING.md:447 "Don't update the affinity
  entry").
- The defenders are on by default (config.go:680, 738); docs/configuration.md:601
  says "disabled by default".
- `single` and `round_robin` index a pool in map order (balancer.go:141;
  docs/configuration.md:443-444 "in order", "always uses the first backend").
- The success-rate penalty vanishes without load (select.go:79, comment at 64).
- The idle timer also runs while the caller does not read (stream.go:397;
  comment at 321).

## 4. Proofs

All theorems hold for every value of the constants that satisfies the named
assumptions.

`RequestLifecycleProofs` (from `ConstantsAssumption`: finitely many requests,
group members are known backends). None of the laws is inductive alone: that
`Release` keeps `SemaphoreLaw` needs to know that a request in `returning` has a
semaphore generation, that its settlement was recorded once, and where `tgt` is
set. The inductive invariant `IInv` is the conjunction of the types, `Structure`
(which fields are set at which `pc`), the laws, and `PointerOrder` (router not
older than configuration, snapshots not newer). `InFlightLaw` is about differences and is
not inductive; in its place stands `Exact`, which gives each counter as the number of
requests that moved it in that balancer: two balancers may share one request when a
reload falls between `Incr` and `Dispatch`. The counting steps rest on lemmas
about the cardinality of a set of requests when one of them changes.
Theorems: `TypeCorrect`, `InFlightLawHolds`, `SemaphoreLawHolds`, `ActiveLawHolds`, `BufferedLawHolds`, `SnapshotOrderHolds`.

`ReloadTransparent` does not hold (run `LifecycleMixed`); two theorems say when it
does. `Sources` adds to `IInv` that every pointer a handler follows is to a
configuration installed so far, and that a nil met on the way is a clash of two of
them, or of one with itself: one has groups and another none, a group that a backend
claims in one is not declared in another, or a balanced backend of one is unknown to
another. `PanicCauseHolds`: no panic without such a clash, however the stores of
Reload fall between the reads of the handlers. `CompatibleReloads`: where all
configurations have groups, declare all groups that a backend claims, and know each
other's balanced backends, the comment of Reload is right.
`QueueMovesHolds` follows from `SemaphoreLaw` alone: a full semaphore, an old
one too, is held by requests that release it, never by the one that waits.

`BalancerProofs`, the store (from `StoreAssumption`). `SInv` adds to the four
invariants that no stamp lies in the future, which keeps the front of the list
the most recent. Lemmas give what `Sublists` preserves. Theorems: `TypeCorrect`,
`MapListAgreeHolds`, `BoundedHolds`, `RecencyOrderHolds`, and `Refinement`:
every step of the store is a step of `PinTable` or a stutter; `RecencyOrder` is
what makes the evicted tail an oldest pin.

`BalancerProofs`, selection (from `SelectionAssumption`: finitely many backends
and requests, known strategies, natural limits). Four invariants, each on top of
the one before.

- `Ctl`: what is known at each `pc`: only a request with a key and a sticky
  strategy reaches the steps on the pin, a request past its choice has a backend,
  one that selects has a pool. `NeverEmptyHolds` follows; so does `StoreUse`: all
  of Selection's steps are operations of the store or leave it alone, so the
  store's theorems hold under concurrent selection. With the next two it gives
  `SelTypeCorrect`.
- `Counted`: `inflight[b]` is the number of requests sent to `b` and not finished,
  plus those abandoned, minus those completed uncounted, and
  `dispatched = completed + inflight`. It is the theorem `CountersAccounted`.
  `ScoreMonotoneHolds` needs that no backend has more successes and timeouts than
  completions; where the load is not negative, the factors by which the fractions are
  multiplied across are not either. Its arithmetic is in lemmas of its own.
- `HistInv`: what the history says of the current state, by `pc`. What was true
  in every state since the scan is true now (`SinceAt`); then, as the request goes
  on, that its pool contains every backend that stayed usable (`PoolKeptAt`), that
  the pin it looked up is the one that was kept, and that a request that goes on to
  choose had none (`PinAt`); a choice within the pool then comes from the best tier
  that is not empty (`ShelterAt`). `SessionKeptHolds` and `ShelteredHolds` are what it says at the end.

`BackendHealthProofs` (from `HealthAssumption`). `TypeOK /\ BelowLimit` is
inductive; the lemmas say that each method of `BackendState` keeps the state's
invariant against either limit. `Watchers`
says which goroutines there are for the group's setup at any later time: the health
check or the scraper it turned into, never both, and no probe under way for one that
has left. Theorems: `TypeCorrect`, `BelowLimitHolds`, `WatchersHold`.

`CaptureProofs` (from `CaptureAssumption`). For the window, `WindowLaw` needs that
the counter is between zero and the window's size and that a swap that succeeds
takes the number it loaded, whatever happened between. `SlotBound` is not inductive:
`Covered` adds the slots still to be had, so that arming gains a window and a claim
moves one slot from the counter to a request. For the writes, `Kept` says that a
request past its response has written its slot. Theorems: `TypeCorrect`,
`WindowLawHolds`, `SlotBoundHolds`, `KeptHolds`.

`ProcessProofs` (from `ProcessAssumption`: the files have the types of the
source's `Config`). `PInv` adds to the properties: `Budget` (each balancer but the
first answers a signal, so there is a name for it), `Fresh` (balancers to come are
untouched), `Counted` (a WaitGroup is never below its goroutines, so that `Wait`
returning means they are gone), `Replacing` (what the reloader holds in each step;
in particular the new balancer is neither the old one nor the one main is
stopping), `Open` (until main has stopped one, the installed balancer and the one
to be replaced are open: a reload closes each once) and `Adopted`, which is
`NoOrphans` without the case of a balancer built and not installed. `Watched`
speaks of the installed balancer only and is not inductive; `WInv` says it of
every balancer that is not stopped, whose file stays what it was because an edit
adds a version. It rests on `MonitorsGuard`: whichever groups are met first and
whichever metrics answer, `New` leaves no backend without a goroutine whose groups
agree. `Servable` is a fact about files: by validation a model has one route, by
`Sound` an id has one entry, a route's group a backend, an auto route a plain
target, and so the lookups find what the file names. `UpToDate` says what the
reloader has achieved whenever it rests; `InstallInv` follows a version from `Load`
to `Install` (what was tried is accepted from `store` on, and the installed balancer
is that of the installed file, except between the two stores). `WaitExact`
sharpens `Counted` to an equation. It needs `OneWatch`: while a backend's health
check runs, neither its scraper nor a health check that is about to return exists,
so that the goroutine started in its place is a new one. Theorems: `TypeCorrect`,
`NoLostSignalHolds`, `NoOrphansHolds`, `CrashLawHolds`, `WatchedHolds`,
`UpToDateHolds`, `WaitExactHolds`, `ServableHolds`.

`StreamBodyProofs` (from the assumptions of `IdleTimeoutBody` and `StreamBody`).
`BodyInv` says where every byte taken from the backend is: `Stretches` gives the
four places (caller, left over, channel, hand) as consecutive intervals of the body,
and `EndLast` that an end of the body travels behind its last byte; without them the
sequence equation of `InOrder` is not inductive, because a step moves bytes between
places the equation does not tell apart. `TeeAt` is `TeePrefix` with the characters
named by their place in the body, so that a read only moves its end; `Told` says
that `closes`, `told` and the caller agree. Theorems: `InOrderHolds`,
`TeePrefixHolds`, `ClientPrefixHolds` (the two wrappers change nothing in the
stream), `SettledOnceHolds`.

`SplitFree` and `CountedOnce` compare the parser with the whole body. `ParserInv` has
it in terms of places: the partial line kept is what the client received after the
last newline, and each counter is the number of places up to that newline where
an event of its kind ends a line (`SeenIn`, `SettledIn`), the settlements being those
end marks with usage since the one before. `FeedCounted` says that one call of
`feed` carries this from one place in the body to a later one. It is an induction
over the bytes of the call; as the installed provers cannot use the induction
theorems, it is done once by a least counterexample (`HasLeast`: a nonempty set of
naturals has a smallest member), as is the existence of the recursive function
`Scan` (`ScanExists`). The effect of each kind of line is a lemma of its own
(`TextCounted`, `AnthropicCounted`, `OpenAICounted`). Theorems: `SplitFreeHolds`,
`CountedOnceHolds`.

`DeliversHolds` maps every step to one of `ByteStream` or a stutter: `Stretches` and
`EndLast` give that what a read returns are the next bytes and that an end comes
behind the last of them, `Told` the settlement, and `ClosedUnseen` that the error
`readLoop` meets when the body is closed under it never reaches the caller. Two
theorems are what liveness rests on: `AnswerableHolds` (a waiting Read has a timer,
and an answer unless `readLoop` still runs; `EndKept` follows the end of the body to
the place where it is kept) and `WindsDownHolds`, an action property with the measure
`StepsLeft`.

`DefendersProofs` (from `DefendersAssumption`: settings are blocks of the
configuration's types, or absent). `DInv` relates the table to the log of checks: no
check lies in the future (`LogOrder`), and an entry was opened by a check of its key
and has counted no more than there were since (`EntryAt`); `NoFalseAlarmHolds`
follows. `PanicInv` follows a request from its verdict to its second lookup: its
entry is still there, or has been swept by a later check that found it stale.
`SweepBound` is inductive for each limit on top of `DInv`, because after a sweep the
table's keys are live ones. `MissInv` counts, per key and where the routes agree,
the checks that passed unnoticed in the open window and in the one before
(`MissOpen`), or before a window to come (`MissShut`): two windows, hence the factor
two of `MissBound`. `NeverEscalatesHolds` generalises the finding of
`DefendersEscalate`: where the routes agree on the threshold, an entry's count
(`EscInv`) never passes it by more than one at a check, since each detection takes
it back. `TypeCorrect` rests on the cascade of settings: a block that leaves an
action out does not unset the one below it. Theorems: `TypeCorrect`,
`NoFalseAlarmHolds`, `PanicLawHolds`, `SweepBoundHolds`, `MissBoundHolds`,
`NeverEscalatesHolds`.

`RewriteProofs` (from `RewriteAssumption`). `RInv` says for each request and `pc`
which layer every key of the body comes from (`BodyAt`), what is nested under options
(`OptionsAt`), for each of the two maps whether it is the route's own (`MapAt`) and what
its entry is (`EntryAt`: the one expected, or one that some request left in the route's
map); of the route's maps that they hold the file's entry or one left by a request that
writes to them (`SharedLaw`), and that the crash needs such a request (`CrashLaw`).
Theorems: `LayerLawHolds`, `LeakLawHolds`.

Only model-checked:

- the liveness properties (`Served`, `Recovers`, `Detects`, `Ends`, `ReaderFreed`,
  `Applied`, `ShutdownEnds`, `SlotWritten`), and those that use fairness: outside
  the prover's reach. What a state must be like for them to hold is proved:
  `QueueMovesHolds` for `Served`, `WatchersHold` for `Recovers` and `Detects`,
  `AnswerableHolds` for `Ends`, `WindsDownHolds` for `ReaderFreed`, `UpToDateHolds`
  for `Applied`, `WaitExactHolds` for `ShutdownEnds`, `KeptHolds` for
  `SlotWritten`;
- that the promises of `PinTable` and `ByteStream` are the ones wanted, and the runs
  that expect a violation.

## 5. Not modelled

- The metrics parser, the affinity key, system prompts, headers, URLs and the list
  of Ollama's tags: transformations of text that keep no state and are read by one
  goroutine. What they produce is an input of the models.
- YAML, environment variables and the expansion of port ranges: whether a file
  parses, and whether it is blank, is an input.
- Journal, logging and the telemetry that only grows: output. Of `FlowStats`, what
  no decision reads.
- An id listed in two groups has two `BackendState`s whose counters drift apart;
  `RequestLifecycle` has one per backend.

## 6. Plan

Done: the accounting with reloads, the store and its refinement, health,
selection, idle timeout and defenders, because the counters are what the other
parts steer by; then streams, the program with its files, capture and parameters.

Proved: every invariant and both refinements that a run checks, and of each liveness
property the state invariant it rests on (section 4).

Next: that `RequestLifecycle`'s counters within one generation are `Selection`'s, by
a mapping of its steps to `Count` and `Finish`, as a refinement; and operators for the
metrics parser.
