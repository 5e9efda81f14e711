# Throned: TLA+ models and proofs

Throned is a desktop proxy client: a Qt program (`src/src`, `src/include`) that keeps profiles and
settings, and a Go core (`src/core`) that runs sing-box and Xray. The program starts the core as a child
process and talks to it over a framed RPC channel; a third kind of process, the guard, is the core binary
with `--guard` and holds the firewall rules of the kill switch. This directory models the parts whose
correctness is a matter of interleaving, failure and order, checks the models with TLC and proves the
main invariants with TLAPS.

## Inventory

| Part | State | Operations | Talks to | What makes it correct |
|---|---|---|---|---|
| Xray gate (`core/internal/xray/gate.go`) | instance, generation, closed, tracked connections, active count | accept/relay, ensure, sweep, Recycle, Close | goroutine per connection, sweeper, RPC Start/Stop | a connection never rides an instance that is going away; nothing leaks; Close is final |
| Kill switch (`src/sys/KillSwitch.cpp`) | state, active and pending guard, waiters, timers | apply, guard slots, SetApiPort, shutdown | guard processes (pipes), connection manager, settings | Armed is true, starts fail closed, no gap, nobody waits for ever |
| Guard process (`core/internal/guard`) | rules, config | Run: read config, arm, watch, disarm | kill switch, kernel firewall | rules live exactly as long as the process wants |
| Core lifecycle (`core/internal/rpc/lifecycle.go`, `state.go`, `xray.go`) | published box, Xray instance or gate, full gates, extra process, mark | Start, Stop, pollers | gate, extra process, sing-box | failed starts leave nothing; pollers see no dying instance |
| Extra process (`core/internal/process`) | child, cleanup path | Start, Stop, exit watcher | lifecycle | stopped with its profile, files removed |
| RPC channel (`core/internal/rpc/dispatch.go`, `src/api/RPC.cpp`) | outstanding requests | call, answer, drop | everything | every call is answered once or failed |
| Transition guard (`core/internal/killswitch`) | the filter | Enable, Disable | connection manager | a switch is covered, and no filter outlives its start |
| Core supervisor (`src/engine/supervisor`, `src/sys/Process.cpp`) | core state, generation, waiting profile, crash counters | spawn, connect, exit, restart, reset, give up, shutdown | core process, connection manager | one live core, no exit lost, a stop or a declined profile is not undone |
| Connection manager (`src/engine/connection`) | running profile, start/stop mutexes, deferred requests | start, stop, switch, kill-switch and core reactions | supervisor, kill switch, RPC | startFinished once per request; the engine shows what the core runs |
| Test runner (`src/engine/tests`) | session lock, batches, poll threads, traffic credits | run, stop, poll, flush | RPC, core's probes | each request ends once; a result belongs to its profile |
| Auto selector (`src/engine/autoselector`, `src/stats/autoselector`, `src/configs/AutoSelectorPlan.cpp`) | pool, held starts, sweeps, health, back-off | hold, rank, resume, rebuild, pin | test runner, connection manager, core | a held start resumes once; the best members run; rebuilds back off |
| Remote API (`src/api/remote`) | waiters with deadlines, jobs, event hashes, log ring, transfers | requests, signals, deadlines, sweeps | engine, tests, exit | each request is answered once and no wake-up is lost |
| Exit (`src/engine/app/ExitController.cpp`, `src/ui/mainWindow/mainwindow_system.cpp`) | queued exit, reason | requestExit, questions, teardown | window, remote API | the program ends as its exit asked |
| Headless runtime (`src/engine/headless`) | crash record on disk, boot phase, exit code | boot, resume, watchdog, terminate | supervisor, connection manager, service manager | a bad profile is not resumed for ever, the API stays reachable |
| VPN authentication, scanner, updater | sessions with cancellation | start, cancel, finish | RPC | a cancelled session ends and reports once |
| Engine host, database, configs, subscriptions, statistics, UI | data, wiring | request/response | | see "Not modelled" |

Behaviours that are hard here: the gate's goroutines share two mutexes and two atomics; guards are
processes whose output is read later than it was written and which may die at any moment; settings change
while guards are being replaced; the core may exit while a start is in flight; two threads and nested event
loops touch the supervisor's state; start and stop workers lock a mutex that the main thread unlocks; poll
threads outlive the batch they poll; a remote request may be answered by its signal, its deadline or the
server's end; a question the window asks runs the event loop inside an exit. `PROJECT.json` lists the hazards line by line.

## Plan

Done: the modules below, in the order of the table. Left, in this order:

1. Proofs of the invariants of the tests, the selector and the remote API (`OwnResult`, `CreditsAreKept`,
   `SelectionIsRight`, `EarlyTakesWorking`, `NothingLeftBehind`, `CompleteIsIntact`), which TLC alone checks.
2. The system proxy's worker, the scan session, the VPN prompt controller, the updater.

## Modules

| Module | Code | Run | Proofs |
|---|---|---|---|
| `XrayGate` | `core/internal/xray/gate.go` | `gate` (`MCXrayGate`) | `XrayGate_proofs` |
| `KillSwitch` | `src/sys/KillSwitch.cpp`, `core/internal/guard/guard.go` | `killswitch_safety`, `killswitch_liveness` (`MCKillSwitch`) | `KillSwitch_proofs` |
| `SysDns` | `core/internal/sysdns/sysdns_darwin.go`, `core/main.go` | `sysdns_safety` (`MCSysDns`) | `SysDns_proofs` |
| `CoreLifecycle` | `core/internal/rpc/lifecycle.go`, `state.go`, `xray.go`, `core/internal/process/process.go` | `lifecycle_safety` (`MCCoreLifecycle`) | `CoreLifecycle_proofs` |
| `CoreSupervisor` | `src/engine/supervisor/CoreSupervisor.cpp`, `src/sys/Process.cpp` | `supervisor` (`MCCoreSupervisor`) | `CoreSupervisor_proofs` |
| `StartRequests` | abstract: every request is answered once | implemented in `connection`, `tests`, `selector`, `remote` | |
| `ConnectionManager` | `src/engine/connection/ConnectionManager.cpp`, `ConnectionModes.cpp` | `connection` (`MCConnectionManager`) | `ConnectionManager_proofs` |
| `RpcChannel` | `src/api/RPC.cpp`, `core/internal/rpc/dispatch.go` | `rpc` (`MCRpcChannel`) | `RpcChannel_proofs` |
| `TestRunner` | `src/engine/tests/TestRunner.cpp`, `core/internal/probe/probe.go` | `tests`, through `TestSessions` | |
| `SpeedTest` | `TestRunner.cpp` (speed tests), `database/ProfilesRepo.cpp`, `database/Database.cpp` | `tests`, through `TestSessions` | |
| `TestSessions` | both kinds of session | `tests` (`MCTestSessions`) | |
| `AutoSelectorPlan`, `AutoSelector` | `src/configs/AutoSelectorPlan.cpp`, `src/engine/autoselector/AutoSelectorController.cpp` | `selector`, through `WatchedSelector` | |
| `AutoSelectorMonitor` | `src/stats/autoselector/AutoSelectorMonitor.cpp` | `selector`, through `WatchedSelector` | |
| `WatchedSelector` | the controller and the monitor | `selector` (`MCWatchedSelector`) | |
| `RemoteConnection` | `src/api/remote/Router.cpp` | `remote`, through `RemoteApi` | |
| `RemoteJobs` | `src/api/remote/RouterTests.cpp` | `remote` | |
| `RemoteEvents` | `src/api/remote/RouterFeeds.cpp` | `remote` | |
| `RemoteLogs` | `src/global/LogBuffer.cpp`, `RouterFeeds.cpp` | `remote` | |
| `RemoteTransfers` | `src/api/remote/RouterBackup.cpp` | `remote` | |
| `ExitRequests` | `ExitController.cpp`, `mainwindow_system.cpp`, `RouterBackup.cpp` | `remote` | |
| `RemoteApi` | the parts of the router and the exits they lead to | `remote` (`MCRemoteApi`) | |
| `HeadlessBoot` | `src/engine/headless/ResumeGuard.cpp`, `HeadlessRuntime.cpp` | `headless_boot` (`MCHeadlessBoot`) | `HeadlessBoot_proofs` |

`PROJECT.json` maps each definition to its lines. Definitions whose comment begins with "Mutant of" are
deliberately wrong variants of the definition below them; no specification uses them. They record which bug
each property is there to catch.

### How the runs state their properties

A run checks a few properties, most of them conjunctions of named parts that belong together. Each part is a
definition of its own, with the behaviour of the code it is about, and the sections below describe the parts. The
conjunction is named for what the parts say together:

| Run | Property | Parts |
|---|---|---|
| `gate` | `NothingOutlives` | `NoInstanceLeak`, `ClosedGateIsDown` |
| | `NothingHangs` | `CloseDrains`, `SetupEnds` |
| `killswitch_liveness` | `NobodyIsStuck` | `WaitersAreCalled`, `OffUnblocks` |
| `sysdns_safety` | `ChangesAreRecorded` | `TypeOK`, what was changed can be undone, nothing of the core's own is recorded |
| `lifecycle_safety` | `WhatShowsIsLive` | `TypeOK`, `PublishedXrayIsLive`, `ResolverHasAListener`, `MarkGoesWithTheTun` |
| `supervisor` | `NothingUnwanted` | `StopIsFinal`, `DeclinedForGood`, `ExitIsFinal` |
| `connection` | `EngineIsTruthful` | `TypeOK`, `LoadedIsKnown`, `StateIsShown`, `StopIsHonoured` |
| | `FilterCoversTheSwitch` | `FilterIsOwned`, `SwitchIsCovered` |
| `rpc` | `CallsAreKeptApart` | `TypeOK`, `OwnAnswer`, `NoOrphan`, `NewSocketOnly` |
| `tests` | `RequestsEnd` | `FinishedOnce`, `StopCounts` |
| `selector` | `SelectionIsRight` | the types, `FullRankingIsBuilt`, `BestAreBuilt`, `PinIsTheCores` |
| | `StartsGetPast` | `HeldStartsResumeOnce`, `NoRankingLoop` |
| | `RebuildsAreEarned` | `ExhaustionIsEarned`, `RebuildsBackOff` |
| `remote` | `NothingLeftBehind` | the types, `NothingFiledForever`, `NoOrphanFile` |
| | `RequestsAreAnswered` | `AnsweredOnce`, `SettledWhenTold` |
| | `JobsEndAsAsked` | `CancelIsReported`, `JobsEnd` |
| | `FeedsAreFollowed` | `NoChangeIsLost`, `EveryLineAccounted`, `ClientCatchesUp` |
| | `ExitsAsAsked` | `FreshExit`, `EndsAsBegun`, `RestartFollows` |
| `headless_boot` | `RecordIsTrue` | `TypeOK`, `StrikesAreDeaths`, `LastExitIsTrue` |
| | `LoopsEnd` | `CrashLoopEnds`, `ApiStaysUp` |

The remaining properties stand alone; `ConnectedIsReal`, `OwnResult` and `CreditsAreKept` also carry the type
invariant of their module. The type invariants of `XrayGate` and `KillSwitch` and the latter's
`WaitersHaveAGuard` are in no run: they are proved.

### Setups and compositions

Some specifications have a constant `Setups`: records of settings (Tun, kill switch, may exit) and of bounds
(requests, stops, deaths). Init chooses one and nothing changes it, so one run covers several small instances,
each of them large where its own question needs it, instead of one instance that is large everywhere.

`TestSessions`, `WatchedSelector` and `RemoteApi` put components together that are parts of one object or talk
to each other. What passes between them is either already an input of both sides (`poolExhausted` and the build
that runs, for the controller and the monitor; the session lock and `sessionGen_`, for the two kinds of session) or
nothing at all (the parts of the router: each has its own tables, and a request touches one part). A product of
their state spaces would therefore repeat every interleaving of one side for each state of the other without
adding a behaviour, and a setup activates one side.

### XrayGate

A gate keeps the ports of one Xray config for the config's whole life; the instance behind them comes and
goes. Its fields are the variables `instance`, `generation`, `closed`, `failure`, `conns`; `active` is the
set of handlers counted in `g.active` rather than a number, so that a handler counted twice or never would
show. Each accepted connection has a handler with its own `pc`, the instance and generation that `ensure`
gave it, and its dialled `peer`. A critical section of `mu` or `connsMu` is one step. What lies between two
of them (tracking, counting, `ensure`, binding, the dial, the second binding, the relay) is interleaved with
the sweeper, with Recycle and with Close. `Foreign` is a listener that is not ours on a port which a
retired instance gave back. Starting an instance, with its retries and its draw of ports, is one step that
succeeds or fails.

`gate` (two connections, two instance starts) checks that the sweeper never takes an instance from
under a counted connection (`HandoutIsCurrent`), that an open relay runs on the live instance it was handed
and never on a stranger (`RelaysRideTheirInstance`), that a running instance always has someone who will
close it (`NoInstanceLeak`) and that after Close nothing is relayed (`ClosedGateIsDown`). Two connections
are enough for every pairwise race of handlers, since they meet only in the gate's own fields; two starts are
an instance that is swept or recycled and its successor, and the proofs cover any number. The run also checks
that Close drains the gate (`CloseDrains`) and that no connection hangs between accept and relay (`SetupEnds`).

*Fairness.* Handlers, the caller of Recycle or Close and a sweep under way are goroutines and go on running
(weak fairness), and a relay whose socket was closed ends. Nothing makes a client connect, hang up or wake
the sweeper's ticker.

### KillSwitch

The `KillSwitch` object lives on the UI thread, so each slot is one action; the guards are processes, each
with a `proc` state, a configuration and unread output (`readyLine`, `errorLine`), which the object reads
later than it was written. Actions: the settings (`SetKillSwitch`, `Reconfigure`, `PermitExtraCore`,
`SetApiPort` with its queued `OnPortChanged`), the waiters, the timers, the guard's signals, exit and
shutdown, and the guards' own steps, among them death at any moment. Texts and times are left out: a timer
that is set may fire at any time.

`killswitch_safety` (three guards at a time, two configurations) checks that Armed is reported only over an
armed guard that was not told to quit (`ArmedMeansGuarded`), that profiles start only under it
(`StartsFailClosed`), that no guard goes on blocking after it was forgotten (`NoOrphanGuard`), that outdated
settings are retried (`StaleConfigIsRetried`) and that a replaced guard quits only after its successor armed
(`NoGapAtHandover`). That a waiter has a guard to wait for (`WaitersHaveAGuard`) is proved. Three guards are
the active one, the pending one and one still closing; two configurations tell current from outdated.
`killswitch_liveness` checks `WaitersAreCalled` and `OffUnblocks` with two guards.

*Fairness.* Qt delivers what a guard printed and its exit, the ready timeout fires, and a guard whose input
was closed dies: it disarms on end of file, and a kill follows. A guard may stay silent for ever.

### SysDns

On macOS the core points the DNS servers of the network service that carries the default interface at
itself, and keeps a record file so that a later core can undo what a dead one left. Variables: each core's
`sysdns` state, each service's servers, and the record on disk. Every `networksetup` call and every write of
the record is a step and may fail; the core may die between any two; `--restore-dns` and the next core
replay the record of a dead core; the default interface moves, and each move starts a follow goroutine that
waits for the mutex.

`sysdns_safety` (three cores one after the other, two services) checks that at every moment the record
says how to undo what was changed and never holds the core's own address as the user's
(`ChangesAreRecorded`), that the resolver follows the default interface once nothing is under way (`FollowsTheDefault`) and that a late goroutine does nothing after Release
(`NoFollowAfterRelease`). Three cores let a replay itself be cut short and be taken up again; two services
are the one left and the one entered. `Overlap` FALSE says that a core starts only when the one before it is
gone; see "Disagreements" for what happens otherwise.

### CoreLifecycle

`lifecycleMu` admits one Start or Stop at a time, so one program counter `pc` is enough; the steps are those
at which another goroutine can see a difference: the published pointers under `stateMu`, the mark, the
resolver, the flag and the kill in `Process.Stop`, and the two halves of `closeXray`. A Start asks for any
set of features, fails at any stage the code lets it fail at, and is refused while a box is published; what
it creates is named by its number, so a slot that points at the part of an older Start is visible. The
sidecar and the gates are only up or closed here; `XrayGate` is their inside, as `SysDns` is the inside of
the resolver.

`lifecycle_safety` (three Starts) checks that a published sidecar runs (`PublishedXrayIsLive`), that the
resolver never points at a closed box (`ResolverHasAListener`), that the mark of a Tun does not outlive it
(`MarkGoesWithTheTun`), that a killed extra process is not reported as lost (`KillIsSilent`) and that Stop
leaves nothing of the profile it found (`StopStopsEverything`). Three Starts are a profile, a refused or
failed Start that leaves parts of it behind, and a profile started over them. There is no fairness: nothing
here is promised to happen.

### CoreSupervisor

The main thread owns the record `m`; `DS_cores` owns the process and takes its tasks in order. A crash stop of
the running profile blocks `DS_cores` in a nested loop that goes on taking tasks and signals, so a task may
overtake the one that waits: the model keeps the frame that waits (a second one finds `mu_stopping` taken and goes on). Cores are numbered by generation; a
spawn may fail, a core may crash, exit with the identity code, never dial, or outlive a restart's wait. The
connection manager is reduced to a running or starting profile, the lock of a stop and `started_id`. The build
is that of Linux and macOS.

`supervisor` (`GiveUpAfter` 2 instead of 5) has two setups: three generations and a request without an exit, and
two generations with the kill switch on and an exit at any moment. Three generations are a dead core, the one in
use and the one a late restart brings. It checks that Connected means a live core whose exit has not been handled
(`ConnectedIsReal`), that a user's stop is not undone by a resume (`StopIsFinal`), that a declined profile stays
declined (`DeclinedForGood`; a start that is in flight over the present core when the exit of an older one is handled
is a later say, and what it records may be resumed), that the exit hands out no profile and spawns no core except through a restart
already past its check (`ExitIsFinal`), and that a starting supervisor ends connected or given up
(`CoreComesBack`).

*Fairness.* Both threads, the timers, and the death of a process that was told to end. Nothing makes a core dial:
the connect timer covers that.

### ConnectionManager and StartRequests

`StartRequests` is what `ConnectionManager.h` promises: every issued request is answered once, and none waits
for ever unless the program closes. `ConnectionManager` implements it (`AnsweredOnce`, with
`Requests == INSTANCE StartRequests WITH ...`). `TestRunner` (`FinishedOnce`), `AutoSelector`
(`HeldStartsResumeOnce`) and the parts of `RemoteApi` (`AnsweredOnce`) make the same promise to those who ask them
and refine the same specification.

Four actors: the main thread (`start()`, posted closures, signals), the start worker under `mu_starting`, the
stop worker under `mu_stopping`, and `DS_cores` in a crash stop. The mutexes are taken on one thread and
released on another, so they are values, not critical sections. The supervisor and the kill switch are
abstracted to their signals; that a starting core is accepted or given up, and that arming ends, are assumed
fair here because `supervisor` and `killswitch_liveness` show them. Serial 0 is the engine's own start.
Of the RPCs, the Start may outlast its deadline over a live core (`StartTimesOut`): the worker reports CoreUnavailable
and sends no Stop, the core carries the Start out or fails it later (`OwedStartRuns`), and a Start that finds a box
published fails and unpublishes it. The Stop RPC and the release of the filter fail only when the core is gone; a
release that fails over a live core would leave the filter (`ConnectionManager.cpp:366` logs it). `late` in a start and in the core is history: whether the
filter of a switch was already gone.

`connection` (two requests and one death of the core) has nine setups: two profiles switched under Tun, a
stop under Tun, a kill switch that changes, with a death or with an exit, pool rankings with geo retries, without and
with an exit, and a Start that outlasts its RPC, with a kill switch that changes, a stop or a death. It checks
that the engine shows at rest the profile the core runs (`StateIsShown`, `LoadedIsKnown`; `overdue` excuses the second
from the moment a core carries out a Start that was given up on until that core is gone, see "Disagreements"), that a filter belongs to a
start under way (`FilterIsOwned`), that a switch is covered from before the old profile stops to after the new one
runs (`SwitchIsCovered`), that an armed kill switch keeps no profile in a core without the guard identity
(`RunsWithIdentity`), that a stop made while a crashed profile waits for its core is honoured (`StopIsHonoured`), and
the refinement, with every way a request can be held back.

### RpcChannel

Callers block in `Call()`; the io thread alone touches the socket; the main thread swaps sockets with
`Reconnect()`. A frame is two tokens, so it may arrive in halves. A call may time out before, between or after
them, and the core may die at any token. Two callers with two calls let an abandoned call's answer arrive while
another waits; two sockets let the old one's bytes and signals meet the new one.

`rpc` checks that a caller gets the answer of its own request (`OwnAnswer`), that nothing pending has lost its
caller (`NoOrphan`), that after a swap nothing of the old socket is read (`NewSocketOnly`), and, under fair threads of
the program and with a core that owes nothing, that every call returns (`CallsReturn`).

### TestRunner and SpeedTest

A session runs batches one after the other. A batch has a probe for the profiles that share a box, told apart
by positional tags which every batch reuses (one stands for all), and maybe one for a full config. Poll threads
are not joined. The deadline of Test and IPTest covers the whole batch; those of UDP and site tests do not.
`isRunning()` may refuse a request whose predecessor is just ending. The core's probes are fair, since each has
a time limit. A probe checks the stop flag (`ProbeChecks`) before its RPC, and the core takes the context of the test
after it has built the box (`CoreBegins`): a stop in between cancels nothing.

`SpeedTest` is about the traffic that is credited and when it reaches the database; the core is abstracted to polls and
answers, of any test, that bring new bytes or none. The session thread and the poll threads, which outlive their test
and their session, credit and flush; a batch reads the totals of a profile when it writes its row, and its transaction
may fail at any row. The saves of the traffic looper of a running profile are left out.

`tests` has five setups: three batches of two profiles that share a box, so that a poll may outlive its batch by one
and by two; a batch with a full config as well; two requests that run, wait, are refused or are stopped, over two
batches and over one with a full config; and two speed-test sessions with two tests between them. It checks that a stored result is a
measurement of that profile (`OwnResult`), that each request is finished once (`FinishedOnce`, refining
`StartRequests`), that after a stop the core begins only tests whose probe had passed its
check (`StopCounts`) and that traffic in memory that the database lacks is marked for the next flush or part of one
under way, unless its mark went with a failed transaction or the clear of a new session (`CreditsAreKept`; `dropped`
remembers those until they are saved).

### AutoSelectorPlan, AutoSelector and AutoSelectorMonitor

`AutoSelectorPlan` holds the pure choice of members; filters and chain rules leave members out before it, and an
expired result counts as not measured. `AutoSelector` follows a start from the question whether to rank: held,
measured by a sweep, resumed early or at the end, rebuilt when the full ranking differs. Each member's result
arrives once per sweep. `guarded` is a switch under Tun, where the start worker releases its filter between
posting its end and releasing `mu_starting`. Fairness: the main thread, the worker, the ranking thread, and the
end of a sweep's tests, which `tests` shows.

`AutoSelectorMonitor` has a clock: Grace is 1 tick, back-off 1 and then 2; only their order matters. The history
variables remember when rebuilds were asked for and how long a run has failed. There is no fairness in it.

`selector` has setups for the controller (three members of every latency and one stop; a pool that stops working;
a second start with one of another profile; a second start with a member that goes) and for the monitor (an
ordinary profile; one member that is built twice, over up to three rebuilds in a row; two members of which the user
pins one; and one member, or these two, with a death of the core). It checks that once all is quiet
the selector runs on the best members (`FullRankingIsBuilt`, `BestAreBuilt`), that a resumed start is not measured
again (`NoRankingLoop`), that an early build prefers members known to work (`EarlyTakesWorking`), that every start gets
past the ranking once (`HeldStartsResumeOnce`), that a rebuild follows a whole grace period of that run's own
failures, and, as long as every answer shows all members failing, at doubling distances across
builds (`ExhaustionIsEarned`, `RebuildsBackOff`; a new build seen with untested members ends the back-off, see
"Disagreements"), and that what is saved as pinned is what the
core pinned (`PinIsTheCores`, within one build).

### Remote API: RemoteConnection, RemoteJobs, RemoteEvents, RemoteLogs, RemoteTransfers

The router is on the main thread; whatever waits is a waiter with a deadline. Each part that has waiters is run
with deadlines and without them: with them each request is answered once, and without them the change itself still
finds the request, so that a deadline never hides a lost wake-up (`AnsweredOnce`; a job dropped from the full list is
the one exception, and there the deadline is needed). Fairness: workers end, posts are handled, timers fire, the user
answers a question.

- `RemoteConnection`: the engine is its signals (refused at once, deferred, or a worker that posts its end before
  the end of Connecting), with starts, stops and crashes of others. `SettledWhenTold`: a request told ok sees the
  settled state; `NothingFiledForever`: an answered request is filed nowhere. Every answer is counted, also
  those given at once, so that a second one would show. Two requests and one other.
- `RemoteJobs`: a cancelled job never reports done (`CancelIsReported`), although the session is released before
  the stop flag is read, and the stop runs on its own thread. `JobsEnd`: a listed job ends. The list keeps two jobs of
  three requests, so jobs are dropped too.
- `RemoteEvents`: a client that follows the feed catches up with every change (`ClientCatchesUp`, `NoChangeIsLost`),
  once the poll has begun (`writes.blind` remembers a silent write before that) and with values that do not come back.
- `RemoteLogs`: a ring of three lines or four bytes, two sizes of line, slices of one or two.
  `EveryLineAccounted`: received and missed lines are exactly the lines up to the cursor.
- `RemoteTransfers`: a file is the sequence of its two chunks; writes fall short, entries are deleted or swept while a
  worker builds or checks, reports arrive late. `CompleteIsIntact`, `NoOrphanFile`. One transfer and five requests are
  an upload with a failed chunk, its inspection and its use. A file can be removed while it is open, truncation is
  taken to succeed, and the sweep may take any idle entry.

### ExitRequests

One thread in three depths: an event, a question's nested loop, the teardown's nested loops. The questions are
those of Windows. `remote` checks that an exit does not inherit the reason or mark of one that was declined or turned
away (`FreshExit`), that the program that ends has done what its exit was for (`EndsAsBegun`), and that a restart after
a restore happens in the end (`RestartFollows`), as long as no question is asked between queueing and running the exit
(`crossed`).

### HeadlessBoot

Boots of the headless process with the record on disk: the guard's fields `g`, what else the process knows `p`,
and a history of what really happened. The process may die at every step; the core may die, give up or be retried;
a user starts, stops and switches; exits race each other. Timers carry no clock, except that the watchdog's limits
are longer than the 60 s of a boot start. A save that fails and an unreadable record, which is a fresh one, are
left out. `headless_boot` (four boots, two core deaths in each, two strikes and two unstable boots instead of
three) checks that the strikes are exactly the boots the profile brought down (`StrikesAreDeaths`), that it is then
not resumed (`CrashLoopEnds`), that a core that never works ends in a process that stays up (`ApiStaysUp`), and
that the recorded exit is the real one, a stop during a restart included (`LastExitIsTrue`). Four boots are two
that fail, the one that is affected, and one after it.

### Where TLC may stop

Configurations with `CHECK_DEADLOCK FALSE` (`rpc`, `selector`, `remote`, `headless_boot`) are those whose actors have
only a bounded number of calls, requests, boots or ticks: at the bound nothing is left to do. Everywhere else a
deadlock would be reported.

## Proofs

TLAPS proves the following for every value of the constants, from the assumptions the modules state on them.
These only say that an absent value is not a member (`GateAssumption`, `KillSwitchAssumption`, `SysDnsAssumption`,
`NoneAssumption`, `ProfileAssumption`, `ProfilesAssumption`), that bounds and limits are numbers of the right size
(`LifecycleAssumption`, `BoundAssumption`, `LimitAssumption`, `SetupAssumption`) and that there is a configuration. Two of the
theorems of `SysDns` have a hypothesis of their own, `~Overlap`. Every inductive invariant `IInv` was checked with TLC
on the instance of the module's run before it was proved, and every proof has a lemma per action or small group of actions.

`XrayGate_proofs`: `TypeCorrect`, `HandoutCurrent`, `RelaysRide`, `NoLeak`, `ClosedIsDown` and, of the last two
together, `Outlived`, for any set of connections and any number of starts. None of the properties is inductive. A relay rides its instance
because of what was true when it was bound, so the invariant `IInv` also says: which handlers are counted at
which point (`CountInv`), where the owner and the sweeper are when the gate is closed (`PhaseInv`), that each
running instance is held by the gate, the owner or the sweeper, and by one of them only (`HolderInv`), that
an instance handed out in the current generation is the gate's own (`HandedInv`: a handler is counted before
`ensure`, and the sweeper looks at the count under the same mutex), that a tracked socket carries its handler's
generation (`TrackInv`), and that a relay of an older generation is among the sockets the owner has still to
cut (`RideInv`). One lemma per action shows that the action keeps `IInv`.

`KillSwitch_proofs`: `TypeCorrect`, `ArmedIsGuarded`, `FailsClosed`, `NoOrphan`, `NoLostWakeup`,
`StaleIsRetried` and the action property `HandoverHasNoGap`, for any number of guards and configurations.
`IInv` joins the types with what unread output says about its process (`OutputInv`), which guards the object
may hold and that the others are closing (`HolderInv`), what each `state` says about the active and the
pending guard (`StateInv`), that waiters exist only beside something pending (`WaitInv`) and that outdated
settings have a retry ahead (`StaleInv`). The slots share private methods, so lemmas about those (`ApplyOff`,
a spawn, a process that changes state) carry the lemmas about the slots.

`CoreLifecycle_proofs`: `ShowsOnlyLive` (the invariant `WhatShowsIsLive`) and the action properties `KillsAreSilent`
(`KillIsSilent`) and `StopLeavesNothing` (`StopStopsEverything`), for any number of Starts. What is published is live
because of what the last Start made and of the stage at which a request is, so `IInv` says: which Start the request at
work is about, and that nothing of later ones exists (`WorkInv`); that a sidecar of the last Start that runs is in its
slot or about to be closed by `closeXray`, never both (`SlotInv`); that a process is killed only after its flag was set
and reported only after it was waited for (`ExtraInv`); which box runs at which stage, and that the resolver is put
back before a box closes (`BoxInv`); and how the mark follows the rules of its Tun (`MarkInv`).

`SysDns_proofs`: `TypeCorrect` and `LateFollowsDoNothing` (`NoFollowAfterRelease`) with any cores, overlapping ones too;
`EveryChangeIsRecorded` (`ChangesAreRecorded`) and `DefaultIsFollowed` (`FollowsTheDefault`) under `~Overlap`, for any
number of cores and services. That the record undoes what was changed is a relation between the record, the servers of
each service and the phase of the one core that lives; the invariant states it for every step of Prepare, Follow,
Release and the replay, since a core may die at each of them. With `Overlap` it is false, see "Disagreements".

`CoreSupervisor_proofs`: `ConnectedMeansReal` (`ConnectedIsReal`) and `UnwantedStaysAway` (`NothingUnwanted`: the
invariants `StopIsFinal` and `DeclinedForGood` and the action property `ExitIsFinal`), for any limit, any number of cores
and of requests. `IInv` adds: how the generations, process ids and the socket in the backlog are ordered, and that a
process that is only starting has not been accepted (`GenInv`); that the first core is created before anything else on
`DS_cores` and the last kill is queued only by the exit (`TaskInv`); that a frame that waits holds `mu_stopping`
(`FrameInv`); that nothing has happened before `start()` (`StartInv`); that after a stop or a decline no field is left
from which a profile could be resumed (`SayInv`); and that the exit of the accepted core is unhandled and has not
happened, waits in the blocked frame, or is posted (`ConnInv`). Steps of the main thread and steps of `DS_cores` each
have a lemma that says in which limits they keep `IInv` (`MainSide`, `CoreSide`). The first attempt failed for a good
reason: an exit of an older core that is handled while a start over the present core is in flight may decline or give
up, and that start then records its profile. The start is the later say, so the history `asked` does not count such a
decline.

`ConnectionManager_proofs`, for any profiles and any number of requests, stops, deaths and changes of the kill switch,
proves every safety property of `connection` and the steps of its refinement. Each invariant stands on the ones before it:

- `SwitchesAreCovered` (`FilterCoversTheSwitch`). `IInv` joins the types with the fact that `mu_starting` admits one
  start worker (`SoleStarter`) and that a worker holds the filter only past `InstallGuard` (`HeldInv`): without the
  first, a second start could hand back the filter of the first.
- `ArmedGuardKeepsIdentity` (`RunsWithIdentity`). `IdentityInv`: a core that is not running, that is probed, or that
  lacks the identity under an armed kill switch and has no restart pending holds nothing but what a worker that was
  launched over an earlier core put there, and no other worker is under way; and `DS_cores` cleans up only after a
  dead core (`DeadInv`).
- `StopsAreHonoured`, a lemma: after a stop nothing is left, in any of the places where a start can wait, from which a
  profile could be started (`AfterStop`), and every request names a profile (`RequestsName`).
- `WhatIsShownRuns` (`StateIsShown`). What is shown may be outdated only while a closure or a teardown that will
  correct it is still to come (`ShownInv`), and the closures of a stop are queued in the order in which they were posted
  (`PostsInv`): with two of them swapped, Stopping would stay.
- `WhatIsLoadedIsKnown` (`LoadedIsKnown`), for a core that has not carried out a Start the engine gave up waiting for.
  Refused Starts, and Starts that are still owed, are part of it. A start worker and a stop worker never work on the same running profile
  (`WorkInv`), a loaded profile is recorded, about to be recorded, or in a core that is being replaced (`KnownInv`), and
  a crash stop holds up `DS_cores` until it has cleared (`CrashInv`).
- `RequestsAreAnsweredOnce`: every step of the manager is a step of `StartRequests` or a stutter. `ReqInv` says that each
  request that is held is unanswered, and that no two of the kill switch, the core, the ranking, the workers and the
  posted answers hold the same one; what `start()` supersedes is in the main thread's fields alone, so it answers it as
  the last.
- `TheEngineIsTruthful` (`EngineIsTruthful`) joins the types, `LoadedIsKnown`, `StateIsShown` and `StopIsHonoured`.

One attempt failed for a good reason. An exit that interrupts the stop of a guard restart leaves the old core with
its profile loaded while nothing is recorded as running. No setup of the run had shown it; the sixth one does. The
exit kills that core a moment later (`ExitController.cpp:31`), so `LoadedIsKnown` is about a core that no restart is
to replace.

`RpcChannel_proofs`: `CallsNeverMix` (`CallsAreKeptApart`), for any number of callers, calls and sockets. `IInv` adds to
the three parts of the property: that an id belongs to one caller (`IdInv`) and a call in the map, or not yet in it, is
open and not being filled (`MapInv`); that what came over the present socket and over later ones, the half-read frame
in the buffer included, is an alternation of headers and their data (`StreamInv`), so that what is handed over belongs
to the call (`FillInv`); that sockets are swapped in in the order they dialed (`SwapInv`); and that the socket a call
was made over, or a later one, is in use before its write leaves the queue (`OrderInv`).

`HeadlessBoot_proofs`: `RecordTellsTheTruth` (`RecordIsTrue`) and `NoLoopGoesOn` (`LoopsEnd`), for any limits and any
number of boots, with a death at every step. `IInv` relates the record on disk, the guard's copy of it and what really
happened: when the two records agree (`DiskInv`), that the record is armed exactly while the window of a resumed profile
runs (`WindowInv`), that what the next boot will count is what happened (`CountInv`), what the boot start may still do
(`BootInv`), whom the end of the core will be blamed on (`RunInv`), that the exit that was noted is the one that comes
(`ExitInv`), and how the boots that could not work are counted (`StableInv`).

Only model-checked: the liveness properties (`NothingHangs`, `NobodyIsStuck`, `CoreComesBack`, `CallsReturn` and the
others) and with them the liveness half of the refinements of `StartRequests` (fairness and `ENABLED` are out of the
proof system's reach), and all of the tests, the selector and the remote API: `OwnResult`, `CreditsAreKept`,
`SelectionIsRight`, `EarlyTakesWorking`, `NothingLeftBehind` and `CompleteIsIntact` have no proof yet. Nothing here is
defined by recursion, whose results, an induction over data, the proof system could not show either.

## Disagreements met while modelling

The models follow the code, also where a comment says otherwise. These are the places where the two part; each
was seen in a behaviour of the model. A checked property that one of them would violate carries the condition named
here.

- `KillSwitch.cpp:175`: `failedForIdentity()` accepts a pending guard, so after a guard crash under an identity failure
  it answers true while no guard has its rules in force. `KillSwitch.hpp:39`: "while a guard still runs and blocks".
- `sysdns_darwin.go:65`: `Prepare` saves its record over that of a predecessor that still lives, and the services it
  lists are lost (`Overlap` TRUE). `sysdns_darwin.go:30`: "whatever a dead core left behind can be put back by the next
  one".
- `lifecycle.go:159`: a Start whose `sysdns.Apply` fails closes its box while it is published. `lifecycle.go:198`, of
  Stop: "a poll mid-teardown sees no instance rather than a dying one".
- `lifecycle.go:33` and `:89`, against no comment: a refused Start unpublishes the box that refused it, and a Start that
  fails in the Xray stage leaves its extra process running.
- `CoreSupervisor.cpp:721`: a guard restart that waits for its crash stop spawns a core after `shutdown()` returned, the
  exception in `ExitIsFinal`. `CoreSupervisor.h:49`: "stops every restart".
- `CoreSupervisor.cpp:253`: after `resetCore()` a core accepted before the reset's task runs still starts the waiting
  profile. `CoreSupervisor.h:58`: "restarts the core with nothing to resume".
- `CoreSupervisor.cpp:618`: a privilege change that meets an unconnected core replaces the start that waits for it by the
  started profile. `CoreSupervisor.h:60`: "restart it and start profileId once it connects".
- `ConnectionManager.cpp:484`: the core dies during the user's stop of a running profile, and the profile is started
  over the next core. `ConnectionManager.cpp:415`: "a user stop cancels that". `StopIsHonoured` is about the stop made
  while the profile already waits.
- `ConnectionManager.cpp:222`: a Start that outlasts the 30 s of its RPC (`RPC.cpp:46`) is reported as CoreUnavailable and
  not stopped; the core goes on and publishes the box (`lifecycle.go:154`), which runs while the engine shows Idle. The
  next Start is refused and unpublishes it (`lifecycle.go:33`), and the box runs on; no comment
  says otherwise. `LoadedIsKnown` excuses a core that did so (`overdue`).
- `RPC.cpp:150`: the old socket's hang-up between `Reconnect()` and the queued swap clears `connected_` for good, over a
  live core. `CoreSupervisor.cpp:449`: "A dropped channel means the core is exiting".
- `TestRunner.cpp:300`: a poll that passed the generation check drains what the next batch has published; progress and
  result hook of those profiles are lost until the RPC ends. `TestRunner.h:157`: "a late tick must not drain the next
  batch".
- `TestRunner.cpp:259`: a UDP batch may outlive its 30 s deadline, and its results are stored under the profiles of the
  next batch. `TestRunner.cpp:61`: "the deadline covers its worst case". The setups of `tests` for `OwnResult` have no UDP
  session.
- `TestRunner.cpp:277`: a probe that has passed its check of the stop flag goes on, and `probe.go:52` cancels only tests
  that have taken their context, so a test may begin after `stop()` and run to its end. `TestRunner.cpp:463`: "a stop()
  that lands before the worker runs must still count". `StopCounts` excuses the tests asked for by then (`late`).
- `TestRunner.cpp:686`: the marks are cleared before the batch is written, and nobody looks at the result of its
  transaction (`Database.cpp:199`); `TestRunner.cpp:587`: a session that begins drops the mark a late poll made after its
  flush. The traffic then stays out of the database unless the profile is credited or saved again.
  `TestRunner.cpp:636`: "A short or cancelled test may finish before the periodic flush", which is why the session
  flushes at its end. `CreditsAreKept` excuses both (`dropped`).
- `AutoSelectorMonitor.cpp:280` and `:312`: untested members count as usable, so a new build that is seen before its first
  probe ends resets the back-off. `AutoSelectorMonitor.hpp:129`: "Doubled on each consecutive rebuild". `RebuildsBackOff`
  begins anew there.
- `AutoSelectorMonitor.cpp:252` and `:179`: an answer about, or a pin for, the previous build is looked up by position in
  the new one. `AutoSelectorMonitor.cpp:183`: "tags are positional within one build and mean nothing to the next". A setup
  with `picks` has one build.
- `AutoSelectorController.cpp:217`: a rebuild that is faster than the release of the transition guard is refused as busy
  and not asked for again. `AutoSelectorController.h:48`: "rebuilds the selector if it still runs and the full ranking
  changes its build". The guard is only taken when something was running, which `Quiet` (one start) leaves out.
- `AutoSelectorController.cpp:65`: a start that is let through during a sweep reads `pool` on the main thread while the
  ranking thread assigns it. `AutoSelectorController.h:61`: "A start meanwhile builds from the pool as it stands."
- `RouterFeeds.cpp:234`: what is silently written before the first poll becomes its base line, and a value that is
  silently put back between two polls looks unchanged. `Router.hpp:227`: "Safety net for status changes no signal
  reports".
- `RouterBackup.cpp:631`: on Windows, deleting a restore during the check of its content leaves the archive on disk.
  `RouterBackup.cpp:166`: "the worker's report removes it then".
- `RouterBackup.cpp:640`: a second restore whose check was in flight is applied over the first. `Router.hpp:218`: "every
  request is answered 503 restarting".
- `RouterBackup.cpp:119`: a question the window asks after the restart was queued turns the queued call away, and nothing
  asks for the restart again (`crossed`). `RouterBackup.cpp:117`: "the restored database must not keep running".

## Not modelled

- The firewall backends of the guard, sing-box, Xray, SQLite and Qt: they appear as what the modelled code
  sees of them.
- Config generation, parsing, subscriptions and settings tables, most of the program's lines: long pure
  translations between formats without state of their own. TLC could only repeat them character by character.
- Statistics, the user interface and the dialogs: presentation over the engine's signals. Of the window only the
  exit is modelled.
- The HTTP server and the control client of the remote API, its reads and its management requests.
- The system proxy's worker, the Tun privilege checks, the leftover-adapter retry of Windows, VPN prompts, the scan
  session and the updater. Of the system proxy two weaknesses were met: a stop between the publication of a run and
  its queued proxy task clears first (`ConnectionManager.cpp:287`), and a Stop RPC that fails skips the clearing
  (`:441`).
- The mobile core owns a gate of its own; `XrayGate` assumes, as both owners do, that Recycle and Close are
  called one at a time.
