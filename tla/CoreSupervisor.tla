--------------------------- MODULE CoreSupervisor ---------------------------
(***************************************************************************)
(* The supervisor of the core process (src/src/engine/supervisor, and the  *)
(* process class of src/src/sys/Process.cpp), as built on Linux and macOS. *)
(*                                                                         *)
(* Two threads.  The main thread owns the record m and handles, one at a   *)
(* time, what DS_cores posts to it (in order), the accepted socket, the    *)
(* two timers, the privilege probe's answer and the calls of the rest of   *)
(* the engine.  DS_cores owns the process: it takes the queued tasks in    *)
(* order and handles the process signals; a crash stop of the running      *)
(* profile blocks it in a nested loop, which keeps taking tasks and        *)
(* signals, so a task may overtake the one that waits.                     *)
(*                                                                         *)
(* The connection manager is abstracted to what the supervisor meets: a    *)
(* profile that runs or is being started, the lock of a stop in progress   *)
(* and the started profile it records.                                     *)
(***************************************************************************)
EXTENDS Integers, Sequences, FiniteSets

CONSTANTS Profile,      \* profiles a start may name
          None,         \* no profile (-1, NoProfileId)
          GiveUpAfter,  \* kGiveUpAfter: failures in a row before giving up
          Setups        \* the settings and the bounds the specification covers

\* What one run of the program is given: kill_switch (the core is spawned with
\* the guard identity), whether it may be told to exit, and the bounds on the
\* generations of the core process and on the requests of the user and of the
\* kill switch.
Setup == [killSwitch : BOOLEAN, mayExit : BOOLEAN, gens : Nat \ {0}, requests : Nat]

ASSUME NoneAssumption == None \notin Profile
ASSUME SetupAssumption == GiveUpAfter \in Nat \ {0} /\ \A s \in Setups : s \in Setup

VARIABLES m,         \* the fields only the main thread writes
          proc,      \* the CoreProcess and the generation whose exit is expected
          settings,  \* started_id, core_running, prepare_exit, identityUnsupported
          cores,     \* tasks queued on DS_cores
          posts,     \* reports posted from DS_cores to the main thread
          blocked,   \* the DS_cores frame waiting for a crash stop, or NoFrame
          stopper,   \* who holds mu_stopping: "nobody", "frame", "user", "exit"
          running,   \* the profile the connection manager runs
          starting,  \* the profile whose Start RPC is in flight, and over which core
          sock,      \* pid of a pending connection to the IPC server, 0 if none
          probe,     \* generations whose privilege probe is unanswered
          down,      \* the exit: "no", "killing" (shutdown() waits), "closed"
          asked,     \* history: the latest say about resuming a profile
          carried,   \* history: what coreStarted carried since then
          setup      \* the setup; its requests are what is left of them
vars == <<m, proc, settings, cores, posts, blocked, stopper, running, starting,
          sock, probe, down, asked, carried, setup>>

KillSwitchOn == setup.killSwitch
MayExit == setup.mayExit
MaxGen == setup.gens
conn == <<stopper, running, starting>>
hist == <<asked, carried, setup>>
ProfileOrNone == Profile \union {None}
Gen == 0 .. MaxGen
NoStart == [id |-> None, pid |-> 0]
NoFrame == [op |-> "none", gen |-> 0, code |-> "other", manual |-> FALSE]
Frame(op, gen, code, manual) == [op |-> op, gen |-> gen, code |-> code, manual |-> manual]
Task(op, gen, stop) == [op |-> op, gen |-> gen, stop |-> stop]
Spawned(gen) == [ev |-> "spawned", gen |-> gen, failed |-> FALSE, code |-> "other"]
Exited(gen, failed, code) == [ev |-> "exited", gen |-> gen, failed |-> failed, code |-> code]
DeadRestart == [ev |-> "deadRestart", gen |-> 0, failed |-> FALSE, code |-> "other"]

Alive == {"starting", "running", "dying"}

TypeOK ==
  /\ m \in [state : {"NotStarted", "Starting", "Connected", "Backoff", "GaveUp",
                     "ListenFailed", "ShuttingDown"},
            startWhenUp : ProfileOrNone, probing : BOOLEAN,
            failures : Nat, startFailures : Nat, handledExitGen : Gen, acceptedGen : Gen,
            connectGen : Gen, timedOutGen : Gen, restartTimer : BOOLEAN,
            connectTimer : BOOLEAN, crashTimer : BOOLEAN]
  /\ proc \in [st : Alive \union {"absent", "none"}, gen : Gen, pid : Gen, expected : Gen,
            dialed : BOOLEAN]
  /\ settings \in [startedId : ProfileOrNone, coreRunning : BOOLEAN,
                   prepareExit : BOOLEAN, identityUnsupported : BOOLEAN]
  /\ \A i \in DOMAIN cores :
       cores[i] \in [op : {"create", "restart", "reset", "expectKill", "kill", "exitKill"},
                     gen : Gen, stop : {"no", "auto", "manual"}]
  /\ \A i \in DOMAIN posts :
       posts[i] \in [ev : {"spawned", "exited", "deadRestart"}, gen : Gen,
                     failed : BOOLEAN, code : {"identity", "other"}]
  /\ blocked \in [op : {"none", "exit", "failed", "restart", "reset"}, gen : Gen,
                  code : {"identity", "other"}, manual : BOOLEAN]
  /\ stopper \in {"nobody", "frame", "user", "exit"}
  /\ running \in ProfileOrNone /\ starting \in [id : ProfileOrNone, pid : Gen]
  /\ sock \in Gen /\ probe \subseteq Gen /\ down \in {"no", "killing", "closed"}
  /\ asked \in {"boot", "start", "stop", "reset", "declined"} /\ carried \in ProfileOrNone
  /\ setup \in Setup

Init ==
  /\ m = [state |-> "NotStarted", startWhenUp |-> None, probing |-> FALSE, failures |-> 0,
          startFailures |-> 0, handledExitGen |-> 0, acceptedGen |-> 0, connectGen |-> 0,
          timedOutGen |-> 0, restartTimer |-> FALSE, connectTimer |-> FALSE, crashTimer |-> FALSE]
  /\ proc = [st |-> "absent", gen |-> 0, pid |-> 0, expected |-> 0, dialed |-> FALSE]
  /\ settings = [startedId |-> None, coreRunning |-> FALSE, prepareExit |-> FALSE,
                 identityUnsupported |-> FALSE]
  /\ cores = << >> /\ posts = << >> /\ blocked = NoFrame
  /\ stopper = "nobody" /\ running = None /\ starting = NoStart
  /\ sock = 0 /\ probe = {} /\ down = "no" /\ asked = "boot" /\ carried = None
  /\ setup \in Setups

\* Mutant of Exiting: only a shutdown that reached the supervisor counts.
ExitReached == m.state = "ShuttingDown"
Exiting == m.state = "ShuttingDown" \/ settings.prepareExit
CanStartCore == m.state \notin {"ListenFailed", "ShuttingDown"}
BeginRestart(s) == [s EXCEPT !.probing = FALSE, !.restartTimer = FALSE, !.connectTimer = FALSE,
                             !.failures = 0, !.startFailures = 0, !.state = "Starting"]
ScheduleRestart(s) == [s EXCEPT !.state = "Backoff", !.restartTimer = TRUE]

Max(a, b) == IF a > b THEN a ELSE b

\* The exit of the core a restart replaces is moot, and is handled as such.
PostProcessRestart(s, stop) ==
  /\ m' = [s EXCEPT !.handledExitGen = Max(@, proc.gen)]
  /\ cores' = Append(cores, Task("restart", 0, stop))

-----------------------------------------------------------------------------
(* The process class, on DS_cores. *)

\* Kill() of a live process: its exit is reported once the system reaped it.
Killed(p) == IF p.st \in {"starting", "running"} THEN [p EXCEPT !.st = "dying"] ELSE p
StartedBy(p) == IF p.st = "starting" THEN <<Spawned(p.gen)>> ELSE << >>

\* CoreProcess::Restart(): the old process ends in time and silently, or
\* outlives the 500 ms wait, and then start() refuses and only the generation
\* moves.
Restart(s, p) ==
  /\ p.gen < MaxGen
  /\ \/ /\ proc' = [p EXCEPT !.gen = @ + 1, !.pid = p.gen + 1, !.st = "starting", !.dialed = FALSE]
        /\ settings' = [s EXCEPT !.coreRunning = FALSE]
     \/ /\ p.st \in Alive
        /\ proc' = [p EXCEPT !.gen = @ + 1, !.st = "dying"]
        /\ settings' = s
  /\ posts' = posts \o StartedBy(p)

\* What a DS_cores frame does once its crash stop is over: the exit report
\* carries the generation read before the stop, a failed exec the present one.
Continue(f, s, p) ==
  CASE f.op = "exit" ->
         /\ posts' = Append(posts, Exited(f.gen, FALSE, f.code))
         /\ settings' = s /\ proc' = p
    [] f.op = "failed" ->
         /\ posts' = Append(posts, Exited(p.gen, TRUE, "other"))
         /\ settings' = s /\ proc' = p
    [] f.op = "restart" -> Restart(s, p)
    [] f.op = "reset" ->
         /\ settings' = [s EXCEPT !.startedId = None]
         /\ proc' = [Killed(p) EXCEPT !.expected = p.gen]
         /\ posts' = posts \o StartedBy(p)

\* Mutant of StopThen: with nothing to stop the frame returns without its report.
StopOnly(f, s, p) ==
  IF running # None /\ stopper = "nobody"
  THEN /\ blocked' = f /\ stopper' = "frame" /\ settings' = s /\ proc' = p
       /\ UNCHANGED <<posts, running, starting>>
  ELSE settings' = s /\ proc' = p /\ UNCHANGED <<posts, blocked, conn>>
\* StopRunningProfile(true, true, f.manual) and then the rest of the frame:
\* with nothing running, or a stop already in progress, it returns at once.
StopThen(f, s, p) ==
  IF running # None /\ stopper = "nobody"
  THEN /\ blocked' = f /\ stopper' = "frame" /\ settings' = s /\ proc' = p
       /\ UNCHANGED <<posts, running, starting>>
  ELSE Continue(f, s, p) /\ UNCHANGED <<blocked, conn>>

CrashStopDone ==
  /\ stopper = "frame"
  /\ running' = None /\ stopper' = "nobody" /\ blocked' = NoFrame
  /\ Continue(blocked, IF blocked.manual THEN [settings EXCEPT !.startedId = None] ELSE settings, proc)
  /\ UNCHANGED <<m, cores, starting, sock, probe, down, hist>>

TakeTask ==
  /\ cores # << >>
  /\ cores' = Tail(cores)
  /\ LET t == Head(cores) IN
     CASE t.op = "create" ->
            /\ proc' = [proc EXCEPT !.gen = 1, !.pid = 1, !.st = "starting"]
            /\ UNCHANGED <<settings, posts, blocked, conn, down>>
       [] t.op = "restart" ->
            IF settings.prepareExit THEN UNCHANGED <<proc, settings, posts, blocked, conn, down>>
            ELSE /\ IF t.stop = "no" THEN Restart(settings, proc) /\ UNCHANGED <<blocked, conn>>
                    ELSE StopThen(Frame("restart", 0, "other", t.stop = "manual"), settings, proc)
                 /\ UNCHANGED down
       [] t.op = "reset" -> StopThen(Frame("reset", 0, "other", TRUE), settings, proc) /\ UNCHANGED down
       [] t.op \in {"expectKill", "kill"} ->
            /\ proc' = IF t.op = "expectKill" THEN [Killed(proc) EXCEPT !.expected = proc.gen]
                       ELSE IF t.gen \in {0, proc.gen} THEN Killed(proc) ELSE proc
            /\ posts' = posts \o (IF t.op = "expectKill" \/ t.gen \in {0, proc.gen}
                                  THEN StartedBy(proc) ELSE << >>)
            /\ UNCHANGED <<settings, blocked, conn, down>>
       [] t.op = "exitKill" ->
            /\ proc' = IF proc.st \in Alive THEN [proc EXCEPT !.st = "none"] ELSE proc
            /\ settings' = [settings EXCEPT !.coreRunning = FALSE]
            /\ down' = "closed"
            /\ UNCHANGED <<posts, blocked, conn>>
  /\ UNCHANGED <<m, sock, probe, hist>>

ProcessStarted ==
  /\ proc.st = "starting"
  /\ proc' = [proc EXCEPT !.st = "running"]
  /\ posts' = Append(posts, Spawned(proc.gen))
  /\ UNCHANGED <<m, settings, cores, blocked, conn, sock, probe, down, hist>>

\* stateChanged(NotRunning).  The generation is read before the cleanup, which
\* a queued restart may overtake; a failed exec reports after it.
ProcessEnds(f) ==
  /\ LET s == [settings EXCEPT !.coreRunning = FALSE]
         p == [proc EXCEPT !.st = "none"] IN
     IF settings.prepareExit
     THEN settings' = s /\ proc' = p /\ UNCHANGED <<posts, blocked, conn>>
     ELSE StopThen(f, s, p)
  /\ UNCHANGED <<m, cores, sock, probe, down, hist>>
SpawnFails == proc.st = "starting" /\ ProcessEnds(Frame("failed", proc.gen, "other", FALSE))
CoreExits ==
  /\ proc.st \in {"running", "dying"}
  /\ \E code \in {"identity", "other"} :
       /\ code = "identity" => KillSwitchOn /\ proc.st = "running" /\ ~settings.identityUnsupported
       /\ ProcessEnds(Frame("exit", proc.gen, code, FALSE))

\* The core dials the IPC server once; the connection waits in its backlog.
CoreDials ==
  /\ proc.st = "running" /\ ~proc.dialed
  /\ sock' = proc.pid /\ proc' = [proc EXCEPT !.dialed = TRUE]
  /\ UNCHANGED <<m, settings, cores, posts, blocked, conn, probe, down, hist>>

-----------------------------------------------------------------------------
(* The main thread: what it is told. *)

onNewConnection ==
  /\ sock # 0 /\ down # "closed"
  /\ sock' = 0
  /\ IF \/ proc.st \notin Alive \/ sock # proc.pid
        \/ proc.gen <= m.handledExitGen \/ proc.gen <= m.timedOutGen
     THEN UNCHANGED <<m, settings, probe>>
     ELSE /\ settings' = [settings EXCEPT !.coreRunning = TRUE]
          /\ IF Exiting THEN UNCHANGED <<m, probe>>
             ELSE /\ m' = [m EXCEPT !.acceptedGen = Max(@, proc.gen), !.connectTimer = FALSE,
                                    !.state = "Connected", !.probing = TRUE]
                  /\ probe' = probe \union {Max(m.acceptedGen, proc.gen)}
  /\ UNCHANGED <<proc, cores, posts, blocked, conn, down, hist>>

\* An answer, or a probe that timed out on a channel that is still up, lets the
\* waiting start go; a dropped channel leaves it to the exit report.
onPrivilegeProbed ==
  \E g \in probe :
    /\ probe' = probe \ {g}
    /\ IF ~m.probing \/ g # m.acceptedGen \/ m.state # "Connected" \/ Exiting
       THEN UNCHANGED <<m, starting, carried>>
       ELSE \/ /\ proc.st # "running"
               /\ UNCHANGED <<m, starting, carried>>
            \/ /\ m' = [m EXCEPT !.probing = FALSE, !.startFailures = 0, !.startWhenUp = None]
               /\ IF m.startWhenUp # None
                  THEN /\ carried' = m.startWhenUp
                       /\ starting' = IF starting = NoStart /\ stopper = "nobody"
                                      THEN [id |-> m.startWhenUp, pid |-> proc.pid] ELSE starting
                  ELSE UNCHANGED <<starting, carried>>
    /\ UNCHANGED <<proc, settings, cores, posts, blocked, stopper, running, sock, down, asked, setup>>

\* Mutant of WatchConnect: a spawned core is not given a deadline.
NotWatched(s, g) == [s EXCEPT !.connectGen = g]
WatchConnect(s, g) == [s EXCEPT !.connectGen = g, !.connectTimer = TRUE]
onCoreSpawned ==
  /\ posts # << >> /\ Head(posts).ev = "spawned"
  /\ posts' = Tail(posts)
  /\ m' = IF m.state # "Starting" \/ Head(posts).gen <= m.acceptedGen \/ Exiting THEN m
          ELSE WatchConnect(m, Head(posts).gen)
  /\ UNCHANGED <<proc, settings, cores, blocked, conn, sock, probe, down, hist>>

onConnectTimeout ==
  /\ m.connectTimer
  /\ LET s == [m EXCEPT !.connectTimer = FALSE] IN
     IF m.state # "Starting" \/ Exiting \/ m.connectGen <= m.acceptedGen \/ m.connectGen # proc.gen
     THEN m' = s /\ UNCHANGED cores
     ELSE /\ m' = [s EXCEPT !.timedOutGen = m.connectGen]
          /\ cores' = Append(cores, Task("kill", m.connectGen, "no"))
  /\ UNCHANGED <<proc, settings, posts, blocked, conn, sock, probe, down, hist>>

\* What an exit leaves waiting for the next core: a core that never connected
\* took no start, so one that waits for it is kept.
Resumes(s, wasConnected) ==
  IF wasConnected \/ s.startWhenUp = None THEN settings.startedId ELSE s.startWhenUp
ExpectedResumes(s, wasProbing) ==
  IF wasProbing /\ s.startWhenUp # None THEN s.startWhenUp ELSE settings.startedId

DeclineResume(st) == [st EXCEPT !.startedId = None]

\* A start in flight over the present core: whatever it records is asked for later
\* than the exit that is handled.
StartIsLive == starting # NoStart /\ proc.st \in {"starting", "running"} /\ proc.pid = starting.pid

\* An unexpected exit; stable: it ran for kStableMs; soon: the last profile
\* crash was less than kProfileCrashWindowMs ago.
Unexpected(s, wasConnected, stable, soon) ==
  LET failures == IF stable THEN 1 ELSE s.failures + 1
      startFailures == s.startFailures + (IF wasConnected THEN 0 ELSE 1)
      tooFrequent == wasConnected /\ s.crashTimer /\ soon
      declined == tooFrequent /\ settings.startedId # None
      next == IF declined THEN None ELSE Resumes(s, wasConnected)
      giveUp == \/ failures >= GiveUpAfter /\ next = None
                \/ ~wasConnected /\ startFailures >= GiveUpAfter
      counted == [s EXCEPT !.failures = failures, !.startFailures = startFailures,
                           !.crashTimer = (@ \/ wasConnected) /\ ~tooFrequent,
                           !.startWhenUp = IF giveUp THEN None ELSE next] IN
  /\ m' = IF giveUp THEN [counted EXCEPT !.state = "GaveUp"] ELSE ScheduleRestart(counted)
  /\ settings' = IF declined \/ giveUp THEN DeclineResume(settings) ELSE settings
  /\ IF (declined \/ giveUp) /\ ~StartIsLive THEN asked' = "declined" /\ carried' = None
     ELSE UNCHANGED <<asked, carried>>

onCoreExited ==
  /\ posts # << >> /\ Head(posts).ev = "exited"
  /\ posts' = Tail(posts)
  /\ LET e == Head(posts)
         wasProbing == m.probing /\ e.gen = m.acceptedGen
         s == [m EXCEPT !.handledExitGen = e.gen, !.probing = @ /\ ~wasProbing]
         quiet == [s EXCEPT !.connectTimer = FALSE]
         wasConnected == ~e.failed /\ e.gen = m.acceptedGen /\ ~wasProbing IN
     IF e.gen <= m.handledExitGen THEN UNCHANGED <<m, settings, asked, carried>>
     ELSE IF Exiting THEN m' = s /\ UNCHANGED <<settings, asked, carried>>
     ELSE IF proc.expected = e.gen
     THEN /\ m' = ScheduleRestart([quiet EXCEPT !.failures = 0, !.startFailures = 0,
                                                !.startWhenUp = ExpectedResumes(s, wasProbing)])
          /\ UNCHANGED <<settings, asked, carried>>
     ELSE IF ~wasConnected /\ e.code = "identity" /\ ~settings.identityUnsupported
     THEN /\ m' = ScheduleRestart(quiet)
          /\ settings' = [settings EXCEPT !.identityUnsupported = TRUE]
          /\ UNCHANGED <<asked, carried>>
     ELSE \E stable, soon \in BOOLEAN :
            /\ stable => wasConnected
            /\ Unexpected(quiet, wasConnected, stable, soon)
  /\ UNCHANGED <<proc, cores, blocked, conn, sock, probe, down, setup>>

postRestart ==
  /\ m.restartTimer
  /\ LET s == [m EXCEPT !.restartTimer = FALSE] IN
     IF m.state # "Backoff" \/ Exiting THEN m' = s /\ UNCHANGED cores
     ELSE PostProcessRestart([s EXCEPT !.state = "Starting"], "no")
  /\ UNCHANGED <<proc, settings, posts, blocked, conn, sock, probe, down, hist>>

restartDeadCore ==
  /\ posts # << >> /\ Head(posts).ev = "deadRestart"
  /\ posts' = Tail(posts)
  /\ IF m.state \notin {"Backoff", "GaveUp"} \/ Exiting THEN UNCHANGED <<m, cores>>
     ELSE PostProcessRestart([BeginRestart(m) EXCEPT !.startWhenUp = settings.startedId], "no")
  /\ UNCHANGED <<proc, settings, blocked, conn, sock, probe, down, hist>>

-----------------------------------------------------------------------------
(* The main thread: what it is asked. *)

\* listen() fails; when it succeeds the engine goes on to start().
listen ==
  /\ m.state = "NotStarted" /\ proc.st = "absent" /\ cores = << >> /\ sock = 0
  /\ m' = [m EXCEPT !.state = "ListenFailed"]
  /\ UNCHANGED <<proc, settings, cores, posts, blocked, conn, sock, probe, down, hist>>

start(p) ==
  /\ m.state = "NotStarted"
  /\ m' = [m EXCEPT !.startWhenUp = p, !.state = "Starting"]
  /\ cores' = Append(cores, Task("create", 0, "no"))
  /\ UNCHANGED <<proc, settings, posts, blocked, conn, sock, probe, down, hist>>

\* Requests reach the supervisor once EngineHost::init() has started it.
Open == m.state # "NotStarted" /\ setup.requests > 0 /\ setup' = [setup EXCEPT !.requests = @ - 1]

resetCore ==
  /\ Open /\ CanStartCore /\ ~Exiting
  /\ asked' = "reset" /\ carried' = None
  /\ IF m.state \in {"Backoff", "GaveUp"}
     THEN /\ PostProcessRestart([BeginRestart(m) EXCEPT !.startWhenUp = None], "manual")
          /\ settings' = [settings EXCEPT !.startedId = None]
     ELSE /\ m' = BeginRestart(m)
          /\ cores' = Append(cores, Task("reset", 0, "manual"))
          /\ UNCHANGED settings
  /\ UNCHANGED <<proc, posts, blocked, conn, sock, probe, down>>

\* The kill switch armed while the core runs without the guard identity: the
\* started profile, or the start waiting for the probing core, is carried over;
\* or a user start meets that core.
GuardCarries == IF m.probing /\ m.startWhenUp # None THEN m.startWhenUp ELSE settings.startedId
restartForGuard ==
  /\ KillSwitchOn /\ Open /\ CanStartCore /\ ~Exiting /\ settings.coreRunning
  /\ \E p \in ProfileOrNone :
       /\ PostProcessRestart([BeginRestart(m) EXCEPT !.startWhenUp = p], "auto")
       /\ \/ /\ p = GuardCarries
             /\ UNCHANGED <<asked, carried>>
          \/ p # None /\ asked' = "start" /\ carried' = None
  /\ UNCHANGED <<proc, settings, posts, blocked, conn, sock, probe, down>>

killForPrivilegeChange ==
  /\ Open /\ CanStartCore
  /\ IF m.state \in {"Backoff", "GaveUp"}
     THEN posts' = Append(posts, DeadRestart) /\ UNCHANGED cores
     ELSE cores' = Append(cores, Task("expectKill", 0, "no")) /\ UNCHANGED posts
  /\ UNCHANGED <<m, proc, settings, blocked, conn, sock, probe, down, asked, carried>>

\* setStartWhenUp() while the accepted core is still being probed.
AskWhileProbing(p) == [m EXCEPT !.startWhenUp = p]
\* A user start, as ConnectionManager::start() hands it to the supervisor.
userStart(p) ==
  /\ Open /\ CanStartCore /\ ~Exiting /\ starting = NoStart /\ stopper = "nobody"
  /\ asked' = "start" /\ carried' = None
  /\ IF m.probing THEN m' = AskWhileProbing(p) /\ UNCHANGED <<cores, starting>>
     ELSE IF settings.coreRunning THEN starting' = [id |-> p, pid |-> proc.pid] /\ UNCHANGED <<m, cores>>
     ELSE /\ PostProcessRestart([BeginRestart(m) EXCEPT !.startWhenUp = p], "no")
          /\ UNCHANGED starting
  /\ UNCHANGED <<proc, settings, posts, blocked, stopper, running, sock, probe, down>>

\* The Start RPC answers, over a live channel or not; a switch has stopped the
\* old profile before it.
startAnswered ==
  /\ starting # NoStart /\ stopper = "nobody"
  /\ starting' = NoStart
  /\ \/ /\ settings.coreRunning /\ proc.st = "running" /\ proc.pid = starting.pid
        /\ running' = starting.id /\ settings' = [settings EXCEPT !.startedId = starting.id]
     \/ /\ running' = None
        /\ settings' = IF running = None THEN settings ELSE [settings EXCEPT !.startedId = None]
  /\ UNCHANGED <<m, proc, cores, posts, blocked, stopper, sock, probe, down, hist>>

\* A user stop; with nothing running it cancels the resume.
cancelResume(s) == [s EXCEPT !.startWhenUp = None]
userStop ==
  /\ m.state # "NotStarted" /\ ~Exiting /\ starting = NoStart
  /\ IF running = None
     THEN /\ m' = cancelResume(m) /\ settings' = [settings EXCEPT !.startedId = None]
          /\ asked' = "stop" /\ carried' = None /\ UNCHANGED stopper
     ELSE /\ stopper = "nobody" /\ stopper' = "user"
          /\ UNCHANGED <<m, settings, asked, carried>>
  /\ UNCHANGED <<proc, cores, posts, blocked, running, starting, sock, probe, down, setup>>
stopDone ==
  /\ stopper \in {"user", "exit"}
  /\ stopper' = "nobody" /\ running' = None
  /\ settings' = IF stopper = "user" THEN [settings EXCEPT !.startedId = None] ELSE settings
  /\ UNCHANGED <<m, proc, cores, posts, blocked, starting, sock, probe, down, hist>>

-----------------------------------------------------------------------------
(* The exit, as ExitController::shutdown() drives it. *)

prepareExit ==
  /\ MayExit /\ m.state # "NotStarted" /\ ~settings.prepareExit
  /\ settings' = [settings EXCEPT !.prepareExit = TRUE]
  /\ stopper' = IF running # None /\ stopper = "nobody" THEN "exit" ELSE stopper
  /\ UNCHANGED <<m, proc, cores, posts, blocked, running, starting, sock, probe, down, hist>>

ShutDown(s) == [s EXCEPT !.state = "ShuttingDown", !.probing = FALSE,
                         !.restartTimer = FALSE, !.connectTimer = FALSE]
killForExit ==
  /\ settings.prepareExit /\ m.state # "ShuttingDown"
  /\ m' = ShutDown(m)
  /\ cores' = Append(cores, Task("kill", 0, "no"))
  /\ UNCHANGED <<proc, settings, posts, blocked, conn, sock, probe, down, hist>>

shutdown ==
  /\ settings.prepareExit /\ down = "no" /\ stopper # "exit"
  /\ m' = ShutDown(m) /\ down' = "killing"
  /\ cores' = Append(cores, Task("exitKill", 0, "no"))
  /\ UNCHANGED <<proc, settings, posts, blocked, conn, sock, probe, hist>>

\* The program ended, or the run is at its bound.
Ends == ((down = "closed" /\ cores = << >> /\ posts = << >>) \/ proc.gen = MaxGen) /\ UNCHANGED vars

Next ==
  \/ CrashStopDone \/ TakeTask \/ ProcessStarted \/ SpawnFails \/ CoreExits \/ CoreDials
  \/ onNewConnection \/ onPrivilegeProbed \/ onCoreSpawned \/ onConnectTimeout
  \/ onCoreExited \/ postRestart \/ restartDeadCore
  \/ listen \/ (\E p \in ProfileOrNone : start(p))
  \/ resetCore \/ restartForGuard \/ killForPrivilegeChange
  \/ (\E p \in Profile : userStart(p)) \/ startAnswered \/ userStop \/ stopDone
  \/ prepareExit \/ killForExit \/ shutdown \/ Ends

\* Fair: both threads, the timers, the answers that always come (the probe and
\* the RPCs have timeouts) and the end of a spawn or of a killed process.  Not
\* fair: a core that dials or crashes, and everything the user does.
Fairness ==
  /\ WF_vars(TakeTask) /\ WF_vars(CrashStopDone) /\ WF_vars(ProcessStarted \/ SpawnFails)
  /\ WF_vars(proc.st = "dying" /\ CoreExits)
  /\ WF_vars(onNewConnection) /\ WF_vars(onPrivilegeProbed)
  /\ WF_vars(onCoreSpawned \/ onCoreExited \/ restartDeadCore)
  /\ WF_vars(onConnectTimeout) /\ WF_vars(postRestart)
  /\ WF_vars(startAnswered) /\ WF_vars(stopDone)
Spec == Init /\ [][Next]_vars
FairSpec == Spec /\ Fairness

-----------------------------------------------------------------------------
ExitOnTheWay(g) ==
  \/ blocked.op = "exit" /\ blocked.gen = g
  \/ \E i \in DOMAIN posts : posts[i].ev = "exited" /\ posts[i].gen = g

\* A supervisor that reports Connected has a live core behind the connection it
\* accepted, or the report of that core's exit is on its way to the main
\* thread, or a restart posted before the accept has replaced the core: no exit
\* is lost between the cleanup on DS_cores and onCoreExited().
ConnectedIsReal ==
  /\ TypeOK
  /\ m.state = "Connected" /\ ~settings.prepareExit =>
       \/ proc.gen = m.acceptedGen /\ proc.st \in Alive
       \/ ExitOnTheWay(m.acceptedGen)
       \/ proc.gen > m.acceptedGen

\* After a user stop with nothing running (cancelResume()) no coreStarted
\* carries a profile until the user starts one: crash resume, backoff restarts
\* and privilege restarts all read what the stop cleared.
StopIsFinal == asked = "stop" => carried = None

\* A profile declined by onCoreExited() (too frequent crashes, or giving up) is
\* not brought back by a later restart that resumes the started profile.  A
\* start in flight over the present core is the later say: what it records may
\* be resumed.
DeclinedForGood == asked = "declined" => carried = None

\* Once prepare_exit is set no coreStarted hands a profile to the connection
\* manager, and no new core is spawned except by the task that creates the
\* first one and by a restart already past its prepare_exit check.
ExitIsFinal ==
  [][settings.prepareExit =>
       /\ carried' = carried
       /\ proc'.pid # proc.pid => blocked.op = "restart" \/ proc.st = "absent"]_vars

\* Nothing comes back that nobody wants: a stopped profile, a declined one, or
\* any profile or core of a program that exits.
NothingUnwanted == []StopIsFinal /\ []DeclinedForGood /\ ExitIsFinal

\* A supervisor that is starting or backing off ends connected or given up,
\* unless the program exits (or the run meets its bound of generations): a core
\* that never dials, fails to spawn or outlives the restart's wait never leaves
\* it waiting for a report that does not come.
CoreComesBack ==
  m.state \in {"Starting", "Backoff"} ~>
    (m.state \in {"Connected", "GaveUp"} \/ settings.prepareExit \/ proc.gen = MaxGen)
=============================================================================
