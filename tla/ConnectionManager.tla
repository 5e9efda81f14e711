------------------------- MODULE ConnectionManager -------------------------
(***************************************************************************)
(* ConnectionManager: starts, stops and switches the running profile       *)
(* (src/src/engine/connection/ConnectionManager.cpp, and the kill-switch   *)
(* part of ConnectionModes.cpp), as built on Linux and macOS, with the     *)
(* transition guard that a Windows core adds.  Of the RPCs of a worker the *)
(* Start may outlast its deadline over a live core; the others are         *)
(* answered as long as the core lives.                                     *)
(*                                                                         *)
(* Four actors share its state.  The main thread runs start(), the posted  *)
(* closures, and the signals of the supervisor and of the kill switch, one *)
(* at a time.  A start worker switches the core over under mu_starting, a  *)
(* stop worker clears the running profile under mu_stopping, and DS_cores  *)
(* blocks on a crash stop when the core dies or is restarted.  A mutex is  *)
(* locked on one thread and unlocked on another.                           *)
(*                                                                         *)
(* The supervisor (module CoreSupervisor) and the kill switch (module      *)
(* KillSwitch) are abstracted to what their calls and signals promise: a   *)
(* core that is starting is accepted and probed or given up, coreStarted   *)
(* carries startWhenUp, and arming ends.                                   *)
(***************************************************************************)
EXTENDS Integers, Sequences, FiniteSets

CONSTANTS Profile,       \* profiles
          None,          \* no profile (-1)
          Setups,        \* the settings and the bounds the specification covers
          MaxRequests    \* bound: start requests with a serial

\* What one run of the program is given: the profiles it is asked to start,
\* those that rank their pool first, spmode_vpn (a switch is covered by the
\* transition guard), m_options.geoAutoDownload, whether it may be told to exit;
\* and the bounds on the stops asked of the main thread, the deaths of the core,
\* the state changes of the kill switch and the Starts that outlast their RPC.
Setup == [profiles : SUBSET Profile, ranked : SUBSET Profile, tun : BOOLEAN, geo : BOOLEAN,
          mayExit : BOOLEAN, stops : Nat, deaths : Nat, switches : Nat, slow : Nat]

ASSUME ProfileAssumption == None \notin Profile
ASSUME BoundAssumption == MaxRequests \in Nat /\ \A s \in Setups : s \in Setup

VARIABLES m,         \* the main thread's fields, the supervisor's and the kill switch's
          core,      \* in the core process: the published box's profile, its filter, whether an
                     \* unpublished box runs (stray), the Starts it owes though nobody waits
                     \* for them; history: whether the start that loaded the profile was launched
                     \* over an earlier core (late), whether an owed Start was carried out (overdue)
          cores,     \* what DS_cores does
          starters,  \* the start workers
          stopper,   \* the stop worker
          running,   \* m_running
          startedId, \* started_id
          posts,     \* closures posted to the main thread, in order
          ranking,   \* the requests a pool sweep holds back
          exiting,   \* prepare_exit
          stopped,   \* history: the user's last stop found nothing running and no start
                     \* in the works, and none was asked since
          setup      \* the setup; its bounds are what is left of them
vars == <<m, core, cores, starters, stopper, running, startedId, posts, ranking,
          exiting, stopped, setup>>

AutoSelector == setup.ranked
UseTun == setup.tun
GeoRetry == setup.geo
MayExit == setup.mayExit
ProfileOrNone == Profile \union {None}
\* A request without a serial (0) is the engine's own: nobody waits for it.
StartRequest == [serial : 0 .. MaxRequests, id : ProfileOrNone]
Own(p) == [serial |-> 0, id |-> p]
NoRequest == Own(None)
NoStop == [pc |-> "none", crash |-> FALSE, manual |-> FALSE]
\* nr tells the Starts apart that the engine gave up waiting for.
OwedStart == [nr : Nat, id : ProfileOrNone, late : BOOLEAN]
NoCore == [loaded |-> None, filter |-> FALSE, late |-> FALSE,
           stray |-> FALSE, owed |-> {}, overdue |-> FALSE]

TypeOK ==
  /\ m \in [issued : 0 .. MaxRequests, answers : [1 .. MaxRequests -> 0 .. 1],
            coreReq : StartRequest, killReq : StartRequest, boot : 0 .. MaxRequests,
            guard : BOOLEAN, connecting : BOOLEAN, disconnecting : BOOLEAN,
            shown : {"Idle", "Connecting", "Stopping", "Running"},
            geo : ProfileOrNone, geoRetried : ProfileOrNone,
            ks : {"Disabled", "Arming", "Armed", "Failed"},
            st : {"new", "listenFailed", "starting", "probing", "up", "dead", "gaveUp"},
            identity : BOOLEAN, startWhenUp : ProfileOrNone, restart : {"no", "plain", "guard"}]
  /\ core \in [loaded : ProfileOrNone, filter : BOOLEAN, late : BOOLEAN,
               stray : BOOLEAN, owed : SUBSET OwedStart, overdue : BOOLEAN]
  /\ cores \in {"idle", "died", "diedStop", "report", "restartStop"}
  /\ starters \subseteq [req : StartRequest, guard : {"no", "asked", "held"}, late : BOOLEAN,
                         pc : {"begin", "guard", "look", "stop", "wait", "rpc", "accepted",
                               "recorded", "release"}]
  /\ stopper \in [pc : {"none", "rpc", "clear", "posted", "ui"}, crash : BOOLEAN, manual : BOOLEAN]
  /\ running \in ProfileOrNone /\ startedId \in ProfileOrNone
  /\ \A i \in DOMAIN posts :
       posts[i] \in [op : {"finish", "connected", "disconnecting", "cancel", "teardown"},
                     req : StartRequest, started : BOOLEAN]
  /\ ranking \subseteq StartRequest /\ exiting \in BOOLEAN /\ stopped \in BOOLEAN
  /\ setup \in Setup

Init ==
  /\ m = [issued |-> 0, answers |-> [r \in 1 .. MaxRequests |-> 0], coreReq |-> NoRequest,
          killReq |-> NoRequest, boot |-> 0, guard |-> FALSE, connecting |-> FALSE,
          disconnecting |-> FALSE, shown |-> "Idle", geo |-> None, geoRetried |-> None,
          ks |-> "Disabled", st |-> "new", identity |-> FALSE, startWhenUp |-> None,
          restart |-> "no"]
  /\ core = NoCore /\ cores = "idle" /\ starters = {} /\ stopper = NoStop
  /\ running = None /\ startedId = None /\ posts = << >> /\ ranking = {}
  /\ exiting = FALSE /\ stopped = FALSE
  /\ setup \in Setups

\* The scope guards of the start worker: unlockStarting is declared first and
\* runs last.
StartingLockedIn == {"begin", "guard", "look", "stop", "wait", "rpc", "accepted", "recorded",
                     "release"}
mu_starting == \E w \in starters : w.pc \in StartingLockedIn
mu_stopping == stopper.pc # "none"

CoreRunning(s) == s.st \in {"probing", "up"}
HaveCore(s) == s.st \notin {"new", "listenFailed"}
AwaitingCoreStarted(s) == s.st = "probing" /\ s.restart = "no"
RunningWithoutGuardIdentity(s) == CoreRunning(s) /\ ~s.identity

\* emit startFinished.
Finish(s, r) == IF r.serial = 0 THEN s ELSE [s EXCEPT !.answers[r.serial] = @ + 1]
Post(op, r, started) == <<[op |-> op, req |-> r, started |-> started]>>

ConnectionState(s) ==
  IF s.connecting THEN "Connecting" ELSE IF s.disconnecting THEN "Stopping"
  ELSE IF running # None THEN "Running" ELSE "Idle"
SyncState(s) == [s EXCEPT !.shown = ConnectionState(s)]

-----------------------------------------------------------------------------
(* start(), on the main thread; s is m as its caller left it. *)

\* Mutant of DeferStartToCore: the request that waited is overwritten unanswered.
DeferSilently(s, r) == [s EXCEPT !.coreReq = r]
DeferStartToCore(s, r) == [Finish(s, s.coreReq) EXCEPT !.coreReq = r]

\* While a guard restart is pending the request only joins it.
RestartCoreForGuard(s, r) ==
  IF ~HaveCore(s) THEN Finish(s, r)
  ELSE [DeferStartToCore(s, r) EXCEPT !.startWhenUp = r.id, !.guard = TRUE,
                                      !.restart = IF s.guard THEN @ ELSE "guard"]

NeedsGuardRestart(s) == s.guard \/ (s.ks = "Armed" /\ RunningWithoutGuardIdentity(s))

NewStarter(r) == [req |-> r, guard |-> "no", pc |-> "begin", late |-> FALSE]

\* start() from the locks on: a lock that is taken, a core that is not up yet
\* or not up at all, and the start worker.
Launch(s, r) ==
  IF mu_starting \/ mu_stopping \/ ~HaveCore(s) THEN m' = Finish(s, r) /\ UNCHANGED starters
  ELSE IF AwaitingCoreStarted(s)
  THEN m' = [DeferStartToCore(s, r) EXCEPT !.startWhenUp = r.id] /\ UNCHANGED starters
  ELSE IF ~CoreRunning(s)
  THEN /\ m' = [DeferStartToCore(s, r) EXCEPT !.startWhenUp = r.id, !.restart = "plain"]
       /\ UNCHANGED starters
  ELSE /\ m' = SyncState([s EXCEPT !.connecting = TRUE])
       /\ starters' = starters \union {NewStarter(r)}

\* The sweep hands a request back once: early or at its end.
HeldAfter(r, ranked) == IF ranked THEN ranking \ {r} ELSE ranking
\* ranked: the sweep of this selector has just resumed the request.
Start(s0, r, ranked) ==
  LET s == [s0 EXCEPT !.geo = None]
      held == HeldAfter(r, ranked) IN
  \* Refused: exiting, no such profile, archived group, failed build, missing
  \* geo assets, kill switch failed.
  \/ m' = Finish(s, r) /\ ranking' = held /\ UNCHANGED starters
  \/ /\ ~exiting /\ s.ks = "Arming"
     /\ m' = [Finish(s, s.killReq) EXCEPT !.killReq = r]
     /\ ranking' = held /\ UNCHANGED starters
  \/ /\ ~exiting /\ s.ks \in {"Disabled", "Armed"} /\ NeedsGuardRestart(s)
     /\ m' = RestartCoreForGuard(s, r)
     /\ ranking' = held /\ UNCHANGED starters
  \/ /\ ~exiting /\ s.ks \in {"Disabled", "Armed"} /\ ~NeedsGuardRestart(s)
     /\ \/ /\ r.id \in AutoSelector /\ ranking = {} /\ ~ranked
           /\ m' = s /\ ranking' = {r} /\ UNCHANGED starters
        \/ Launch(s, r) /\ ranking' = held

StartAsked(p) ==
  /\ m.st # "new" /\ m.issued < MaxRequests
  /\ Start([m EXCEPT !.issued = @ + 1], [serial |-> m.issued + 1, id |-> p], FALSE)
  /\ stopped' = FALSE
  /\ UNCHANGED <<core, cores, stopper, running, startedId, posts, exiting, setup>>

\* The sweep is over, or has found enough working members.
StartRanked ==
  /\ \E r \in ranking : Start(m, r, TRUE)
  /\ UNCHANGED <<core, cores, stopper, running, startedId, posts, exiting, stopped, setup>>

\* Unattended geo assets are installed: the start that failed for them is made
\* again once, unless a start or a manual stop came since.
RetryAfterGeoFetch ==
  /\ m.geo # None
  /\ LET s == [m EXCEPT !.geoRetried = m.geo, !.geo = None] IN
     IF m.geoRetried = m.geo \/ exiting \/ ConnectionState(m) # "Idle"
     THEN m' = s /\ UNCHANGED <<starters, ranking>>
     ELSE Start(s, Own(m.geo), FALSE)
  /\ UNCHANGED <<core, cores, stopper, running, startedId, posts, exiting, stopped, setup>>

-----------------------------------------------------------------------------
(* The start worker. *)

Step(w, v) == starters' = (starters \ {w}) \union {v}
To(w, pc) == Step(w, [w EXCEPT !.pc = pc])

StarterBegins(w) ==
  /\ w.pc = "begin"
  /\ IF UseTun /\ running # None THEN Step(w, [w EXCEPT !.pc = "guard", !.guard = "asked"])
     ELSE To(w, IF running # None THEN "stop" ELSE "rpc")
  /\ UNCHANGED <<m, core, cores, stopper, running, startedId, posts, ranking, exiting, stopped, setup>>

\* A filter that cannot be installed is only logged.
InstallGuard(w) ==
  /\ w.pc = "guard"
  /\ \/ /\ CoreRunning(m)
        /\ core' = [core EXCEPT !.filter = TRUE]
        /\ Step(w, [w EXCEPT !.pc = "look", !.guard = "held"])
     \/ To(w, "look") /\ UNCHANGED core
  /\ UNCHANGED <<m, cores, stopper, running, startedId, posts, ranking, exiting, stopped, setup>>

\* switching.
StarterLooks(w) ==
  /\ w.pc = "look"
  /\ To(w, IF running # None THEN "stop" ELSE "rpc")
  /\ UNCHANGED <<m, core, cores, stopper, running, startedId, posts, ranking, exiting, stopped, setup>>

BeginStop(crash, manual) == stopper' = [pc |-> "rpc", crash |-> crash, manual |-> manual]

\* stop(manual) on the start worker: what it would tell the main thread is posted.
StarterStops(w) ==
  /\ w.pc = "stop"
  /\ To(w, "wait")
  /\ m' = [m EXCEPT !.geo = None]
  /\ IF running = None THEN posts' = posts \o Post("cancel", NoRequest, FALSE) /\ UNCHANGED stopper
     ELSE IF mu_stopping THEN UNCHANGED <<posts, stopper>>
     ELSE /\ posts' = posts \o Post("disconnecting", NoRequest, FALSE)
          /\ BeginStop(FALSE, TRUE)
  /\ UNCHANGED <<core, cores, running, startedId, ranking, exiting, stopped, setup>>

\* Mutant of StopIsOver: the stop is not waited for.
NotWaited == TRUE
\* mu_stopping.lock(), unlock(): until the stop's main-thread teardown ran.
StopIsOver == ~mu_stopping
StarterWaits(w) ==
  /\ w.pc = "wait" /\ StopIsOver
  /\ To(w, "rpc")
  /\ UNCHANGED <<m, core, cores, stopper, running, startedId, posts, ranking, exiting, stopped, setup>>

\* finish() and the closure that ends Connecting.
Ended(w, started) == posts \o Post("finish", w.req, started) \o Post("connected", NoRequest, FALSE)

\* Mutant of Accepted: the filter goes with the Start RPC, before the start is over.
AcceptedUnguarded(w) == [core EXCEPT !.loaded = w.req.id, !.late = w.late, !.filter = FALSE]
Accepted(w) == [core EXCEPT !.loaded = w.req.id, !.late = w.late]
\* A Start that finds a profile published fails, and its deferred clean-up
\* unpublishes the box of that profile, which runs on.
Refuses == core.loaded # None
Unpublished(c) == [c EXCEPT !.loaded = None, !.stray = TRUE]
\* The Start RPC and its answer; a core that is gone has none, and a blocked
\* extra core never asks it.
StartAnswered(w) ==
  /\ w.pc = "rpc"
  /\ \/ /\ CoreRunning(m) /\ ~Refuses
        /\ core' = Accepted(w)
        /\ To(w, "accepted")
        /\ UNCHANGED <<m, posts>>
     \/ /\ To(w, "release") /\ posts' = Ended(w, FALSE)
        /\ \/ UNCHANGED <<m, core>>
           \/ /\ CoreRunning(m) /\ ~Refuses /\ GeoRetry
              /\ m' = [m EXCEPT !.geo = w.req.id] /\ UNCHANGED core
           \/ CoreRunning(m) /\ Refuses /\ core' = Unpublished(core) /\ UNCHANGED m
  /\ UNCHANGED <<cores, stopper, running, startedId, ranking, exiting, stopped, setup>>

\* kIOTimeoutMs passes over a core that goes on with the Start: CoreUnavailable,
\* and no Stop is sent.
StartTimesOut(w) ==
  /\ w.pc = "rpc" /\ CoreRunning(m)
  /\ setup.slow > 0 /\ setup' = [setup EXCEPT !.slow = @ - 1]
  /\ core' = [core EXCEPT !.owed = @ \union {[nr |-> setup.slow, id |-> w.req.id, late |-> w.late]}]
  /\ To(w, "release") /\ posts' = Ended(w, FALSE)
  /\ UNCHANGED <<m, cores, stopper, running, startedId, ranking, exiting, stopped>>

\* The core gets to a Start nobody waits for; each has its goroutine.
OwedStartRuns ==
  /\ CoreRunning(m)
  /\ \E s \in core.owed :
       LET c == [core EXCEPT !.owed = @ \ {s}] IN
       \/ ~Refuses /\ core' = c
       \/ ~Refuses /\ core' = [c EXCEPT !.loaded = s.id, !.late = s.late, !.overdue = TRUE]
       \/ Refuses /\ core' = [Unpublished(c) EXCEPT !.overdue = TRUE]
  /\ UNCHANGED <<m, cores, starters, stopper, running, startedId, posts, ranking, exiting, stopped, setup>>

\* The HOTP counter is advanced, or the profile is stopped again.
CommitOtp(w) ==
  /\ w.pc = "accepted"
  /\ \/ To(w, "recorded") /\ startedId' = w.req.id /\ UNCHANGED <<core, posts>>
     \/ /\ To(w, "release") /\ posts' = Ended(w, FALSE)
        /\ core' = [core EXCEPT !.loaded = None]
        /\ UNCHANGED startedId
  /\ UNCHANGED <<m, cores, stopper, running, ranking, exiting, stopped, setup>>

StarterRecords(w) ==
  /\ w.pc = "recorded"
  /\ running' = w.req.id /\ To(w, "release") /\ posts' = Ended(w, TRUE)
  /\ UNCHANGED <<m, core, cores, stopper, startedId, ranking, exiting, stopped, setup>>

\* Whatever became of the start, the filter goes and mu_starting is unlocked.  (A
\* release that fails over a live core would only be logged.)
ReleaseGuard(w) ==
  /\ w.pc = "release"
  /\ starters' = starters \ {w}
  /\ core' = IF w.guard # "no" THEN [core EXCEPT !.filter = FALSE] ELSE core
  /\ UNCHANGED <<m, cores, stopper, running, startedId, posts, ranking, exiting, stopped, setup>>

StarterSteps ==
  \E w \in starters :
    \/ StarterBegins(w) \/ InstallGuard(w) \/ StarterLooks(w) \/ StarterStops(w) \/ StarterWaits(w)
    \/ StartAnswered(w) \/ StartTimesOut(w) \/ CommitOtp(w) \/ StarterRecords(w) \/ ReleaseGuard(w)

-----------------------------------------------------------------------------
(* stop(), asked on the main thread, and the stop worker. *)

CancelResume(s) == [s EXCEPT !.startWhenUp = None]

Asked == starters # {} \/ ranking # {} \/ m.coreReq # NoRequest \/ m.killReq # NoRequest
\* manual: the user's stop; else that of a deleted profile or group.
StopAsked(manual) ==
  /\ m.st # "new" /\ setup.stops > 0 /\ setup' = [setup EXCEPT !.stops = @ - 1]
  /\ LET s == IF manual THEN [m EXCEPT !.geo = None] ELSE m IN
     IF running = None
     THEN /\ m' = IF manual THEN CancelResume(s) ELSE s
          /\ startedId' = IF manual THEN None ELSE startedId
          /\ UNCHANGED stopper
     ELSE IF mu_stopping THEN m' = s /\ UNCHANGED <<stopper, startedId>>
     ELSE /\ m' = SyncState([s EXCEPT !.disconnecting = TRUE])
          /\ BeginStop(FALSE, manual)
          /\ UNCHANGED startedId
  /\ stopped' = (manual /\ running = None /\ ~Asked)
  /\ UNCHANGED <<core, cores, starters, running, posts, ranking, exiting>>

StopRpc ==
  /\ stopper.pc = "rpc"
  /\ stopper' = [stopper EXCEPT !.pc = "clear"]
  /\ core' = IF stopper.crash THEN core ELSE [core EXCEPT !.loaded = None]
  /\ UNCHANGED <<m, cores, starters, running, startedId, posts, ranking, exiting, stopped, setup>>

StopClears ==
  /\ stopper.pc = "clear"
  /\ stopper' = [stopper EXCEPT !.pc = "posted"]
  /\ startedId' = IF stopper.manual THEN None ELSE startedId
  /\ running' = None
  /\ posts' = posts \o Post("teardown", NoRequest, FALSE)
  /\ UNCHANGED <<m, core, cores, starters, ranking, exiting, stopped, setup>>

TornDown(s) == SyncState([s EXCEPT !.disconnecting = FALSE])
\* The blocking closure: a posted call starts its timer, the timer runs it.
StopTornDown ==
  /\ stopper.pc = "ui"
  /\ stopper' = NoStop
  /\ m' = TornDown(m)
  /\ cores' = IF stopper.crash /\ cores = "diedStop" THEN "report" ELSE cores
  /\ UNCHANGED <<core, starters, running, startedId, posts, ranking, exiting, stopped, setup>>

HandlePost ==
  /\ posts # << >>
  /\ posts' = Tail(posts)
  /\ LET p == Head(posts) IN
     /\ m' = CASE p.op = "finish" ->
                    Finish(IF p.started THEN [m EXCEPT !.geoRetried = None] ELSE m, p.req)
               [] p.op = "connected" -> SyncState([m EXCEPT !.connecting = FALSE])
               [] p.op = "disconnecting" -> SyncState([m EXCEPT !.disconnecting = TRUE])
               [] p.op = "cancel" -> CancelResume(m)
               [] p.op = "teardown" -> m
     /\ stopper' = IF p.op = "teardown" THEN [stopper EXCEPT !.pc = "ui"] ELSE stopper
     /\ startedId' = IF p.op = "cancel" THEN None ELSE startedId
  /\ UNCHANGED <<core, cores, starters, running, ranking, exiting, stopped, setup>>

-----------------------------------------------------------------------------
(* The supervisor and its core. *)

\* setBootStart() and CoreSupervisor::start(); or listen() failed.
SupervisorStarts ==
  /\ m.st = "new"
  /\ \/ m' = [m EXCEPT !.st = "listenFailed"]
     \/ \E p \in ProfileOrNone : m' = [m EXCEPT !.st = "starting", !.startWhenUp = p]
     \/ \E p \in setup.profiles :
          /\ m.issued < MaxRequests
          /\ m' = [DeferStartToCore(m, [serial |-> m.issued + 1, id |-> p])
                   EXCEPT !.issued = @ + 1, !.boot = m.issued + 1, !.st = "starting", !.startWhenUp = p]
  /\ UNCHANGED <<core, cores, starters, stopper, running, startedId, posts, ranking, exiting, stopped, setup>>

CoreAccepted ==
  /\ m.st = "starting" /\ m.restart = "no" /\ ~exiting
  /\ m' = [m EXCEPT !.st = "probing"]
  /\ UNCHANGED <<core, cores, starters, stopper, running, startedId, posts, ranking, exiting, stopped, setup>>

GivenUp(s) == [Finish(s, s.coreReq) EXCEPT !.coreReq = NoRequest, !.guard = FALSE,
                                           !.st = "gaveUp", !.startWhenUp = None]
onCoreGaveUp ==
  /\ m.st = "starting" /\ m.restart = "no" /\ ~exiting
  /\ m' = GivenUp(m) /\ startedId' = None
  /\ UNCHANGED <<core, cores, starters, stopper, running, posts, ranking, exiting, stopped, setup>>

\* The waiting request, unless coreStarted carries its profile, is superseded.
Adopted(s) == [(IF s.coreReq.id # m.startWhenUp THEN Finish(s, s.coreReq) ELSE s) EXCEPT !.coreReq = NoRequest]
\* A guard that failed for privileges is armed again first; a boot request is
\* refused when the remembered Tun could not be restored.
onCoreStarted ==
  /\ AwaitingCoreStarted(m) /\ cores = "idle" /\ ~exiting
  /\ LET id == m.startWhenUp
         next == IF m.coreReq.id = id THEN m.coreReq ELSE Own(id) IN
     \E k \in {m.ks} \union (IF m.ks = "Failed" THEN {"Arming"} ELSE {}) :
       LET s == Adopted([m EXCEPT !.st = "up", !.guard = FALSE, !.startWhenUp = None,
                                  !.boot = 0, !.ks = k]) IN
       IF id = None THEN m' = s /\ UNCHANGED <<starters, ranking>>
       ELSE \/ /\ next.serial # 0 /\ next.serial = m.boot
               /\ m' = Finish(s, next) /\ UNCHANGED <<starters, ranking>>
            \/ Start(s, next, FALSE)
  /\ UNCHANGED <<core, cores, stopper, running, startedId, posts, exiting, stopped, setup>>

Lost(S) == {[w EXCEPT !.guard = IF @ = "held" THEN "asked" ELSE @, !.late = TRUE] : w \in S}

CoreDies ==
  /\ CoreRunning(m) /\ cores = "idle" /\ setup.deaths > 0
  /\ setup' = [setup EXCEPT !.deaths = @ - 1]
  /\ m' = [m EXCEPT !.st = "dead"] /\ core' = NoCore /\ starters' = Lost(starters)
  /\ cores' = IF m.st = "probing" /\ running = None THEN "report" ELSE "died"
  /\ UNCHANGED <<stopper, running, startedId, posts, ranking, exiting, stopped>>

\* StopRunningProfile(crash, block) on DS_cores: with nothing running, or a
\* stop in progress, it returns at once.
CrashStop(waiting, done) ==
  IF running = None \/ mu_stopping THEN cores' = done /\ UNCHANGED <<stopper, posts>>
  ELSE /\ cores' = waiting /\ BeginStop(TRUE, FALSE)
       /\ posts' = posts \o Post("disconnecting", NoRequest, FALSE)

CleanUp ==
  /\ cores = "died"
  /\ CrashStop("diedStop", "report")
  /\ UNCHANGED <<m, core, starters, running, startedId, ranking, exiting, stopped, setup>>

\* onCoreExited() on the main thread, unless a restart has made the exit moot:
\* a start that waited for a core that never came up is kept, else the started
\* profile is resumed; it may be declined or the core given up.
CoreExited ==
  /\ cores = "report" /\ cores' = "idle"
  /\ IF m.restart # "no" \/ exiting THEN UNCHANGED <<m, startedId>>
     ELSE \/ /\ m' = [m EXCEPT !.st = "starting", !.identity = m.ks # "Disabled",
                               !.startWhenUp = IF @ # None THEN @ ELSE startedId]
             /\ UNCHANGED startedId
          \/ /\ m' = [m EXCEPT !.st = "starting", !.identity = m.ks # "Disabled"]
             /\ m.startWhenUp = None /\ startedId' = None
          \/ m' = GivenUp(m) /\ startedId' = None
  /\ UNCHANGED <<core, starters, stopper, running, posts, ranking, exiting, stopped, setup>>

Respawn ==
  /\ m' = [m EXCEPT !.st = "starting", !.identity = m.ks # "Disabled", !.restart = "no"]
  /\ core' = NoCore /\ starters' = Lost(starters) /\ cores' = "idle"
\* A posted restart; the one for the guard stops the running profile first.
TakeRestart ==
  /\ m.restart # "no" /\ cores = "idle" /\ ~exiting
  /\ IF m.restart = "guard" /\ running # None /\ ~mu_stopping
     THEN CrashStop("restartStop", "idle") /\ UNCHANGED <<m, core, starters>>
     ELSE Respawn /\ UNCHANGED <<stopper, posts>>
  /\ UNCHANGED <<running, startedId, ranking, exiting, stopped, setup>>
RestartStopped ==
  /\ cores = "restartStop" /\ ~(mu_stopping /\ stopper.crash)
  /\ IF exiting THEN cores' = "idle" /\ UNCHANGED <<m, core, starters>> ELSE Respawn
  /\ UNCHANGED <<stopper, running, startedId, posts, ranking, exiting, stopped, setup>>

-----------------------------------------------------------------------------
(* The kill switch, and the exit. *)

Follows(k) == CASE k = "Disabled" -> {"Arming"}
                [] k = "Arming" -> {"Armed", "Failed", "Disabled"}
                [] k = "Armed" -> {"Arming", "Failed", "Disabled"}
                [] k = "Failed" -> {"Arming", "Disabled"}

\* Mutant of ArmedRestart: only a core that runs a profile is restarted.
ArmedRestartRunning(s) ==
  IF running # None /\ ~s.guard /\ RunningWithoutGuardIdentity(s)
  THEN RestartCoreForGuard(s, Own(startedId)) ELSE s
\* onKillSwitchStateChanged() when the guard has armed: the restart carries over
\* the start that waits for the probing core, or the started profile.
ArmedRestart(s) ==
  IF s.guard \/ ~RunningWithoutGuardIdentity(s) THEN s
  ELSE IF AwaitingCoreStarted(s) /\ s.startWhenUp # None
  THEN IF s.coreReq.id # None THEN RestartCoreForGuard([s EXCEPT !.coreReq = NoRequest], s.coreReq)
       ELSE RestartCoreForGuard(s, Own(s.startWhenUp))
  ELSE RestartCoreForGuard(s, Own(startedId))

\* setState(), which emits stateChanged, and settle(), which runs the start
\* that was held back while arming.
KillSwitchChanges(k) ==
  /\ k \in Follows(m.ks) /\ m.st # "new"
  /\ IF m.ks = "Arming" THEN UNCHANGED setup
     ELSE setup.switches > 0 /\ setup' = [setup EXCEPT !.switches = @ - 1]
  /\ LET s == [m EXCEPT !.ks = k]
         t == IF k = "Armed" THEN ArmedRestart(s) ELSE s IN
     IF k # "Arming" /\ m.killReq # NoRequest
     THEN Start([t EXCEPT !.killReq = NoRequest], m.killReq, FALSE)
     ELSE m' = t /\ UNCHANGED <<starters, ranking>>
  /\ UNCHANGED <<core, cores, stopper, running, startedId, posts, exiting, stopped>>

\* kGuardRestartWindowMs is over.
GuardWindowExpires ==
  /\ m.guard /\ m' = [m EXCEPT !.guard = FALSE]
  /\ UNCHANGED <<core, cores, starters, stopper, running, startedId, posts, ranking, exiting, stopped, setup>>

PrepareExit ==
  /\ MayExit /\ m.st # "new" /\ ~exiting /\ exiting' = TRUE
  /\ IF running = None \/ mu_stopping THEN UNCHANGED <<m, stopper>>
     ELSE BeginStop(FALSE, FALSE) /\ m' = SyncState([m EXCEPT !.disconnecting = TRUE])
  /\ UNCHANGED <<core, cores, starters, running, startedId, posts, ranking, stopped, setup>>

Quiet ==
  /\ starters = {} /\ ~mu_stopping /\ posts = << >> /\ ranking = {} /\ cores = "idle"
  /\ m.geo = None /\ m.ks # "Arming"
  /\ exiting \/ (m.restart = "no" /\ m.st \in {"listenFailed", "up", "gaveUp"})
Rests == Quiet /\ UNCHANGED vars

Next ==
  \/ (\E p \in setup.profiles : StartAsked(p)) \/ StartRanked \/ RetryAfterGeoFetch
  \/ StarterSteps \/ OwedStartRuns \/ (\E manual \in BOOLEAN : StopAsked(manual))
  \/ StopRpc \/ StopClears \/ StopTornDown \/ HandlePost
  \/ SupervisorStarts \/ CoreAccepted \/ onCoreGaveUp \/ onCoreStarted
  \/ CoreDies \/ CleanUp \/ CoreExited \/ TakeRestart \/ RestartStopped
  \/ (\E k \in {"Disabled", "Arming", "Armed", "Failed"} : KillSwitchChanges(k))
  \/ GuardWindowExpires \/ PrepareExit \/ Rests

\* Fair: every thread, and what CoreSupervisor and KillSwitch show of their
\* side: a core that starts is accepted or given up, arming ends.
Fairness ==
  /\ WF_vars(StartRanked) /\ WF_vars(StarterSteps)
  /\ WF_vars(StopRpc \/ StopClears \/ StopTornDown) /\ WF_vars(HandlePost)
  /\ WF_vars(SupervisorStarts) /\ WF_vars(CoreAccepted \/ onCoreGaveUp) /\ WF_vars(onCoreStarted)
  /\ WF_vars(CleanUp \/ CoreExited) /\ WF_vars(TakeRestart \/ RestartStopped)
  /\ WF_vars(m.ks = "Arming" /\ \E k \in {"Disabled", "Armed", "Failed"} : KillSwitchChanges(k))

Spec == Init /\ [][Next]_vars
FairSpec == Spec /\ Fairness

-----------------------------------------------------------------------------
Requests == INSTANCE StartRequests WITH issued <- m.issued, answers <- m.answers, closed <- exiting

\* "startFinished fires once per request": whatever holds a request back (the
\* kill switch that arms, the guard restart, the ranking, the core that comes
\* up) and whoever answers it, it is answered, and never twice.
AnsweredOnce == Requests!Spec

\* When nothing is in progress, and no restart of the core was cut short by the
\* exit (which kills that core), the profile the core runs is the one the engine
\* shows and can stop: no stop worker clears m_running behind a start, and no
\* Start is sent over a profile that still runs, which would leave a box behind
\* that nobody can stop.  The one exception is a Start the engine gave up waiting
\* for and this core has carried out since: the code sends no Stop after it.
LoadedIsKnown ==
  Quiet /\ m.restart = "no" /\ ~core.overdue =>
    (core.loaded # None => running = core.loaded) /\ ~core.stray

\* When nothing is in progress the last connectionStateChanged told the truth:
\* no worker changes m_running behind the closures that report it.
StateIsShown == Quiet => m.shown = IF running # None THEN "Running" ELSE "Idle"

\* The transition guard, which blocks everything, never outlives the start that
\* installed it: every path of the worker hands it back.
FilterIsOwned == core.filter => \E w \in starters : w.guard = "held" /\ w.pc \notin {"begin", "guard"}

\* A switch that installed the guard is covered until it hands the guard back
\* itself: no other start releases it while no sing-box instance exists.
SwitchIsCovered ==
  \A w \in starters : w.guard = "held" /\ w.pc \in {"look", "stop", "wait", "rpc", "accepted", "recorded"} => core.filter

\* While the kill switch is armed no profile is left running in a core that was
\* spawned without the guard identity (its own traffic would be blocked): the
\* core is restarted however arming, starting and probing interleave (but for a
\* start worker that was overtaken by the death of the core it was started for).
RunsWithIdentity == Quiet /\ m.ks = "Armed" /\ core.loaded # None /\ ~core.late /\ ~exiting => m.identity

\* "A crashed profile waits for the restarted core with nothing running; a user
\* stop cancels that": after such a stop nothing runs until a start is asked,
\* whatever the core, the kill switch or a geo download were doing then.
StopIsHonoured == stopped => running = None

\* What the engine shows and what runs agree, with each other and with what the
\* user last asked for.
EngineIsTruthful == TypeOK /\ LoadedIsKnown /\ StateIsShown /\ StopIsHonoured

\* The filter of a switch covers all of it and nothing else.
FilterCoversTheSwitch == FilterIsOwned /\ SwitchIsCovered
=============================================================================
