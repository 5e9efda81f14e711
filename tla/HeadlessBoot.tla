---------------------------- MODULE HeadlessBoot ----------------------------
(***************************************************************************)
(* The boots of the headless process: what it resumes, and how it ends.    *)
(* ResumeGuard (src/src/engine/headless/ResumeGuard.cpp) keeps a record in *)
(* headless-state.json so that a profile which brings the process or its   *)
(* core down is not resumed for ever, and so that a machine whose core     *)
(* never works keeps the API up.  HeadlessRuntime (HeadlessRuntime.cpp)    *)
(* drives it from the signals of the engine, and decides the exit code.    *)
(*                                                                         *)
(* The process may die at every step and is started again, with what is on *)
(* disk.  Timers have no clock: the 60 s after a start pass when they      *)
(* pass; the watchdog's limits are longer than that (BootTimer).           *)
(***************************************************************************)
EXTENDS Integers, FiniteSetsExt

CONSTANTS Profiles,            \* profile ids, positive
          StrikesToSuppress,   \* kStrikesToSuppress
          UnstableBootsToStayUp, \* kUnstableBootsToStayUp
          MaxBoots,            \* bound: boots
          MaxCoreDeaths        \* bound: exits of a connected core per boot

ASSUME ProfilesAssumption == Profiles \subseteq Nat \ {0}
ASSUME LimitAssumption == StrikesToSuppress \in Nat \ {0} /\ UnstableBootsToStayUp \in Nat \ {0}
ASSUME BoundAssumption == MaxBoots \in Nat /\ MaxCoreDeaths \in Nat

VARIABLES disk,     \* headless-state.json
          remember, \* remember_id, in the database
          up,       \* the process lives
          g,        \* ResumeGuard's fields
          p,        \* what else the process knows
          boots,    \* boots so far
          h         \* history
vars == <<disk, remember, up, g, p, boots, h>>

None == -1
Id == Profiles \union {None}
Ok == 0
CoreGaveUp == 70
Stuck == 71
Restart == 75
Config == 78
Code == {None, Ok, CoreGaveUp, Stuck, Restart, Config}

NoStart == [id |-> None, boot |-> FALSE]
\* m_bootPhase, m_bootProfileId, m_retryResumeId; the core, "dead" until its exit
\* is reported, whether it took the boot profile with it, and m_profileCrashTimer;
\* the start under way, started_id and the running profile; the 60 s timers that
\* have not fired; m_exitCode, m_stopOverride, m_terminating.
NewProcess ==
  [phase |-> "None", boot |-> None, retry |-> None, core |-> "down", victim |-> FALSE, coreDeaths |-> 0, recent |-> FALSE,
   start |-> NoStart, started |-> None, running |-> None, bootTimer |-> FALSE, runTimer |-> FALSE,
   code |-> None, override |-> FALSE, terminating |-> FALSE]
\* window: this boot resumed a profile and its 60 s are not over.  deaths: boots
\* in a row in which the record's profile was resumed and the process or the core
\* died within them.  stable: this boot had a core for 60 s.  badBoots: boots in a
\* row that exited 70 or 71, none stable.  code: how the last process exited.
NoHistory == [window |-> FALSE, deaths |-> 0, stable |-> FALSE, badBoots |-> 0, code |-> None]

TypeOK ==
  /\ disk \in [profile : Id, strikes : 0 .. StrikesToSuppress, armed : BOOLEAN,
               open : BOOLEAN, unstable : 0 .. MaxBoots, exit : Code]
  /\ (disk.armed => disk.profile # None) /\ remember \in Id /\ up \in BOOLEAN
  /\ g \in [profile : Id, strikes : 0 .. StrikesToSuppress, armed : BOOLEAN,
            open : BOOLEAN, unstable : 0 .. MaxBoots, exit : Code, suppressed : BOOLEAN]
  /\ p \in [phase : {"None", "Waiting", "Armed", "Done"}, boot : Id, retry : Id,
            core : {"down", "up", "dead", "gaveup"}, victim : BOOLEAN, coreDeaths : 0 .. MaxCoreDeaths, recent : BOOLEAN,
            start : [id : Id, boot : BOOLEAN], started : Id, running : Id,
            bootTimer : BOOLEAN, runTimer : BOOLEAN,
            code : Code, override : BOOLEAN, terminating : BOOLEAN]
  /\ (g.armed => up /\ p.phase \in {"Armed", "Done"})
  /\ boots \in 0 .. MaxBoots
  /\ h \in [window : BOOLEAN, deaths : Nat, stable : BOOLEAN, badBoots : Nat, code : Code]

NewRecord == [profile |-> None, strikes |-> 0, armed |-> FALSE, open |-> FALSE, unstable |-> 0, exit |-> None]
NewGuard == [profile |-> None, strikes |-> 0, armed |-> FALSE, open |-> FALSE, unstable |-> 0,
             exit |-> None, suppressed |-> FALSE]
Init ==
  /\ disk = NewRecord /\ remember \in Id /\ up = FALSE
  /\ g = NewGuard /\ p = NewProcess /\ boots = 0 /\ h = NoHistory

-----------------------------------------------------------------------------
(* ResumeGuard; r is g. *)

Struck(r) == [r EXCEPT !.strikes = Min({@ + 1, StrikesToSuppress}), !.armed = FALSE]

\* The constructor reads the record and consumes the last exit.
Loaded == [profile |-> disk.profile, strikes |-> disk.strikes, armed |-> disk.armed,
           open |-> disk.open, unstable |-> disk.unstable, exit |-> None, suppressed |-> FALSE]

\* Mutant of SettlePrevious: a boot that exited in order is not counted.
SettlePreviousClosed(r) ==
  LET s == [r EXCEPT !.unstable = IF r.open /\ h.code = None THEN @ + 1 ELSE @, !.open = TRUE] IN
  IF s.armed THEN Struck(s) ELSE s
SettlePrevious(r) ==
  LET s == [r EXCEPT !.unstable = IF r.open THEN @ + 1 ELSE @, !.open = TRUE] IN
  IF s.armed THEN Struck(s) ELSE s

StayUp(r) == r.unstable >= UnstableBootsToStayUp
MarkStable(r) == [r EXCEPT !.open = FALSE, !.unstable = 0]

Suppresses(r) == r.strikes >= StrikesToSuppress
\* decide(): another profile resets the record.
Decide(r, id) ==
  IF id # r.profile THEN [r EXCEPT !.profile = id, !.strikes = 0, !.armed = FALSE]
  ELSE [r EXCEPT !.suppressed = Suppresses(r)]

Arm(r, id) ==
  [r EXCEPT !.strikes = IF id = r.profile THEN @ ELSE 0, !.profile = id, !.armed = TRUE]
Disarm(r) == [r EXCEPT !.armed = FALSE]
Strike(r) == IF r.armed THEN Struck(r) ELSE r
Survived(r, id) ==
  IF id = r.profile THEN [r EXCEPT !.strikes = 0, !.armed = FALSE, !.suppressed = FALSE] ELSE r
LiftSuppression(r, id) == [r EXCEPT !.suppressed = @ /\ id = r.profile]

\* Mutant of KeepsArm: every exit settles it.
KeepsArmNever(code) == FALSE
\* The exits a profile can cause stay armed.
KeepsArm(code) == code \in {CoreGaveUp, Stuck}
NoteExit(r, code) == [r EXCEPT !.exit = code, !.armed = @ /\ KeepsArm(code)]

Persisted(r) == [profile |-> r.profile, strikes |-> r.strikes, armed |-> r.armed,
                 open |-> r.open, unstable |-> r.unstable, exit |-> r.exit]
\* save(), which every change of the record ends with; without one there is an
\* early return.
Save(r) == g' = r /\ disk' = IF r = g THEN disk ELSE Persisted(r)

-----------------------------------------------------------------------------
(* A boot, and its end. *)

\* Construction and bootStart(); without resume, or when the profile is gone,
\* nothing is decided.  A first record is not saved before the profile is armed.
Boot(resume) ==
  /\ ~up /\ up' = TRUE /\ boots < MaxBoots /\ boots' = boots + 1
  /\ LET s == SettlePrevious(Loaded)
         r == IF resume THEN Decide(s, remember) ELSE s
         id == IF resume /\ ~r.suppressed THEN remember ELSE None IN
     /\ resume => remember # None
     /\ g' = r /\ disk' = Persisted(IF s.profile = None THEN s ELSE r)
     /\ p' = [NewProcess EXCEPT !.boot = id, !.phase = IF id = None THEN "Done" ELSE "Waiting"]
     /\ h' = [h EXCEPT !.window = FALSE, !.stable = FALSE, !.deaths = IF r.profile = s.profile THEN @ ELSE 0]
  /\ UNCHANGED remember

\* The process ends with code; None when it dies.
End(code) ==
  /\ up' = FALSE /\ g' = NewGuard /\ p' = NewProcess
  /\ h' = [h EXCEPT !.code = code, !.window = FALSE,
                    !.deaths = IF h.window THEN @ + 1 ELSE @,
                    !.badBoots = IF code \notin {CoreGaveUp, Stuck} \/ h.stable THEN @ ELSE @ + 1]
  /\ UNCHANGED <<disk, remember, boots>>
ProcessDies == up /\ End(None)

Terminating == p.code # None
\* exitCode().
ExitCode == IF p.override THEN Ok ELSE p.code

\* A stop during the teardown of a restart writes its own last_exit.
Overridden == IF p.terminating THEN Save(NoteExit(g, Ok)) ELSE UNCHANGED <<g, disk>>

\* terminate(), stopSignal() and onSignal(): the first wins, but a stop turns a
\* restart into a stop.  A second stop only kills the core.
Terminate(code) ==
  /\ up
  /\ \/ p.code = None /\ p' = [p EXCEPT !.code = code] /\ UNCHANGED <<g, disk>>
     \/ /\ code = Ok /\ p.code = Restart /\ ~p.override
        /\ p' = [p EXCEPT !.override = TRUE] /\ Overridden
  /\ UNCHANGED <<remember, up, boots, h>>

\* runTerminate(): last_exit first, then the teardown.
RunTerminate ==
  /\ up /\ Terminating /\ ~p.terminating
  /\ Save(NoteExit(g, ExitCode))
  /\ p' = [p EXCEPT !.terminating = TRUE]
  /\ h' = [h EXCEPT !.window = @ /\ ExitCode \in {CoreGaveUp, Stuck}]
  /\ UNCHANGED <<remember, up, boots>>
ProcessExits == up /\ p.terminating /\ End(ExitCode)

\* evaluateWatchdog() outside stay-up mode.  Connecting for 180 s, or a core
\* that has not been usable for 60 s, comes later than the timer of the boot start.
Watchdog ==
  /\ up /\ ~Terminating /\ ~StayUp(g) /\ ~p.bootTimer
  /\ \/ p.start # NoStart /\ p' = [p EXCEPT !.code = Stuck]
     \/ p.core # "up" /\ p' = [p EXCEPT !.code = CoreGaveUp]
  /\ UNCHANGED <<disk, remember, up, g, boots, h>>
\* stuck() in stay-up mode: an expected exit of the core.
WatchdogResets ==
  /\ up /\ ~Terminating /\ StayUp(g) /\ ~p.bootTimer /\ p.core = "up" /\ p.start # NoStart
  /\ p' = [p EXCEPT !.core = "down", !.victim = p.phase = "Armed"]
  /\ UNCHANGED <<disk, remember, up, g, boots, h>>

-----------------------------------------------------------------------------
(* The core. *)

\* The core is up and takes the start that waits for it: the boot start, which is
\* armed before its config is built, or is held or finds no profile; or the
\* profile that ran when the core died.
CoreStarts ==
  /\ up /\ ~p.terminating /\ p.core = "down"
  /\ \/ /\ p.phase = "Waiting" /\ Save(Arm(g, p.boot))
        /\ p' = [p EXCEPT !.core = "up", !.phase = "Armed", !.retry = None, !.start = [id |-> p.boot, boot |-> TRUE]]
        /\ h' = [h EXCEPT !.window = TRUE]
     \/ /\ p.phase = "Waiting" /\ p' = [p EXCEPT !.core = "up", !.phase = "Done"]
        /\ UNCHANGED <<g, disk, h>>
     \/ /\ p.phase # "Waiting" /\ p.start = NoStart
        /\ p' = [p EXCEPT !.core = "up", !.retry = IF p.started = None THEN @ ELSE None,
                          !.start = [id |-> p.started, boot |-> FALSE]]
        /\ UNCHANGED <<g, disk, h>>
  /\ UNCHANGED <<remember, up, boots>>

\* It dies with whatever it ran or started; the crash stop keeps started_id.  A
\* boot start is under way until its outcome is handled, which an exit prevents.
CoreDies ==
  /\ up /\ p.core = "up" /\ p.coreDeaths < MaxCoreDeaths
  /\ p' = [p EXCEPT !.core = "dead", !.coreDeaths = @ + 1, !.running = None, !.runTimer = FALSE,
                    !.victim = p.phase = "Armed" \/ (p.boot # None /\ p.running = p.boot)]
  /\ UNCHANGED <<disk, remember, up, g, boots, h>>

\* coreExited: the boot profile was starting, or is what the core ran.
BlamesBoot(startedId) == p.phase = "Armed" \/ (p.boot # None /\ startedId = p.boot)

\* A death of the core in the window counts against the boot profile if the core
\* ran it.
WindowEnds(died) ==
  h' = [h EXCEPT !.window = FALSE, !.deaths = IF h.window /\ died THEN @ + 1 ELSE @]

\* The exit of a core is handled: coreExited, and maybe the supervisor declines
\* the profile for good or gives up, which ends the boot start that waits and
\* exits 70 outside stay-up mode.
CoreExited(tooFrequent, gaveUp) ==
  /\ up /\ ~p.terminating /\ p.core \in {"dead", "down"}
  /\ tooFrequent => p.core = "dead" /\ p.recent
  /\ LET startedId == IF tooFrequent THEN None ELSE p.started
         unavailable == gaveUp /\ p.phase = "Waiting" /\ ~Terminating IN
     /\ gaveUp => p.core = "down" \/ startedId = None
     /\ Save(IF BlamesBoot(startedId) THEN Strike(g) ELSE Disarm(g))
     /\ p' = [p EXCEPT !.core = IF gaveUp THEN "gaveup" ELSE "down", !.victim = FALSE,
                       !.recent = IF p.core = "dead" THEN ~tooFrequent ELSE @,
                       !.started = IF gaveUp THEN None ELSE startedId,
                       !.phase = IF unavailable THEN "Done" ELSE @,
                       !.retry = IF unavailable THEN p.boot ELSE @,
                       !.code = IF gaveUp /\ ~Terminating /\ ~StayUp(g) THEN CoreGaveUp ELSE @]
     /\ WindowEnds(p.victim)
  /\ UNCHANGED <<remember, up, boots>>

\* The retry every five minutes in stay-up mode, which resumes a boot start that
\* was never dispatched.
CoreRetries ==
  /\ up /\ ~Terminating /\ p.core = "gaveup"
  /\ p' = [p EXCEPT !.core = "down", !.recent = FALSE, !.phase = IF p.retry = None THEN @ ELSE "Waiting"]
  /\ UNCHANGED <<disk, remember, up, g, boots, h>>

-----------------------------------------------------------------------------
(* Starts, stops and timers. *)

\* started_id and remember_id are saved, and startFinished is handled.
StartSucceeds ==
  /\ up /\ ~p.terminating /\ p.core = "up" /\ p.start.id # None
  /\ remember' = p.start.id
  /\ p' = [p EXCEPT !.start = NoStart, !.started = p.start.id, !.running = p.start.id, !.runTimer = TRUE, !.retry = None,
                    !.phase = IF p.start.boot /\ ~Terminating THEN "Done" ELSE @,
                    !.bootTimer = @ \/ (p.start.boot /\ ~Terminating /\ p.phase = "Armed")]
  /\ g' = LiftSuppression(g, p.start.id)
  /\ UNCHANGED <<disk, up, boots, h>>

\* It fails, because its core is gone or for a reason of its own.  An exit settles
\* the arm: the outcome is not looked at then.
StartFails ==
  /\ up /\ p.start.id # None
  /\ LET counts == p.start.boot /\ ~Terminating /\ p.phase = "Armed" IN
     /\ p' = [p EXCEPT !.start = NoStart, !.phase = IF p.start.boot /\ ~Terminating THEN "Done" ELSE @]
     /\ IF counts THEN Save(IF p.core = "up" THEN Disarm(g) ELSE Strike(g)) ELSE UNCHANGED <<g, disk>>
     /\ IF p.start.boot /\ ~Terminating THEN WindowEnds(p.core # "up") ELSE UNCHANGED h
  /\ UNCHANGED <<remember, up, boots>>

\* A start or a stop by the API.  A switch stops what runs as the user does: it
\* moves started_id and remember_id off it.
UserStarts(id) ==
  /\ up /\ ~Terminating /\ p.core = "up" /\ p.start.id = None
  /\ p' = [p EXCEPT !.start = [id |-> id, boot |-> FALSE], !.running = None, !.runTimer = FALSE, !.retry = None,
                    !.started = IF p.running = None THEN @ ELSE None]
  /\ remember' = IF p.running = None THEN remember ELSE None
  /\ UNCHANGED <<disk, up, g, boots, h>>
UserStops ==
  /\ up /\ ~Terminating /\ p.running # None
  /\ p' = [p EXCEPT !.running = None, !.runTimer = FALSE, !.started = None]
  /\ remember' = None
  /\ UNCHANGED <<disk, up, g, boots, h>>
\* The start that waits is superseded or cancelled.
BootStartDropped ==
  /\ up /\ ~Terminating /\ p.phase = "Waiting"
  /\ p' = [p EXCEPT !.phase = "Done"]
  /\ UNCHANGED <<disk, remember, up, g, boots, h>>

\* m_stableTimer.
Stable ==
  /\ up /\ ~p.terminating /\ p.core = "up"
  /\ Save(MarkStable(g)) /\ h' = [h EXCEPT !.stable = TRUE, !.badBoots = 0]
  /\ UNCHANGED <<remember, up, p, boots>>
\* noteSurvived().
NoteSurvived(id) ==
  /\ IF id = g.profile THEN Save(Survived(g, id)) ELSE g' = LiftSuppression(g, id) /\ UNCHANGED disk
  /\ h' = IF id = g.profile THEN [h EXCEPT !.window = FALSE, !.deaths = 0] ELSE h
\* The boot start is 60 s old.
BootTimer ==
  /\ up /\ p.bootTimer /\ p' = [p EXCEPT !.bootTimer = FALSE]
  /\ IF ~g.armed THEN UNCHANGED <<g, disk, h>>
     ELSE IF p.running = p.boot THEN NoteSurvived(p.boot)
     ELSE Save(Disarm(g)) /\ h' = [h EXCEPT !.window = FALSE]
  /\ UNCHANGED <<remember, up, boots>>
\* A run is 60 s old.
RunTimer ==
  /\ up /\ p.runTimer /\ p' = [p EXCEPT !.runTimer = FALSE]
  /\ NoteSurvived(p.running)
  /\ UNCHANGED <<remember, up, boots>>

Next ==
  \/ \E resume \in BOOLEAN : Boot(resume)
  \/ ProcessDies \/ RunTerminate \/ ProcessExits \/ Watchdog \/ WatchdogResets
  \/ \E code \in {Ok, Restart, Config} : Terminate(code)
  \/ CoreStarts \/ CoreDies \/ CoreRetries
  \/ \E tooFrequent, gaveUp \in BOOLEAN : CoreExited(tooFrequent, gaveUp)
  \/ StartSucceeds \/ StartFails \/ UserStops \/ BootStartDropped
  \/ \E id \in Profiles : UserStarts(id)
  \/ Stable \/ BootTimer \/ RunTimer

Spec == Init /\ [][Next]_vars

-----------------------------------------------------------------------------
(* Properties. *)

\* The strikes of the record are the boots in a row that ended, or lost their
\* core, within 60 s of resuming its profile: no death is lost between the two
\* places that report it, the exits and the next boot, and none is counted twice.
StrikesAreDeaths == up => g.strikes = Min({h.deaths, StrikesToSuppress})

\* A profile that failed StrikesToSuppress boots in a row is not resumed again.
CrashLoopEnds == p.phase = "Waiting" => h.deaths < StrikesToSuppress

\* "from this many on, a boot stays up instead of exiting 70/71, so a cause only
\* the API can fix stays fixable" (ResumeGuard.h).
ApiStaysUp == h.badBoots <= UnstableBootsToStayUp

\* The last_exit the next boot reports is how the process ended, a stop that came
\* during the teardown of a restart included.
LastExitIsTrue == ~up /\ h.code # None => disk.exit = h.code

\* What the next boot reads in the record is what happened in the last ones.
RecordIsTrue == TypeOK /\ StrikesAreDeaths /\ LastExitIsTrue

\* No loop of restarts goes on for ever: a profile that fails is left out, and a boot
\* that cannot work stays up.
LoopsEnd == CrashLoopEnds /\ ApiStaysUp
=============================================================================
