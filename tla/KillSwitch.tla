----------------------------- MODULE KillSwitch -----------------------------
(***************************************************************************)
(* The kill switch: the GUI's KillSwitch object (src/sys/KillSwitch.cpp)   *)
(* and the guard processes it runs (core/internal/guard/guard.go, Run).    *)
(* A guard installs the firewall rules, says READY, and removes them when  *)
(* its standard input closes.  A change of settings starts a second guard, *)
(* and the first is closed once the second is ready.                       *)
(*                                                                         *)
(* KillSwitch lives on the UI thread, so each of its slots is one step;    *)
(* the guards are processes of their own, and what they print is read      *)
(* later.  Times are left open: a timer that is set may fire at any time.  *)
(***************************************************************************)
EXTENDS Naturals

CONSTANTS Guard,      \* slots for guard processes; a slot is free once its process was reaped
          Config,     \* what buildConfig can return
          MayExit,    \* bound: FALSE leaves the exit of the program out
          None        \* nullptr

ASSUME KillSwitchAssumption ==
  /\ None \notin Guard
  /\ MayExit \in BOOLEAN
  /\ Config # {}

VARIABLES
  enabled,     \* settings: kill_switch
  config,      \* what buildConfig would return now
  state,       \* state_
  failure,     \* failureCode_, by what the code does with it
  active,      \* active_
  pending,     \* pending_
  identity,    \* identityUnsupported_
  overridden,  \* overridden_: --no-kill-switch, set before the first apply()
  exiting,     \* settings: prepare_exit
  shutdown,    \* shutdown_
  respawnable, \* lastRespawn_ is invalid or has expired
  retry,       \* a retry timer of armFailed is running
  portChanged, \* an invocation queued by SetApiPort
  settling,    \* waiters_ holds a whenSettled callback
  idling,      \* waiters_ holds a whenIdle callback
  proc,        \* each guard process
  gcfg,        \* GuardProcess::config, None in a free slot
  closing,     \* GuardProcess::closing; its input is closed with it
  readyLine,   \* READY is in the guard's output, unread
  errorLine,   \* the code of an ERROR or FAIL line in its output, unread
  refused      \* history: the last config was refused for good while an older one stays in force

settingVars == <<enabled, config, identity, overridden, exiting>>
uiVars      == <<state, failure, active, pending>>
timerVars   == <<respawnable, retry, portChanged>>
waiterVars  == <<settling, idling>>
guardVars   == <<proc, gcfg, closing, readyLine, errorLine>>
vars == <<settingVars, uiVars, shutdown, timerVars, waiterVars, guardVars, refused>>

State == {"Disabled", "Arming", "Armed", "Failed"}

\* kPrivilege, kUnsupported and kConfig are persistent, kTampered, kInternal, kCrash and
\* kTimeout transient.
Code    == {"persistent", "transient"}
Failure == Code \cup {"none", "overridden", "identity"}

\* free: no process; starting: no config read; configured: config read; armed: rules in force.
Proc == {"free", "starting", "configured", "armed", "exited"}
Alive == {"starting", "configured", "armed"}

TypeOK ==
  /\ enabled \in BOOLEAN /\ identity \in BOOLEAN /\ overridden \in BOOLEAN
  /\ exiting \in BOOLEAN /\ shutdown \in BOOLEAN
  /\ config \in Config
  /\ state \in State
  /\ failure \in Failure
  /\ active \in Guard \cup {None} /\ pending \in Guard \cup {None}
  /\ active # None => active # pending
  /\ respawnable \in BOOLEAN /\ retry \in BOOLEAN /\ portChanged \in BOOLEAN
  /\ settling \in BOOLEAN /\ idling \in BOOLEAN /\ refused \in BOOLEAN
  /\ proc \in [Guard -> Proc]
  /\ gcfg \in [Guard -> Config \cup {None}]
  /\ closing \in [Guard -> BOOLEAN]
  /\ readyLine \in [Guard -> BOOLEAN]
  /\ errorLine \in [Guard -> Code \cup {"none"}]

\* Before the first apply(); a saved kill_switch is a first SetKillSwitch(TRUE).
Init ==
  /\ enabled = FALSE /\ identity = FALSE /\ exiting = FALSE /\ shutdown = FALSE
  /\ overridden \in BOOLEAN
  /\ config \in Config
  /\ state = "Disabled"
  /\ failure = "none"
  /\ active = None /\ pending = None
  /\ respawnable = TRUE /\ retry = FALSE /\ portChanged = FALSE
  /\ settling = FALSE /\ idling = FALSE /\ refused = FALSE
  /\ proc = [g \in Guard |-> "free"]
  /\ gcfg = [g \in Guard |-> None]
  /\ closing = [g \in Guard |-> FALSE]
  /\ readyLine = [g \in Guard |-> FALSE]
  /\ errorLine = [g \in Guard |-> "none"]

-----------------------------------------------------------------------------
(* The private methods, as what a slot leaves behind.  procs stands for the *)
(* processes and shut for the guards the slot has closed by then.           *)

AllowsStart == state \in {"Disabled", "Armed"}

\* setState: only Failed keeps a failure.
SetState(s) == state' = s /\ failure' = "none"

\* settle: calls back the waiters that have nothing left to wait for.
Settle ==
  /\ settling' = (settling /\ state' = "Arming")
  /\ idling' = (idling /\ pending' # None)

\* fail always settles.
Fail(code) == state' = "Failed" /\ failure' = code /\ Settle

\* The guards after the slot: closeGuard ran on those in shut, deleteLater on the free ones.
Keep(procs, shut) ==
  /\ proc' = procs
  /\ closing' = [g \in Guard |-> procs[g] # "free" /\ (closing[g] \/ g \in shut)]
  /\ gcfg' = [g \in Guard |-> IF procs[g] = "free" THEN None ELSE gcfg[g]]

\* Mutant of Spawn: the guard that was pending before is forgotten without being closed.
SpawnForgets(act, procs, shut) ==
  \E g \in Guard :
    /\ proc[g] = "free"
    /\ active' = act
    /\ pending' = g
    /\ proc' = [procs EXCEPT ![g] = "starting"]
    /\ closing' = [h \in Guard |-> procs[h] # "free" /\ closing[h]]
    /\ gcfg' = [h \in Guard |-> IF h = g THEN config'
                                ELSE IF procs[h] = "free" THEN None ELSE gcfg[h]]
    /\ refused' = FALSE

\* Mutant of Spawn: the active guard is closed before its successor is ready.
SpawnClosesActive(act, procs, shut) ==
  \E g \in Guard :
    /\ proc[g] = "free"
    /\ active' = act
    /\ pending' = g
    /\ proc' = [procs EXCEPT ![g] = "starting"]
    /\ closing' = [h \in Guard |-> procs[h] # "free" /\ (closing[h] \/ h \in shut \cup {active})]
    /\ gcfg' = [h \in Guard |-> IF h = g THEN config'
                                ELSE IF procs[h] = "free" THEN None ELSE gcfg[h]]
    /\ refused' = FALSE

\* spawn: a new pending guard, with act as active_; the one in shut was pending before.
Spawn(act, procs, shut) ==
  \E g \in Guard :
    /\ proc[g] = "free"
    /\ active' = act
    /\ pending' = g
    /\ proc' = [procs EXCEPT ![g] = "starting"]
    /\ closing' = [h \in Guard |-> procs[h] # "free" /\ (closing[h] \/ h \in shut)]
    /\ gcfg' = [h \in Guard |-> IF h = g THEN config'
                                ELSE IF procs[h] = "free" THEN None ELSE gcfg[h]]
    /\ refused' = FALSE

\* The state spawn leaves: an identity failure stays reported whatever the guard does.
SpawnState(act) ==
  IF act = None /\ ~identity' THEN SetState("Arming") ELSE UNCHANGED <<state, failure>>

\* failIdentity, when apply meets it in an armed switch.
NoteIdentity ==
  IF identity' /\ state = "Armed"
    THEN state' = "Failed" /\ failure' = "identity"
    ELSE UNCHANGED <<state, failure>>

\* Mutant of ApplyOff: only the pending guard is closed.
ApplyOffKeepsActive ==
  /\ identity' = FALSE
  /\ active' = None
  /\ pending' = None
  /\ Keep(proc, {pending})
  /\ SetState("Disabled")
  /\ refused' = FALSE

\* apply with kill_switch off.
ApplyOff ==
  /\ identity' = FALSE
  /\ active' = None
  /\ pending' = None
  /\ Keep(proc, {active, pending})
  /\ SetState("Disabled")
  /\ refused' = FALSE

\* apply under --no-kill-switch fails closed.
ApplyOverridden(ident) ==
  /\ identity' = ident
  /\ active' = None
  /\ pending' = None
  /\ Keep(proc, {active, pending})
  /\ state' = "Failed" /\ failure' = "overridden"
  /\ refused' = FALSE

Serves(g) == g # None /\ gcfg[g] = config'

\* apply with kill_switch on: the pending or the active guard may do already.
ApplyOn(ident) ==
  /\ identity' = ident
  /\ \/ /\ Serves(pending)
        /\ NoteIdentity
        /\ UNCHANGED <<active, pending, proc, gcfg, closing, refused>>
     \/ /\ ~Serves(pending) /\ Serves(active)
        /\ NoteIdentity
        /\ active' = active
        /\ pending' = None
        /\ Keep(proc, {pending})
        /\ refused' = FALSE
     \/ /\ ~Serves(pending) /\ ~Serves(active)
        /\ Spawn(active, proc, {pending})
        /\ IF identity' /\ state = "Armed" THEN NoteIdentity ELSE SpawnState(active)

\* apply, with identityUnsupported_ = ident.  Where the code does not settle there is nobody
\* to call back.
Apply(ident) ==
  /\ \/ ~enabled' /\ ApplyOff
     \/ enabled' /\ overridden /\ ApplyOverridden(ident)
     \/ enabled' /\ ~overridden /\ ApplyOn(ident)
  /\ UNCHANGED <<shutdown, overridden, exiting, readyLine, errorLine>>

\* Mutant of ArmFailed: no retry is scheduled.
ArmFailedNoRetry(code, procs, shut) ==
  /\ UNCHANGED <<settingVars, shutdown, timerVars>>
  /\ pending' = None
  /\ active' = active
  /\ Keep(procs, shut)
  /\ IF active # None
       THEN refused' = (code = "persistent") /\ UNCHANGED <<state, failure>> /\ Settle
       ELSE Fail(code) /\ UNCHANGED refused

\* armFailed: without an active guard the switch has failed; with one, the old settings stay
\* in force and a transient failure is retried.
ArmFailed(code, procs, shut) ==
  /\ UNCHANGED <<settingVars, shutdown, respawnable, portChanged>>
  /\ pending' = None
  /\ active' = active
  /\ Keep(procs, shut)
  /\ IF active # None
       THEN /\ retry' = (retry \/ code = "transient")
            /\ refused' = (code = "persistent")
            /\ UNCHANGED <<state, failure>>
            /\ Settle
       ELSE Fail(code) /\ UNCHANGED <<retry, refused>>

\* protectionLost, active_ gone.  kill_switch is on: turning it off forgets active_.
ProtectionLost(code, procs, shut) ==
  /\ UNCHANGED <<settingVars, shutdown, retry, portChanged>>
  /\ \/ /\ pending # None
        /\ active' = None
        /\ pending' = pending
        /\ Keep(procs, shut)
        /\ SpawnState(None)
        /\ Settle
        /\ UNCHANGED <<respawnable, refused>>
     \/ /\ pending = None
        /\ code = "transient" /\ respawnable
        /\ respawnable' = FALSE
        /\ Spawn(None, procs, shut)
        /\ SpawnState(None)
        /\ UNCHANGED waiterVars
     \/ /\ pending = None
        /\ ~(code = "transient" /\ respawnable)
        /\ active' = None
        /\ pending' = None
        /\ Keep(procs, shut)
        /\ Fail(code)
        /\ refused' = FALSE
        /\ UNCHANGED respawnable

-----------------------------------------------------------------------------
(* What the rest of the program asks of the switch. *)

\* The setting changes and apply follows in the same slot.
SetKillSwitch(on) ==
  /\ ~shutdown
  /\ enabled' = on /\ UNCHANGED config
  /\ Apply(identity)
  /\ Settle
  /\ UNCHANGED timerVars

\* Another setting of the guard changes (SettingsRegistry, MwArg::Vpn), apply follows; with
\* the same config it is a plain apply ("Try again", onCoreStarted).
Reconfigure(c) ==
  /\ ~shutdown
  /\ config' = c /\ UNCHANGED enabled
  /\ Apply(identity)
  /\ Settle
  /\ UNCHANGED timerVars

\* permitExtraCore on the UI thread: the path joins the config, apply, whenIdle.
PermitExtraCore(c) ==
  /\ ~shutdown
  /\ state # "Disabled"
  /\ config' = c /\ UNCHANGED enabled
  /\ Apply(identity)
  /\ settling' = (settling /\ state' = "Arming")
  /\ idling' = (pending' # None)
  /\ UNCHANGED timerVars

\* noteIdentityUnsupported: a core could not adopt the guard group.
NoteIdentityUnsupported ==
  /\ ~shutdown
  /\ UNCHANGED <<enabled, config>>
  /\ Apply(TRUE)
  /\ Settle
  /\ UNCHANGED timerVars

\* SetApiPort, on any thread: the port changes now, the switch looks at it later.
SetApiPort(c) ==
  /\ ~shutdown
  /\ c # config
  /\ config' = c
  /\ portChanged' = TRUE
  /\ UNCHANGED <<enabled, identity, overridden, exiting, uiVars, shutdown, respawnable, retry,
                 waiterVars, guardVars, refused>>

OnPortChanged ==
  /\ portChanged
  /\ UNCHANGED <<enabled, config>>
  /\ portChanged' = FALSE
  /\ IF \/ state \notin {"Arming", "Armed"} /\ active = None /\ pending = None
        \/ exiting
       THEN UNCHANGED <<identity, overridden, exiting, uiVars, shutdown, waiterVars, guardVars,
                        refused>>
       ELSE Apply(identity) /\ Settle
  /\ UNCHANGED <<respawnable, retry>>

\* whenSettled, while it has to wait.
WhenSettled ==
  /\ state = "Arming" /\ ~shutdown
  /\ settling' = TRUE
  /\ UNCHANGED <<settingVars, uiVars, shutdown, timerVars, idling, guardVars, refused>>

\* The retry timer of armFailed.
RetryFires ==
  /\ retry
  /\ UNCHANGED <<enabled, config>>
  /\ retry' = FALSE
  /\ IF shutdown \/ exiting \/ pending # None \/ active = None
       THEN UNCHANGED <<identity, overridden, exiting, uiVars, shutdown, waiterVars, guardVars,
                        refused>>
       ELSE Apply(identity) /\ Settle
  /\ UNCHANGED <<respawnable, portChanged>>

RespawnExpires ==
  /\ ~respawnable /\ ~shutdown
  /\ respawnable' = TRUE
  /\ UNCHANGED <<settingVars, uiVars, shutdown, retry, portChanged, waiterVars, guardVars, refused>>

\* The exit begins: prepare_exit.
PrepareExit ==
  /\ MayExit /\ ~exiting
  /\ exiting' = TRUE
  /\ UNCHANGED <<enabled, config, identity, overridden, uiVars, shutdown, timerVars, waiterVars,
                 guardVars, refused>>

\* shutdown: every guard process is closed, whoever held it.
Shutdown ==
  /\ exiting /\ ~shutdown
  /\ shutdown' = TRUE
  /\ active' = None
  /\ pending' = None
  /\ settling' = FALSE
  /\ idling' = FALSE
  /\ Keep(proc, Guard)
  /\ UNCHANGED <<settingVars, state, failure, timerVars, readyLine, errorLine, refused>>

-----------------------------------------------------------------------------
(* What the guard processes do to the switch. *)

\* QProcess::started: the config is written, unless the guard was closed meanwhile.
OnStarted(g) ==
  /\ proc[g] = "starting"
  /\ ~closing[g]
  /\ proc' = [proc EXCEPT ![g] = "configured"]
  /\ UNCHANGED <<settingVars, uiVars, shutdown, timerVars, waiterVars, gcfg, closing, readyLine,
                 errorLine, refused>>

\* onStartFailed
OnStartFailed(g) ==
  /\ proc[g] = "starting"
  /\ IF g = pending
       THEN ArmFailed("transient", [proc EXCEPT ![g] = "free"], {})
       ELSE /\ Keep([proc EXCEPT ![g] = "free"], {})
            /\ UNCHANGED <<settingVars, uiVars, shutdown, timerVars, waiterVars, refused>>
  /\ UNCHANGED <<readyLine, errorLine>>

\* Mutant of OnReady: a READY counts whoever says it.
OnReadyAnyGuard(g) ==
  /\ readyLine[g]
  /\ readyLine' = [readyLine EXCEPT ![g] = FALSE]
  /\ active' = g
  /\ pending' = None
  /\ Keep(proc, {active, pending} \ {g})
  /\ IF identity THEN Fail("identity") ELSE SetState("Armed") /\ Settle
  /\ UNCHANGED <<settingVars, shutdown, timerVars, errorLine, refused>>

\* Mutant of OnReady: the identity failure is not looked at.
OnReadyIgnoresIdentity(g) ==
  /\ readyLine[g] /\ g = pending
  /\ readyLine' = [readyLine EXCEPT ![g] = FALSE]
  /\ active' = g
  /\ pending' = None
  /\ Keep(proc, {active})
  /\ SetState("Armed") /\ Settle
  /\ UNCHANGED <<settingVars, shutdown, timerVars, errorLine, refused>>

\* onReady: the pending guard becomes the active one, and only then the old one is closed.
OnReady(g) ==
  /\ readyLine[g]
  /\ readyLine' = [readyLine EXCEPT ![g] = FALSE]
  /\ IF g = pending
       THEN /\ active' = g
            /\ pending' = None
            /\ Keep(proc, {active})
            /\ IF identity THEN Fail("identity") ELSE SetState("Armed") /\ Settle
       ELSE UNCHANGED <<uiVars, waiterVars, proc, gcfg, closing>>
  /\ UNCHANGED <<settingVars, shutdown, timerVars, errorLine, refused>>

\* handleLine for ERROR and FAIL.
OnError(g) ==
  /\ ~readyLine[g] /\ errorLine[g] # "none"
  /\ errorLine' = [errorLine EXCEPT ![g] = "none"]
  /\ \/ g = active /\ ProtectionLost(errorLine[g], proc, {g})
     \/ g = pending /\ ArmFailed(errorLine[g], proc, {g})
     \/ /\ g \notin {active, pending}
        /\ UNCHANGED <<settingVars, uiVars, shutdown, timerVars, waiterVars, proc, gcfg, closing,
                       refused>>
  /\ UNCHANGED readyLine

\* onFinished, its output read before.
OnFinished(g) ==
  /\ proc[g] = "exited"
  /\ ~readyLine[g] /\ errorLine[g] = "none"
  /\ LET procs == [proc EXCEPT ![g] = "free"] IN
       \/ g = active /\ ProtectionLost("transient", procs, {})
       \/ g = pending /\ ArmFailed("transient", procs, {})
       \/ /\ g \notin {active, pending}
          /\ Keep(procs, {})
          /\ UNCHANGED <<settingVars, uiVars, shutdown, timerVars, waiterVars, refused>>
  /\ UNCHANGED <<readyLine, errorLine>>

\* onReadyTimeout: closed and stopped hard.
OnReadyTimeout(g) ==
  /\ g = pending
  /\ ArmFailed("transient", [proc EXCEPT ![g] = "exited"], {g})
  /\ UNCHANGED <<readyLine, errorLine>>

-----------------------------------------------------------------------------
(* The guard process, Run of guard.go.  Its rules go with the process: the   *)
(* nftables table and the WFP session belong to it.                         *)

Process(g, p, line) ==
  /\ proc' = [proc EXCEPT ![g] = p]
  /\ errorLine' = [errorLine EXCEPT ![g] = line]
  /\ UNCHANGED <<settingVars, uiVars, shutdown, timerVars, waiterVars, gcfg, closing, refused>>

\* readConfig: the input ended, or stayed silent for too long.
GuardNoConfig(g) ==
  /\ proc[g] = "starting"
  /\ Process(g, "exited", "persistent")
  /\ UNCHANGED readyLine

\* Arm, then READY.
GuardArm(g) ==
  /\ proc[g] = "configured"
  /\ Process(g, "armed", "none")
  /\ readyLine' = [readyLine EXCEPT ![g] = TRUE]

\* ERROR <code>: Arm failed.
GuardArmError(g, code) ==
  /\ proc[g] = "configured"
  /\ Process(g, "exited", code)
  /\ UNCHANGED readyLine

\* FAIL <code> and Disarm after a fatal event, such as rules another program removed.
GuardFatal(g, code) ==
  /\ proc[g] = "armed"
  /\ Process(g, "exited", code)
  /\ UNCHANGED readyLine

\* The input was closed: Disarm and exit.
GuardQuit(g) ==
  /\ proc[g] = "armed" /\ closing[g]
  /\ Process(g, "exited", "none")
  /\ UNCHANGED readyLine

\* A crash, a signal, or stopHard once the grace of a closed guard is over.
GuardDie(g) ==
  /\ proc[g] \in Alive
  /\ Process(g, "exited", "none")
  /\ UNCHANGED readyLine

-----------------------------------------------------------------------------
\* The slots Qt runs for guard g.
Slots(g) == OnStarted(g) \/ OnStartFailed(g) \/ OnReady(g) \/ OnError(g) \/ OnFinished(g)

GuardStep(g) ==
  \/ GuardNoConfig(g) \/ GuardArm(g) \/ GuardQuit(g) \/ GuardDie(g)
  \/ \E code \in Code : GuardArmError(g, code) \/ GuardFatal(g, code)

\* After shutdown, with every guard reaped, nothing is left to do.
Done ==
  /\ shutdown
  /\ \A g \in Guard : proc[g] = "free"
  /\ UNCHANGED vars

Next ==
  \/ \E on \in BOOLEAN : SetKillSwitch(on)
  \/ \E c \in Config : Reconfigure(c) \/ PermitExtraCore(c) \/ SetApiPort(c)
  \/ NoteIdentityUnsupported \/ OnPortChanged \/ WhenSettled
  \/ RetryFires \/ RespawnExpires
  \/ PrepareExit \/ Shutdown
  \/ \E g \in Guard : Slots(g) \/ OnReadyTimeout(g) \/ GuardStep(g)
  \/ Done

Spec == Init /\ [][Next]_vars

(***************************************************************************)
(* The UI thread serves the output and the exit of a guard, the ready      *)
(* timer runs out, and a closed guard quits or is stopped hard.  Whether a *)
(* guard ever gets ready, and what the user does, is left open.            *)
(***************************************************************************)
FairSpec ==
  /\ Spec
  /\ \A g \in Guard : /\ WF_vars(OnReady(g))
                      /\ WF_vars(OnError(g))
                      /\ WF_vars(OnFinished(g))
                      /\ WF_vars(OnReadyTimeout(g))
                      /\ WF_vars(closing[g] /\ GuardDie(g))

-----------------------------------------------------------------------------
(* Properties. *)

\* Armed is reported only while the active guard has its rules in force, or its exit is
\* about to be noticed: no READY of a replaced guard, no failed replacement and no respawn
\* leaves the state ahead of the firewall.
ArmedMeansGuarded ==
  state = "Armed" /\ ~shutdown =>
    active # None /\ ~closing[active] /\ proc[active] \in {"armed", "exited"}

\* allowsStart fails closed: with kill_switch on, profiles start only under an armed switch
\* that no override and no identity failure stands against.
StartsFailClosed ==
  enabled /\ AllowsStart /\ ~shutdown => state = "Armed" /\ ~identity /\ ~overridden

\* Every guard process that was not told to quit is the active or the pending one: none
\* goes on blocking traffic after the switch forgot it.
NoOrphanGuard ==
  \A g \in Guard : proc[g] \in Alive /\ ~closing[g] => g \in {active, pending}

\* No lost wakeup: whoever waits for the switch waits for a pending guard, whose end wakes it.
WaitersHaveAGuard ==
  /\ settling => state = "Arming"
  /\ state = "Arming" /\ ~shutdown => pending # None /\ active = None
  /\ idling => pending # None

\* A guard with other settings than the current ones is kept only while a retry or a queued
\* port change is to come, or because the new settings were refused for good.
StaleConfigIsRetried ==
  state = "Armed" /\ ~exiting /\ pending = None /\ gcfg[active] # config =>
    retry \/ portChanged \/ refused

\* No gap at a hand-over: the active guard is told to quit only when the switch is off,
\* overridden or shut down, when it has quit by itself, or when its successor has armed.
NoGapAtHandover ==
  [][\A g \in Guard :
       g = active /\ proc[g] = "armed" /\ ~closing[g] /\ closing'[g] =>
         \/ ~enabled' \/ overridden \/ shutdown'
         \/ active' # None /\ ~closing'[active'] /\ proc'[active'] \in {"armed", "exited"}]_vars

\* Whoever waits in whenSettled or whenIdle is called back, or dropped by shutdown, unless
\* the settings never come to rest: each new config starts the arming over.
WaitersAreCalled ==
  []<><<config' # config>>_vars \/ ((settling ~> ~settling) /\ (idling ~> ~idling))

\* Turned off, the switch unblocks the traffic: no guard keeps its rules.
OffUnblocks == ~enabled ~> enabled \/ \A g \in Guard : proc[g] # "armed"

\* Nobody is left stuck, the profiles that wait for the switch or the machine it cut off.
NobodyIsStuck == WaitersAreCalled /\ OffUnblocks
=============================================================================
