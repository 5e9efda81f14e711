------------------------- MODULE KillSwitch_proofs -------------------------
(***************************************************************************)
(* Proofs for KillSwitch: the safety properties hold for any number of     *)
(* guard processes and any set of configurations.                          *)
(***************************************************************************)
EXTENDS KillSwitch, TLAPS

\* A guard says READY once it has armed and ERROR or FAIL when it exits; a free slot has
\* nothing left of its last guard.
OutputInv ==
  \A g \in Guard :
    /\ readyLine[g] => proc[g] \in {"armed", "exited"}
    /\ errorLine[g] # "none" => proc[g] = "exited"
    /\ proc[g] = "free" => ~closing[g]

\* What the switch holds: guards it has not closed, the active one ready; and nobody else's.
HolderInv ==
  /\ active # None => /\ ~closing[active]
                      /\ proc[active] \in {"armed", "exited"}
  /\ pending # None => ~closing[pending] /\ proc[pending] # "free"
  /\ active # None \/ pending # None => enabled /\ ~overridden /\ ~shutdown
  /\ NoOrphanGuard

\* The reported state against the settings and the guards held.
StateInv ==
  shutdown \/ /\ enabled <=> state # "Disabled"
              /\ enabled /\ overridden => state = "Failed"
              /\ identity => enabled /\ state # "Armed"
              /\ state = "Armed" => active # None
              /\ state = "Arming" => pending # None /\ active = None

WaitInv ==
  /\ settling => state = "Arming" /\ ~shutdown
  /\ idling => pending # None

\* The guard being armed has the current settings, unless a port change is still queued.
StaleInv ==
  /\ ~exiting /\ pending # None /\ gcfg[pending] # config => portChanged
  /\ StaleConfigIsRetried
  /\ shutdown => exiting

IInv ==
  /\ TypeOK
  /\ OutputInv
  /\ HolderInv
  /\ StateInv
  /\ WaitInv
  /\ StaleInv

-----------------------------------------------------------------------------
\* Before the first apply the invariant holds.
LEMMA InitIInv == Init => IInv
<1> SUFFICES ASSUME Init PROVE IInv OBVIOUS
<1>1. TypeOK
  BY Zenon DEF Init, TypeOK, Proc, State, Failure, Code
<1>2. OutputInv /\ HolderInv /\ NoOrphanGuard
  BY DEF Init, OutputInv, HolderInv, NoOrphanGuard, Alive
<1>3. StateInv /\ WaitInv /\ StaleInv
  BY DEF Init, StateInv, WaitInv, StaleInv, StaleConfigIsRetried
<1> QED BY <1>1, <1>2, <1>3 DEF IInv

\* apply with kill_switch off.
LEMMA ApplyOffStep ==
  ASSUME IInv, ~shutdown, ~enabled', ApplyOff,
         enabled' \in BOOLEAN, config' \in Config,
         respawnable' \in BOOLEAN, retry' \in BOOLEAN, portChanged' \in BOOLEAN,
         settling' = (settling /\ state' = "Arming"),
         idling' \in BOOLEAN, idling' => pending' # None,
         UNCHANGED <<shutdown, overridden, exiting, readyLine, errorLine>>
  PROVE  IInv'
<1> USE DEF ApplyOff, Keep, SetState
<1>1. TypeOK'
  BY KillSwitchAssumption DEF IInv, TypeOK, HolderInv, Proc, State, Failure, Code
<1>2. OutputInv'
  BY KillSwitchAssumption DEF IInv, TypeOK, OutputInv, Proc
<1>3. HolderInv'
  BY KillSwitchAssumption DEF IInv, TypeOK, OutputInv, HolderInv, StateInv, NoOrphanGuard, Proc,
       Alive
<1>4. StateInv'
  BY KillSwitchAssumption DEF IInv, TypeOK, HolderInv, StateInv, State
<1>5. WaitInv'
  BY KillSwitchAssumption DEF IInv, TypeOK, HolderInv, StateInv, WaitInv
<1>6. StaleInv'
  BY KillSwitchAssumption DEF IInv, TypeOK, HolderInv, StateInv, StaleInv, StaleConfigIsRetried
<1> QED BY <1>1, <1>2, <1>3, <1>4, <1>5, <1>6 DEF IInv

\* apply under an override.
LEMMA ApplyOverriddenStep ==
  ASSUME IInv, ~shutdown, NEW ident \in BOOLEAN, enabled', overridden, ApplyOverridden(ident),
         enabled' \in BOOLEAN, config' \in Config,
         respawnable' \in BOOLEAN, retry' \in BOOLEAN, portChanged' \in BOOLEAN,
         settling' = (settling /\ state' = "Arming"),
         idling' \in BOOLEAN, idling' => pending' # None,
         UNCHANGED <<shutdown, overridden, exiting, readyLine, errorLine>>
  PROVE  IInv'
<1> USE DEF ApplyOverridden, Keep
<1>1. TypeOK'
  BY KillSwitchAssumption DEF IInv, TypeOK, HolderInv, Proc, State, Failure, Code
<1>2. OutputInv'
  BY KillSwitchAssumption DEF IInv, TypeOK, OutputInv, Proc
<1>3. HolderInv'
  BY KillSwitchAssumption DEF IInv, TypeOK, OutputInv, HolderInv, StateInv, NoOrphanGuard, Proc,
       Alive
<1>4. StateInv'
  BY KillSwitchAssumption DEF IInv, TypeOK, HolderInv, StateInv, State
<1>5. WaitInv'
  BY KillSwitchAssumption DEF IInv, TypeOK, HolderInv, StateInv, WaitInv
<1>6. StaleInv'
  BY KillSwitchAssumption DEF IInv, TypeOK, HolderInv, StateInv, StaleInv, StaleConfigIsRetried
<1> QED BY <1>1, <1>2, <1>3, <1>4, <1>5, <1>6 DEF IInv

\* apply when the pending guard has the settings already.
LEMMA ApplyPendingStep ==
  ASSUME IInv, ~shutdown, NEW ident \in BOOLEAN, ident => enabled, enabled', ~overridden,
         enabled' \in BOOLEAN, config' \in Config,
         respawnable' \in BOOLEAN, retry' \in BOOLEAN, portChanged' \in BOOLEAN,
         settling' = (settling /\ state' = "Arming"),
         idling' \in BOOLEAN, idling' => pending' # None,
         UNCHANGED <<shutdown, overridden, exiting, readyLine, errorLine>>,
         identity' = ident, Serves(pending), NoteIdentity,
         UNCHANGED <<active, pending, proc, gcfg, closing, refused>>
  PROVE  IInv'
<1> USE DEF Serves, NoteIdentity
<1>1. TypeOK'
  BY KillSwitchAssumption DEF IInv, TypeOK, HolderInv, Proc, State, Failure, Code
<1>2. OutputInv'
  BY KillSwitchAssumption DEF IInv, TypeOK, OutputInv, Proc
<1>3. HolderInv'
  BY KillSwitchAssumption DEF IInv, TypeOK, OutputInv, HolderInv, StateInv, NoOrphanGuard, Proc,
       Alive
<1>4. StateInv'
  BY KillSwitchAssumption DEF IInv, TypeOK, HolderInv, StateInv, State
<1>5. WaitInv'
  BY KillSwitchAssumption DEF IInv, TypeOK, HolderInv, StateInv, WaitInv
<1>6. StaleInv'
  BY KillSwitchAssumption DEF IInv, TypeOK, HolderInv, StateInv, StaleInv, StaleConfigIsRetried
<1> QED BY <1>1, <1>2, <1>3, <1>4, <1>5, <1>6 DEF IInv

\* apply when the active guard has them.
LEMMA ApplyActiveStep ==
  ASSUME IInv, ~shutdown, NEW ident \in BOOLEAN, ident => enabled, enabled', ~overridden,
         enabled' \in BOOLEAN, config' \in Config,
         respawnable' \in BOOLEAN, retry' \in BOOLEAN, portChanged' \in BOOLEAN,
         settling' = (settling /\ state' = "Arming"),
         idling' \in BOOLEAN, idling' => pending' # None,
         UNCHANGED <<shutdown, overridden, exiting, readyLine, errorLine>>,
         identity' = ident, Serves(active), NoteIdentity, active' = active, pending' = None,
         Keep(proc, {pending}), refused' = FALSE
  PROVE  IInv'
<1> USE DEF Keep, Serves, NoteIdentity
<1>1. TypeOK'
  BY KillSwitchAssumption DEF IInv, TypeOK, HolderInv, Proc, State, Failure, Code
<1>2. OutputInv'
  BY KillSwitchAssumption DEF IInv, TypeOK, OutputInv, Proc
<1>3. HolderInv'
  BY KillSwitchAssumption DEF IInv, TypeOK, OutputInv, HolderInv, StateInv, NoOrphanGuard, Proc,
       Alive
<1>4. StateInv'
  BY KillSwitchAssumption DEF IInv, TypeOK, HolderInv, StateInv, State
<1>5. WaitInv'
  BY KillSwitchAssumption DEF IInv, TypeOK, HolderInv, StateInv, WaitInv
<1>6. StaleInv'
  BY KillSwitchAssumption DEF IInv, TypeOK, HolderInv, StateInv, StaleInv, StaleConfigIsRetried
<1> QED BY <1>1, <1>2, <1>3, <1>4, <1>5, <1>6 DEF IInv

\* What spawn leaves: the new guard takes a free slot, with the settings of the moment.
LEMMA SpawnFacts ==
  ASSUME TypeOK, NEW procs \in [Guard -> Proc], NEW act, NEW shut, config' \in Config,
         Spawn(act, procs, shut)
  PROVE  /\ refused' \in BOOLEAN
         /\ pending' \in Guard /\ proc[pending'] = "free" /\ active' = act
         /\ proc' = [procs EXCEPT ![pending'] = "starting"]
         /\ closing' = [h \in Guard |-> procs[h] # "free" /\ (closing[h] \/ h \in shut)]
         /\ gcfg' = [h \in Guard |-> IF h = pending' THEN config'
                                     ELSE IF procs[h] = "free" THEN None ELSE gcfg[h]]
         /\ proc' \in [Guard -> Proc]
         /\ closing' \in [Guard -> BOOLEAN]
         /\ gcfg' \in [Guard -> Config \cup {None}]
<1>1. PICK g \in Guard :
        /\ proc[g] = "free"
        /\ active' = act
        /\ pending' = g
        /\ proc' = [procs EXCEPT ![g] = "starting"]
        /\ closing' = [h \in Guard |-> procs[h] # "free" /\ (closing[h] \/ h \in shut)]
        /\ gcfg' = [h \in Guard |-> IF h = g THEN config'
                                    ELSE IF procs[h] = "free" THEN None ELSE gcfg[h]]
        /\ refused' = FALSE
  BY Zenon DEF Spawn
<1>2. refused' \in BOOLEAN
  BY <1>1, Zenon
<1>3. proc' \in [Guard -> Proc]
  BY <1>1 DEF Proc
<1>4. closing' \in [Guard -> BOOLEAN]
  BY <1>1
<1>5. gcfg' \in [Guard -> Config \cup {None}]
  BY <1>1 DEF TypeOK
<1> QED BY <1>1, <1>2, <1>3, <1>4, <1>5

\* apply when a new guard is needed.
LEMMA ApplySpawnStep ==
  ASSUME IInv, ~shutdown, NEW ident \in BOOLEAN, ident => enabled, enabled', ~overridden,
         enabled' \in BOOLEAN, config' \in Config,
         respawnable' \in BOOLEAN, retry' \in BOOLEAN, portChanged' \in BOOLEAN,
         settling' = (settling /\ state' = "Arming"),
         idling' \in BOOLEAN, idling' => pending' # None,
         UNCHANGED <<shutdown, overridden, exiting, readyLine, errorLine>>,
         identity' = ident, Spawn(active, proc, {pending}),
         IF identity' /\ state = "Armed" THEN NoteIdentity ELSE SpawnState(active)
  PROVE  IInv'
<1>0. /\ refused' \in BOOLEAN
      /\ pending' \in Guard /\ proc[pending'] = "free" /\ active' = active
      /\ proc' = [proc EXCEPT ![pending'] = "starting"]
      /\ closing' = [h \in Guard |-> proc[h] # "free" /\ (closing[h] \/ h \in {pending})]
      /\ gcfg' = [h \in Guard |-> IF h = pending' THEN config'
                                  ELSE IF proc[h] = "free" THEN None ELSE gcfg[h]]
      /\ proc' \in [Guard -> Proc]
      /\ closing' \in [Guard -> BOOLEAN]
      /\ gcfg' \in [Guard -> Config \cup {None}]
  BY SpawnFacts DEF IInv, TypeOK
<1> USE DEF SpawnState, SetState, NoteIdentity
<1>1. TypeOK'
  BY KillSwitchAssumption, <1>0 DEF IInv, TypeOK, HolderInv, Proc, State, Failure, Code
<1>2. OutputInv'
  BY KillSwitchAssumption, <1>0 DEF IInv, TypeOK, OutputInv, Proc
<1>3. HolderInv'
  BY KillSwitchAssumption, <1>0 DEF IInv, TypeOK, OutputInv, HolderInv, StateInv, NoOrphanGuard,
       Proc, Alive
<1>4. StateInv'
  BY KillSwitchAssumption, <1>0 DEF IInv, TypeOK, HolderInv, StateInv, State
<1>5. WaitInv'
  BY KillSwitchAssumption, <1>0 DEF IInv, TypeOK, HolderInv, StateInv, WaitInv
<1>6. StaleInv'
  BY KillSwitchAssumption, <1>0 DEF IInv, TypeOK, HolderInv, StateInv, StaleInv,
       StaleConfigIsRetried
<1> QED BY <1>1, <1>2, <1>3, <1>4, <1>5, <1>6 DEF IInv

\* apply, whichever way it goes.
LEMMA ApplyStep ==
  ASSUME IInv, ~shutdown, NEW ident \in BOOLEAN, Apply(ident),
         ident => enabled \/ ~enabled',
         enabled' \in BOOLEAN, config' \in Config,
         respawnable' \in BOOLEAN, retry' \in BOOLEAN, portChanged' \in BOOLEAN,
         settling' = (settling /\ state' = "Arming"),
         idling' \in BOOLEAN, idling' => pending' # None
  PROVE  IInv'
<1>0. UNCHANGED <<shutdown, overridden, exiting, readyLine, errorLine>>
  BY DEF Apply
<1>1. CASE ~enabled' /\ ApplyOff
  BY <1>0, <1>1, ApplyOffStep
<1>2. CASE enabled' /\ overridden /\ ApplyOverridden(ident)
  BY <1>0, <1>2, ApplyOverriddenStep
<1>3. CASE enabled' /\ ~overridden /\ ApplyOn(ident)
  BY <1>0, <1>3, ApplyPendingStep, ApplyActiveStep, ApplySpawnStep DEF ApplyOn
<1> QED BY <1>1, <1>2, <1>3 DEF Apply

\* armFailed, for a pending guard that has ended or is closed.
LEMMA ArmFailedStep ==
  ASSUME IInv, pending # None, NEW code \in Code,
         NEW procs \in [Guard -> Proc], NEW shut,
         shut = {} \/ shut = {pending},
         \A g \in Guard : g # pending => procs[g] = proc[g],
         procs[pending] \in Alive => shut = {pending},
         \A g \in Guard : errorLine'[g] # "none" => procs[g] = "exited" /\ proc[g] # "free",
         ArmFailed(code, procs, shut),
         readyLine' \in [Guard -> BOOLEAN], errorLine' \in [Guard -> Code \cup {"none"}],
         \A g \in Guard : readyLine'[g] => procs[g] \in {"armed", "exited"}
  PROVE  IInv'
<1>0. /\ UNCHANGED <<settingVars, shutdown, respawnable, portChanged>>
      /\ pending' = None /\ active' = active /\ Keep(procs, shut) /\ Settle
      /\ active # None => UNCHANGED <<state, failure>>
      /\ active = None => state' = "Failed" /\ failure' = code
      /\ retry' \in BOOLEAN /\ refused' \in BOOLEAN
      /\ active # None => retry' \/ refused'
  <2>1. CASE active # None
    <3>1. retry' = (retry \/ code = "transient") /\ refused' = (code = "persistent")
      BY <2>1, Zenon DEF ArmFailed
    <3>2. retry' \in BOOLEAN /\ refused' \in BOOLEAN
      BY <3>1, Zenon
    <3>3. retry' \/ refused'
      BY <3>1, Zenon DEF Code
    <3> QED BY <2>1, <3>2, <3>3 DEF ArmFailed
  <2>2. CASE active = None
    <3>1. UNCHANGED <<retry, refused>> /\ Fail(code)
      BY <2>2, Zenon DEF ArmFailed
    <3> QED BY <2>2, <3>1 DEF ArmFailed, Fail, IInv, TypeOK
  <2> QED BY <2>1, <2>2
<1> USE DEF Keep, Fail, Settle, Alive, settingVars
<1>1. TypeOK'
  BY KillSwitchAssumption, <1>0 DEF IInv, TypeOK, HolderInv, Proc, State, Failure, Code
<1>2. OutputInv'
  BY KillSwitchAssumption, <1>0 DEF IInv, TypeOK, OutputInv, Proc
<1>3. HolderInv'
  BY KillSwitchAssumption, <1>0 DEF IInv, TypeOK, OutputInv, HolderInv, StateInv, NoOrphanGuard,
       Proc, Alive
<1>4. StateInv'
  BY KillSwitchAssumption, <1>0 DEF IInv, TypeOK, HolderInv, StateInv, State
<1>5. WaitInv'
  BY KillSwitchAssumption, <1>0 DEF IInv, TypeOK, HolderInv, StateInv, WaitInv
<1>6. StaleInv'
  BY KillSwitchAssumption, <1>0 DEF IInv, TypeOK, HolderInv, StateInv, StaleInv,
       StaleConfigIsRetried
<1> QED BY <1>1, <1>2, <1>3, <1>4, <1>5, <1>6 DEF IInv

\* protectionLost while a replacement is pending.
LEMMA LostToPendingStep ==
  ASSUME IInv, active # None, NEW code \in Code,
         NEW procs \in [Guard -> Proc], NEW shut,
         shut = {} \/ shut = {active},
         \A g \in Guard : g # active => procs[g] = proc[g],
         procs[active] \in Alive => shut = {active},
         \A g \in Guard : errorLine'[g] # "none" => procs[g] = "exited" /\ proc[g] # "free",
         UNCHANGED <<settingVars, shutdown, retry, portChanged>>,
         readyLine' \in [Guard -> BOOLEAN], errorLine' \in [Guard -> Code \cup {"none"}],
         \A g \in Guard : readyLine'[g] => procs[g] \in {"armed", "exited"} /\ proc[g] # "free",
         pending # None, active' = None, pending' = pending, Keep(procs, shut),
         SpawnState(None), Settle, UNCHANGED <<respawnable, refused>>
  PROVE  IInv'
<1> USE DEF Keep, SpawnState, SetState, Settle, Alive, settingVars
<1>1. TypeOK'
  BY KillSwitchAssumption DEF IInv, TypeOK, HolderInv, Proc, State, Failure, Code
<1>2. OutputInv'
  BY KillSwitchAssumption DEF IInv, TypeOK, OutputInv, Proc
<1>3. HolderInv'
  BY KillSwitchAssumption DEF IInv, TypeOK, OutputInv, HolderInv, StateInv, NoOrphanGuard, Proc,
       Alive
<1>4. StateInv'
  BY KillSwitchAssumption DEF IInv, TypeOK, HolderInv, StateInv, State
<1>5. WaitInv'
  BY KillSwitchAssumption DEF IInv, TypeOK, HolderInv, StateInv, WaitInv
<1>6. StaleInv'
  BY KillSwitchAssumption DEF IInv, TypeOK, HolderInv, StateInv, StaleInv, StaleConfigIsRetried
<1> QED BY <1>1, <1>2, <1>3, <1>4, <1>5, <1>6 DEF IInv

\* protectionLost with a respawn.
LEMMA LostRespawnStep ==
  ASSUME IInv, active # None, NEW code \in Code,
         NEW procs \in [Guard -> Proc], NEW shut,
         shut = {} \/ shut = {active},
         \A g \in Guard : g # active => procs[g] = proc[g],
         procs[active] \in Alive => shut = {active},
         \A g \in Guard : errorLine'[g] # "none" => procs[g] = "exited" /\ proc[g] # "free",
         UNCHANGED <<settingVars, shutdown, retry, portChanged>>,
         readyLine' \in [Guard -> BOOLEAN], errorLine' \in [Guard -> Code \cup {"none"}],
         \A g \in Guard : readyLine'[g] => procs[g] \in {"armed", "exited"} /\ proc[g] # "free",
         pending = None, respawnable' = FALSE, Spawn(None, procs, shut), SpawnState(None),
         UNCHANGED waiterVars
  PROVE  IInv'
<1>0. /\ refused' \in BOOLEAN
      /\ pending' \in Guard /\ proc[pending'] = "free" /\ active' = None
      /\ proc' = [procs EXCEPT ![pending'] = "starting"]
      /\ closing' = [h \in Guard |-> procs[h] # "free" /\ (closing[h] \/ h \in shut)]
      /\ gcfg' = [h \in Guard |-> IF h = pending' THEN config'
                                  ELSE IF procs[h] = "free" THEN None ELSE gcfg[h]]
      /\ proc' \in [Guard -> Proc]
      /\ closing' \in [Guard -> BOOLEAN]
      /\ gcfg' \in [Guard -> Config \cup {None}]
  BY SpawnFacts DEF IInv, TypeOK, settingVars
<1> USE DEF SpawnState, SetState, Alive, settingVars, waiterVars
<1>1. TypeOK'
  BY KillSwitchAssumption, <1>0 DEF IInv, TypeOK, HolderInv, Proc, State, Failure, Code
<1>2. OutputInv'
  BY KillSwitchAssumption, <1>0 DEF IInv, TypeOK, OutputInv, Proc
<1>3. HolderInv'
  BY KillSwitchAssumption, <1>0 DEF IInv, TypeOK, OutputInv, HolderInv, StateInv, NoOrphanGuard,
       Proc, Alive
<1>4. StateInv'
  BY KillSwitchAssumption, <1>0 DEF IInv, TypeOK, HolderInv, StateInv, State
<1>5. WaitInv'
  BY KillSwitchAssumption, <1>0 DEF IInv, TypeOK, HolderInv, StateInv, WaitInv
<1>6. StaleInv'
  BY KillSwitchAssumption, <1>0 DEF IInv, TypeOK, HolderInv, StateInv, StaleInv,
       StaleConfigIsRetried
<1> QED BY <1>1, <1>2, <1>3, <1>4, <1>5, <1>6 DEF IInv

\* protectionLost without one.
LEMMA LostFailStep ==
  ASSUME IInv, active # None, NEW code \in Code,
         NEW procs \in [Guard -> Proc], NEW shut,
         shut = {} \/ shut = {active},
         \A g \in Guard : g # active => procs[g] = proc[g],
         procs[active] \in Alive => shut = {active},
         \A g \in Guard : errorLine'[g] # "none" => procs[g] = "exited" /\ proc[g] # "free",
         UNCHANGED <<settingVars, shutdown, retry, portChanged>>,
         readyLine' \in [Guard -> BOOLEAN], errorLine' \in [Guard -> Code \cup {"none"}],
         \A g \in Guard : readyLine'[g] => procs[g] \in {"armed", "exited"} /\ proc[g] # "free",
         pending = None, active' = None, pending' = None, Keep(procs, shut), Fail(code),
         refused' = FALSE, UNCHANGED respawnable
  PROVE  IInv'
<1> USE DEF Keep, Fail, Settle, Alive, settingVars
<1>1. TypeOK'
  BY KillSwitchAssumption DEF IInv, TypeOK, HolderInv, Proc, State, Failure, Code
<1>2. OutputInv'
  BY KillSwitchAssumption DEF IInv, TypeOK, OutputInv, Proc
<1>3. HolderInv'
  BY KillSwitchAssumption DEF IInv, TypeOK, OutputInv, HolderInv, StateInv, NoOrphanGuard, Proc,
       Alive
<1>4. StateInv'
  BY KillSwitchAssumption DEF IInv, TypeOK, HolderInv, StateInv, State
<1>5. WaitInv'
  BY KillSwitchAssumption DEF IInv, TypeOK, HolderInv, StateInv, WaitInv
<1>6. StaleInv'
  BY KillSwitchAssumption DEF IInv, TypeOK, HolderInv, StateInv, StaleInv, StaleConfigIsRetried
<1> QED BY <1>1, <1>2, <1>3, <1>4, <1>5, <1>6 DEF IInv

\* protectionLost, whichever way it goes.
LEMMA ProtectionLostStep ==
  ASSUME IInv, active # None, NEW code \in Code,
         NEW procs \in [Guard -> Proc], NEW shut,
         shut = {} \/ shut = {active},
         \A g \in Guard : g # active => procs[g] = proc[g],
         procs[active] \in Alive => shut = {active},
         \A g \in Guard : errorLine'[g] # "none" => procs[g] = "exited" /\ proc[g] # "free",
         ProtectionLost(code, procs, shut),
         readyLine' \in [Guard -> BOOLEAN], errorLine' \in [Guard -> Code \cup {"none"}],
         \A g \in Guard : readyLine'[g] => procs[g] \in {"armed", "exited"} /\ proc[g] # "free"
  PROVE  IInv'
<1>0. UNCHANGED <<settingVars, shutdown, retry, portChanged>>
  BY Zenon DEF ProtectionLost
<1>1. CASE /\ pending # None /\ active' = None /\ pending' = pending /\ Keep(procs, shut)
           /\ SpawnState(None) /\ Settle /\ UNCHANGED <<respawnable, refused>>
  BY <1>0, <1>1, LostToPendingStep
<1>2. CASE /\ pending = None /\ respawnable' = FALSE /\ Spawn(None, procs, shut)
           /\ SpawnState(None) /\ UNCHANGED waiterVars
  BY <1>0, <1>2, LostRespawnStep
<1>3. CASE /\ pending = None /\ active' = None /\ pending' = None /\ Keep(procs, shut)
           /\ Fail(code) /\ refused' = FALSE /\ UNCHANGED respawnable
  BY <1>0, <1>3, LostFailStep
<1> QED BY <1>1, <1>2, <1>3, Zenon DEF ProtectionLost

\* Turning the switch on or off.
LEMMA SetKillSwitchStep ==
  ASSUME IInv, NEW on \in BOOLEAN, SetKillSwitch(on)
  PROVE  IInv'
<1>1. Apply(identity) /\ ~shutdown /\ (identity => enabled \/ ~enabled') /\ identity \in BOOLEAN
  BY Zenon DEF SetKillSwitch, IInv, TypeOK, StateInv
<1>2. /\ enabled' \in BOOLEAN /\ config' \in Config
      /\ respawnable' \in BOOLEAN /\ retry' \in BOOLEAN /\ portChanged' \in BOOLEAN
  BY Zenon DEF SetKillSwitch, IInv, TypeOK, timerVars
<1>3. /\ settling' = (settling /\ state' = "Arming")
      /\ idling' \in BOOLEAN /\ (idling' => pending' # None)
  BY Zenon DEF SetKillSwitch, IInv, TypeOK, Settle
<1> QED BY <1>1, <1>2, <1>3, ApplyStep

\* A change of the other settings.
LEMMA ReconfigureStep ==
  ASSUME IInv, NEW c \in Config, Reconfigure(c)
  PROVE  IInv'
<1>1. Apply(identity) /\ ~shutdown /\ (identity => enabled \/ ~enabled') /\ identity \in BOOLEAN
  BY Zenon DEF Reconfigure, IInv, TypeOK, StateInv
<1>2. /\ enabled' \in BOOLEAN /\ config' \in Config
      /\ respawnable' \in BOOLEAN /\ retry' \in BOOLEAN /\ portChanged' \in BOOLEAN
  BY Zenon DEF Reconfigure, IInv, TypeOK, timerVars
<1>3. /\ settling' = (settling /\ state' = "Arming")
      /\ idling' \in BOOLEAN /\ (idling' => pending' # None)
  BY Zenon DEF Reconfigure, IInv, TypeOK, Settle
<1> QED BY <1>1, <1>2, <1>3, ApplyStep

\* permitExtraCore.
LEMMA PermitExtraCoreStep ==
  ASSUME IInv, NEW c \in Config, PermitExtraCore(c)
  PROVE  IInv'
<1>1. Apply(identity) /\ ~shutdown /\ (identity => enabled \/ ~enabled') /\ identity \in BOOLEAN
  BY Zenon DEF PermitExtraCore, IInv, TypeOK, StateInv
<1>2. /\ enabled' \in BOOLEAN /\ config' \in Config
      /\ respawnable' \in BOOLEAN /\ retry' \in BOOLEAN /\ portChanged' \in BOOLEAN
  BY Zenon DEF PermitExtraCore, IInv, TypeOK, timerVars
<1>3. /\ settling' = (settling /\ state' = "Arming")
      /\ idling' \in BOOLEAN /\ (idling' => pending' # None)
  BY Zenon DEF PermitExtraCore, IInv, TypeOK, Settle
<1> QED BY <1>1, <1>2, <1>3, ApplyStep

\* noteIdentityUnsupported.
LEMMA NoteIdentityUnsupportedStep ==
  ASSUME IInv, NoteIdentityUnsupported
  PROVE  IInv'
<1>1. Apply(TRUE) /\ ~shutdown /\ (TRUE => enabled \/ ~enabled') /\ TRUE \in BOOLEAN
  BY Zenon DEF NoteIdentityUnsupported, IInv, TypeOK, StateInv
<1>2. /\ enabled' \in BOOLEAN /\ config' \in Config
      /\ respawnable' \in BOOLEAN /\ retry' \in BOOLEAN /\ portChanged' \in BOOLEAN
  BY Zenon DEF NoteIdentityUnsupported, IInv, TypeOK, timerVars
<1>3. /\ settling' = (settling /\ state' = "Arming")
      /\ idling' \in BOOLEAN /\ (idling' => pending' # None)
  BY Zenon DEF NoteIdentityUnsupported, IInv, TypeOK, Settle
<1> QED BY <1>1, <1>2, <1>3, ApplyStep

\* The queued look at the port.
LEMMA OnPortChangedStep ==
  ASSUME IInv, OnPortChanged
  PROVE  IInv'
<1>0. /\ portChanged' \in BOOLEAN /\ UNCHANGED <<enabled, config, respawnable, retry>>
      /\ enabled' \in BOOLEAN /\ config' \in Config
      /\ respawnable' \in BOOLEAN /\ retry' \in BOOLEAN
  BY Zenon DEF OnPortChanged, IInv, TypeOK
<1>1. CASE \/ state \notin {"Arming", "Armed"} /\ active = None /\ pending = None
           \/ exiting
  <2>1. UNCHANGED <<identity, overridden, exiting, uiVars, shutdown, waiterVars, guardVars,
                    refused>>
    BY <1>1, Zenon DEF OnPortChanged
  <2>2. TypeOK'
    BY <1>0, <2>1 DEF IInv, TypeOK, uiVars, waiterVars, guardVars
  <2>3. OutputInv' /\ HolderInv' /\ StateInv' /\ WaitInv'
    BY <1>0, <2>1 DEF IInv, OutputInv, HolderInv, NoOrphanGuard, StateInv, WaitInv,
       uiVars, waiterVars, guardVars
  <2>4. StaleInv'
    BY <1>0, <1>1, <2>1 DEF IInv, StaleInv, StaleConfigIsRetried, StateInv, uiVars, guardVars
  <2> QED BY <2>2, <2>3, <2>4 DEF IInv
<1>2. CASE ~(\/ state \notin {"Arming", "Armed"} /\ active = None /\ pending = None
           \/ exiting)
  <2>1. Apply(identity) /\ Settle
    BY <1>2, Zenon DEF OnPortChanged
  <2>2. ~shutdown /\ identity \in BOOLEAN /\ (identity => enabled \/ ~enabled')
    BY <1>2, <1>0 DEF IInv, TypeOK, StaleInv, StateInv
  <2>3. /\ settling' = (settling /\ state' = "Arming")
        /\ idling' \in BOOLEAN /\ (idling' => pending' # None)
    BY <2>1, Zenon DEF IInv, TypeOK, Settle
  <2> QED BY <1>0, <2>1, <2>2, <2>3, ApplyStep
<1> QED BY <1>1, <1>2

\* The retry timer.
LEMMA RetryFiresStep ==
  ASSUME IInv, RetryFires
  PROVE  IInv'
<1>0. /\ retry' \in BOOLEAN /\ UNCHANGED <<enabled, config, respawnable, portChanged>>
      /\ enabled' \in BOOLEAN /\ config' \in Config
      /\ respawnable' \in BOOLEAN /\ portChanged' \in BOOLEAN
  BY Zenon DEF RetryFires, IInv, TypeOK
<1>1. CASE shutdown \/ exiting \/ pending # None \/ active = None
  <2>1. UNCHANGED <<identity, overridden, exiting, uiVars, shutdown, waiterVars, guardVars,
                    refused>>
    BY <1>1, Zenon DEF RetryFires
  <2>2. TypeOK'
    BY <1>0, <2>1 DEF IInv, TypeOK, uiVars, waiterVars, guardVars
  <2>3. OutputInv' /\ HolderInv' /\ StateInv' /\ WaitInv'
    BY <1>0, <2>1 DEF IInv, OutputInv, HolderInv, NoOrphanGuard, StateInv, WaitInv,
       uiVars, waiterVars, guardVars
  <2>4. StaleInv'
    BY <1>0, <1>1, <2>1 DEF IInv, StaleInv, StaleConfigIsRetried, StateInv, uiVars, guardVars
  <2> QED BY <2>2, <2>3, <2>4 DEF IInv
<1>2. CASE ~(shutdown \/ exiting \/ pending # None \/ active = None)
  <2>1. Apply(identity) /\ Settle
    BY <1>2, Zenon DEF RetryFires
  <2>2. ~shutdown /\ identity \in BOOLEAN /\ (identity => enabled \/ ~enabled')
    BY <1>2, <1>0 DEF IInv, TypeOK, StaleInv, StateInv
  <2>3. /\ settling' = (settling /\ state' = "Arming")
        /\ idling' \in BOOLEAN /\ (idling' => pending' # None)
    BY <2>1, Zenon DEF IInv, TypeOK, Settle
  <2> QED BY <1>0, <2>1, <2>2, <2>3, ApplyStep
<1> QED BY <1>1, <1>2

\* SetApiPort.
LEMMA SetApiPortStep ==
  ASSUME IInv, NEW c \in Config, SetApiPort(c)
  PROVE  IInv'
<1> USE DEF SetApiPort, uiVars, waiterVars, guardVars
<1>1. TypeOK'
  BY KillSwitchAssumption DEF IInv, TypeOK, HolderInv, Proc, State, Failure, Code
<1>2. OutputInv'
  BY KillSwitchAssumption DEF IInv, TypeOK, OutputInv, Proc
<1>3. HolderInv'
  BY KillSwitchAssumption DEF IInv, TypeOK, OutputInv, HolderInv, StateInv, NoOrphanGuard, Proc,
       Alive
<1>4. StateInv'
  BY KillSwitchAssumption DEF IInv, TypeOK, HolderInv, StateInv, State
<1>5. WaitInv'
  BY KillSwitchAssumption DEF IInv, TypeOK, HolderInv, StateInv, WaitInv
<1>6. StaleInv'
  BY KillSwitchAssumption DEF IInv, TypeOK, HolderInv, StateInv, StaleInv, StaleConfigIsRetried
<1> QED BY <1>1, <1>2, <1>3, <1>4, <1>5, <1>6 DEF IInv

\* whenSettled.
LEMMA WhenSettledStep ==
  ASSUME IInv, WhenSettled
  PROVE  IInv'
<1> USE DEF WhenSettled, settingVars, uiVars, timerVars, guardVars
<1>1. TypeOK'
  BY KillSwitchAssumption DEF IInv, TypeOK, HolderInv, Proc, State, Failure, Code
<1>2. OutputInv'
  BY KillSwitchAssumption DEF IInv, TypeOK, OutputInv, Proc
<1>3. HolderInv'
  BY KillSwitchAssumption DEF IInv, TypeOK, OutputInv, HolderInv, StateInv, NoOrphanGuard, Proc,
       Alive
<1>4. StateInv'
  BY KillSwitchAssumption DEF IInv, TypeOK, HolderInv, StateInv, State
<1>5. WaitInv'
  BY KillSwitchAssumption DEF IInv, TypeOK, HolderInv, StateInv, WaitInv
<1>6. StaleInv'
  BY KillSwitchAssumption DEF IInv, TypeOK, HolderInv, StateInv, StaleInv, StaleConfigIsRetried
<1> QED BY <1>1, <1>2, <1>3, <1>4, <1>5, <1>6 DEF IInv

\* The respawn window runs out.
LEMMA RespawnExpiresStep ==
  ASSUME IInv, RespawnExpires
  PROVE  IInv'
<1> USE DEF RespawnExpires, settingVars, uiVars, waiterVars, guardVars
<1>1. TypeOK'
  BY KillSwitchAssumption DEF IInv, TypeOK, HolderInv, Proc, State, Failure, Code
<1>2. OutputInv'
  BY KillSwitchAssumption DEF IInv, TypeOK, OutputInv, Proc
<1>3. HolderInv'
  BY KillSwitchAssumption DEF IInv, TypeOK, OutputInv, HolderInv, StateInv, NoOrphanGuard, Proc,
       Alive
<1>4. StateInv'
  BY KillSwitchAssumption DEF IInv, TypeOK, HolderInv, StateInv, State
<1>5. WaitInv'
  BY KillSwitchAssumption DEF IInv, TypeOK, HolderInv, StateInv, WaitInv
<1>6. StaleInv'
  BY KillSwitchAssumption DEF IInv, TypeOK, HolderInv, StateInv, StaleInv, StaleConfigIsRetried
<1> QED BY <1>1, <1>2, <1>3, <1>4, <1>5, <1>6 DEF IInv

\* prepare_exit.
LEMMA PrepareExitStep ==
  ASSUME IInv, PrepareExit
  PROVE  IInv'
<1> USE DEF PrepareExit, uiVars, timerVars, waiterVars, guardVars
<1>1. TypeOK'
  BY KillSwitchAssumption DEF IInv, TypeOK, HolderInv, Proc, State, Failure, Code
<1>2. OutputInv'
  BY KillSwitchAssumption DEF IInv, TypeOK, OutputInv, Proc
<1>3. HolderInv'
  BY KillSwitchAssumption DEF IInv, TypeOK, OutputInv, HolderInv, StateInv, NoOrphanGuard, Proc,
       Alive
<1>4. StateInv'
  BY KillSwitchAssumption DEF IInv, TypeOK, HolderInv, StateInv, State
<1>5. WaitInv'
  BY KillSwitchAssumption DEF IInv, TypeOK, HolderInv, StateInv, WaitInv
<1>6. StaleInv'
  BY KillSwitchAssumption DEF IInv, TypeOK, HolderInv, StateInv, StaleInv, StaleConfigIsRetried
<1> QED BY <1>1, <1>2, <1>3, <1>4, <1>5, <1>6 DEF IInv

\* shutdown.
LEMMA ShutdownStep ==
  ASSUME IInv, Shutdown
  PROVE  IInv'
<1> USE DEF Shutdown, Keep, settingVars, timerVars
<1>1. TypeOK'
  <2>1. proc' \in [Guard -> Proc]
    BY KillSwitchAssumption DEF IInv, TypeOK, Proc
  <2>2. readyLine' \in [Guard -> BOOLEAN]
    BY Zenon DEF IInv, TypeOK
  <2>3. errorLine' \in [Guard -> Code \cup {"none"}]
    BY Zenon DEF IInv, TypeOK
  <2>4. closing' \in [Guard -> BOOLEAN]
    BY Zenon DEF IInv, TypeOK
  <2>5. gcfg' \in [Guard -> Config \cup {None}]
    BY DEF IInv, TypeOK
  <2>6. state' \in State /\ failure' \in Failure
    BY Zenon DEF IInv, TypeOK
  <2> QED BY <2>1, <2>2, <2>3, <2>4, <2>5, <2>6 DEF IInv, TypeOK
<1>2. OutputInv'
  BY KillSwitchAssumption DEF IInv, TypeOK, OutputInv, Proc
<1>3. HolderInv'
  BY KillSwitchAssumption DEF IInv, TypeOK, OutputInv, HolderInv, StateInv, NoOrphanGuard, Proc,
       Alive
<1>4. StateInv'
  BY KillSwitchAssumption DEF IInv, TypeOK, HolderInv, StateInv, State
<1>5. WaitInv'
  BY KillSwitchAssumption DEF IInv, TypeOK, HolderInv, StateInv, WaitInv
<1>6. StaleInv'
  BY KillSwitchAssumption DEF IInv, TypeOK, HolderInv, StateInv, StaleInv, StaleConfigIsRetried
<1> QED BY <1>1, <1>2, <1>3, <1>4, <1>5, <1>6 DEF IInv

\* QProcess::started.
LEMMA OnStartedStep ==
  ASSUME IInv, NEW g \in Guard, OnStarted(g)
  PROVE  IInv'
<1> USE DEF OnStarted, settingVars, uiVars, timerVars, waiterVars
<1>1. TypeOK'
  BY KillSwitchAssumption DEF IInv, TypeOK, HolderInv, Proc, State, Failure, Code
<1>2. OutputInv'
  BY KillSwitchAssumption DEF IInv, TypeOK, OutputInv, Proc
<1>3. HolderInv'
  BY KillSwitchAssumption DEF IInv, TypeOK, OutputInv, HolderInv, StateInv, NoOrphanGuard, Proc,
       Alive
<1>4. StateInv'
  BY KillSwitchAssumption DEF IInv, TypeOK, HolderInv, StateInv, State
<1>5. WaitInv'
  BY KillSwitchAssumption DEF IInv, TypeOK, HolderInv, StateInv, WaitInv
<1>6. StaleInv'
  BY KillSwitchAssumption DEF IInv, TypeOK, HolderInv, StateInv, StaleInv, StaleConfigIsRetried
<1> QED BY <1>1, <1>2, <1>3, <1>4, <1>5, <1>6 DEF IInv

\* A guard nobody holds is reaped.
LEMMA FreedStep ==
  ASSUME IInv, NEW g \in Guard, g \notin {active, pending},
         proc[g] \in {"starting", "exited"}, ~readyLine[g], errorLine[g] = "none",
         Keep([proc EXCEPT ![g] = "free"], {}),
         UNCHANGED <<settingVars, uiVars, shutdown, timerVars, waiterVars, refused>>,
         UNCHANGED <<readyLine, errorLine>>
  PROVE  IInv'
<1> USE DEF Keep, settingVars, uiVars, timerVars, waiterVars
<1>1. TypeOK'
  BY KillSwitchAssumption DEF IInv, TypeOK, HolderInv, Proc, State, Failure, Code
<1>2. OutputInv'
  BY KillSwitchAssumption DEF IInv, TypeOK, OutputInv, Proc
<1>3. HolderInv'
  BY KillSwitchAssumption DEF IInv, TypeOK, OutputInv, HolderInv, StateInv, NoOrphanGuard, Proc,
       Alive
<1>4. StateInv'
  BY KillSwitchAssumption DEF IInv, TypeOK, HolderInv, StateInv, State
<1>5. WaitInv'
  BY KillSwitchAssumption DEF IInv, TypeOK, HolderInv, StateInv, WaitInv
<1>6. StaleInv'
  BY KillSwitchAssumption DEF IInv, TypeOK, HolderInv, StateInv, StaleInv, StaleConfigIsRetried
<1> QED BY <1>1, <1>2, <1>3, <1>4, <1>5, <1>6 DEF IInv

\* onStartFailed.
LEMMA OnStartFailedStep ==
  ASSUME IInv, NEW g \in Guard, OnStartFailed(g)
  PROVE  IInv'
<1>1. /\ [proc EXCEPT ![g] = "free"] \in [Guard -> Proc] /\ proc[g] = "starting" /\ ~readyLine[g]
      /\ errorLine[g] = "none"
      /\ readyLine' \in [Guard -> BOOLEAN] /\ errorLine' \in [Guard -> Code \cup {"none"}]
      /\ UNCHANGED <<readyLine, errorLine>>
  BY DEF OnStartFailed, IInv, TypeOK, OutputInv, Proc
<1>2. CASE g = pending
  <2>1. ArmFailed("transient", [proc EXCEPT ![g] = "free"], {})
    BY <1>2, Zenon DEF OnStartFailed
  <2>2. /\ "transient" \in Code /\ pending # None
        /\ \A h \in Guard : h # pending => [proc EXCEPT ![g] = "free"][h] = proc[h]
        /\ ~([proc EXCEPT ![g] = "free"][pending] \in Alive)
        /\ \A h \in Guard : readyLine'[h] => [proc EXCEPT ![g] = "free"][h] \in {"armed", "exited"}
        /\ \A h \in Guard : errorLine'[h] # "none" =>
             [proc EXCEPT ![g] = "free"][h] = "exited" /\ proc[h] # "free"
    BY <1>1, <1>2, KillSwitchAssumption DEF Code, IInv, TypeOK, OutputInv, Alive
  <2> QED BY <1>1, <2>1, <2>2, ArmFailedStep
<1>3. CASE g # pending
  <2>1. Keep([proc EXCEPT ![g] = "free"], {})
        /\ UNCHANGED <<settingVars, uiVars, shutdown, timerVars, waiterVars, refused>>
    BY <1>3, Zenon DEF OnStartFailed
  <2>2. g # active
    BY <1>1, KillSwitchAssumption DEF IInv, HolderInv
  <2> QED BY <1>1, <1>3, <2>1, <2>2, FreedStep
<1> QED BY <1>2, <1>3

\* onReady for the pending guard.
LEMMA OnReadyStep ==
  ASSUME IInv, NEW g \in Guard, readyLine[g], g = pending,
         readyLine' = [readyLine EXCEPT ![g] = FALSE], active' = g, pending' = None,
         Keep(proc, {active}), Settle,
         \/ identity /\ state' = "Failed" /\ failure' = "identity"
         \/ ~identity /\ state' = "Armed" /\ failure' = "none",
         UNCHANGED <<settingVars, shutdown, timerVars, errorLine, refused>>
  PROVE  IInv'
<1> USE DEF Keep, Settle, settingVars, timerVars
<1>1. TypeOK'
  BY KillSwitchAssumption DEF IInv, TypeOK, HolderInv, Proc, State, Failure, Code
<1>2. OutputInv'
  BY KillSwitchAssumption DEF IInv, TypeOK, OutputInv, Proc
<1>3. HolderInv'
  BY KillSwitchAssumption DEF IInv, TypeOK, OutputInv, HolderInv, StateInv, NoOrphanGuard, Proc,
       Alive
<1>4. StateInv'
  BY KillSwitchAssumption DEF IInv, TypeOK, HolderInv, StateInv, State
<1>5. WaitInv'
  BY KillSwitchAssumption DEF IInv, TypeOK, HolderInv, StateInv, WaitInv
<1>6. StaleInv'
  BY KillSwitchAssumption DEF IInv, TypeOK, HolderInv, StateInv, StaleInv, StaleConfigIsRetried
<1> QED BY <1>1, <1>2, <1>3, <1>4, <1>5, <1>6 DEF IInv

\* onReady for another guard.
LEMMA OnReadyIgnoredStep ==
  ASSUME IInv, NEW g \in Guard, readyLine[g],
         readyLine' = [readyLine EXCEPT ![g] = FALSE],
         UNCHANGED <<uiVars, waiterVars, proc, gcfg, closing>>,
         UNCHANGED <<settingVars, shutdown, timerVars, errorLine, refused>>
  PROVE  IInv'
<1> USE DEF settingVars, uiVars, timerVars, waiterVars
<1>1. TypeOK'
  BY KillSwitchAssumption DEF IInv, TypeOK, HolderInv, Proc, State, Failure, Code
<1>2. OutputInv'
  BY KillSwitchAssumption DEF IInv, TypeOK, OutputInv, Proc
<1>3. HolderInv'
  BY KillSwitchAssumption DEF IInv, TypeOK, OutputInv, HolderInv, StateInv, NoOrphanGuard, Proc,
       Alive
<1>4. StateInv'
  BY KillSwitchAssumption DEF IInv, TypeOK, HolderInv, StateInv, State
<1>5. WaitInv'
  BY KillSwitchAssumption DEF IInv, TypeOK, HolderInv, StateInv, WaitInv
<1>6. StaleInv'
  BY KillSwitchAssumption DEF IInv, TypeOK, HolderInv, StateInv, StaleInv, StaleConfigIsRetried
<1> QED BY <1>1, <1>2, <1>3, <1>4, <1>5, <1>6 DEF IInv

\* onReady.
LEMMA OnReadyAnyStep ==
  ASSUME IInv, NEW g \in Guard, OnReady(g)
  PROVE  IInv'
<1>1. CASE g = pending
  <2>1. /\ readyLine[g] /\ readyLine' = [readyLine EXCEPT ![g] = FALSE]
        /\ active' = g /\ pending' = None /\ Keep(proc, {active})
        /\ UNCHANGED <<settingVars, shutdown, timerVars, errorLine, refused>>
    BY <1>1, Zenon DEF OnReady
  <2>2. Settle
    BY <1>1, Zenon DEF OnReady, Fail
  <2>3. \/ identity /\ state' = "Failed" /\ failure' = "identity"
        \/ ~identity /\ state' = "Armed" /\ failure' = "none"
    BY <1>1, Zenon DEF OnReady, Fail, SetState
  <2> QED BY <1>1, <2>1, <2>2, <2>3, OnReadyStep, Zenon
<1>2. CASE g # pending
  BY <1>2, OnReadyIgnoredStep, Zenon DEF OnReady
<1> QED BY <1>1, <1>2

\* handleLine for ERROR and FAIL.
LEMMA OnErrorStep ==
  ASSUME IInv, NEW g \in Guard, OnError(g)
  PROVE  IInv'
<1>1. /\ proc \in [Guard -> Proc] /\ errorLine[g] \in Code /\ UNCHANGED readyLine
      /\ readyLine' \in [Guard -> BOOLEAN] /\ errorLine' \in [Guard -> Code \cup {"none"}]
      /\ \A h \in Guard : errorLine'[h] # "none" => proc[h] = "exited" /\ proc[h] # "free"
      /\ \A h \in Guard : readyLine'[h] => proc[h] \in {"armed", "exited"}
      /\ g # None
  BY KillSwitchAssumption DEF OnError, IInv, TypeOK, OutputInv
<1>2. CASE g = active /\ ProtectionLost(errorLine[g], proc, {g})
  BY <1>1, <1>2, ProtectionLostStep
<1>3. CASE g = pending /\ ArmFailed(errorLine[g], proc, {g})
  BY <1>1, <1>3, ArmFailedStep
<1>4. CASE /\ g \notin {active, pending}
           /\ UNCHANGED <<settingVars, uiVars, shutdown, timerVars, waiterVars, proc, gcfg,
                          closing, refused>>
  <2>1. TypeOK'
    BY <1>1, <1>4 DEF IInv, TypeOK, settingVars, uiVars, timerVars, waiterVars
  <2>2. OutputInv' /\ HolderInv' /\ StateInv' /\ WaitInv' /\ StaleInv'
    BY <1>1, <1>4 DEF IInv, OutputInv, HolderInv, NoOrphanGuard, StateInv, WaitInv, StaleInv,
       StaleConfigIsRetried, settingVars, uiVars, timerVars, waiterVars
  <2> QED BY <2>1, <2>2 DEF IInv
<1> QED BY <1>2, <1>3, <1>4, Zenon DEF OnError

\* onFinished.
LEMMA OnFinishedStep ==
  ASSUME IInv, NEW g \in Guard, OnFinished(g)
  PROVE  IInv'
<1> DEFINE procs == [proc EXCEPT ![g] = "free"]
<1>1. /\ procs \in [Guard -> Proc] /\ proc[g] = "exited" /\ ~readyLine[g]
      /\ UNCHANGED <<readyLine, errorLine>> /\ "transient" \in Code /\ g # None
      /\ readyLine' \in [Guard -> BOOLEAN] /\ errorLine' \in [Guard -> Code \cup {"none"}]
      /\ ~(procs[g] \in Alive) /\ errorLine[g] = "none"
      /\ \A h \in Guard : errorLine'[h] # "none" => procs[h] = "exited" /\ proc[h] # "free"
      /\ \A h \in Guard : h # g => procs[h] = proc[h]
      /\ \A h \in Guard : readyLine'[h] => procs[h] \in {"armed", "exited"} /\ proc[h] # "free"
  BY KillSwitchAssumption DEF OnFinished, IInv, TypeOK, OutputInv, Proc, Code, Alive
<1>2. CASE g = active /\ ProtectionLost("transient", procs, {})
  <2> HIDE DEF procs
  <2> QED BY <1>1, <1>2, ProtectionLostStep
<1>3. CASE g = pending /\ ArmFailed("transient", procs, {})
  <2> HIDE DEF procs
  <2> QED BY <1>1, <1>3, ArmFailedStep
<1>4. CASE /\ g \notin {active, pending} /\ Keep(procs, {})
           /\ UNCHANGED <<settingVars, uiVars, shutdown, timerVars, waiterVars, refused>>
  BY <1>1, <1>4, FreedStep
<1> QED BY <1>2, <1>3, <1>4, Zenon DEF OnFinished

\* onReadyTimeout.
LEMMA OnReadyTimeoutStep ==
  ASSUME IInv, NEW g \in Guard, OnReadyTimeout(g)
  PROVE  IInv'
<1> DEFINE procs == [proc EXCEPT ![g] = "exited"]
<1>1. /\ procs \in [Guard -> Proc] /\ g = pending /\ "transient" \in Code /\ g # None
      /\ UNCHANGED <<readyLine, errorLine>>
      /\ readyLine' \in [Guard -> BOOLEAN] /\ errorLine' \in [Guard -> Code \cup {"none"}]
      /\ \A h \in Guard : h # g => procs[h] = proc[h]
      /\ \A h \in Guard : errorLine'[h] # "none" => procs[h] = "exited" /\ proc[h] # "free"
      /\ \A h \in Guard : readyLine'[h] => procs[h] \in {"armed", "exited"}
  BY KillSwitchAssumption DEF OnReadyTimeout, IInv, TypeOK, OutputInv, HolderInv, Proc, Code
<1>2. ArmFailed("transient", procs, {g})
  BY Zenon DEF OnReadyTimeout
<1> HIDE DEF procs
<1> QED BY <1>1, <1>2, ArmFailedStep

\* A step of a guard process: it arms once it has its config, or exits.
LEMMA ProcessStep ==
  ASSUME IInv, NEW g \in Guard, NEW p \in {"armed", "exited"}, NEW line \in Code \cup {"none"},
         proc[g] \in Alive, p = "armed" => proc[g] = "configured" /\ line = "none",
         Process(g, p, line),
         \/ readyLine' = readyLine
         \/ p = "armed" /\ readyLine' = [readyLine EXCEPT ![g] = TRUE]
  PROVE  IInv'
<1> USE DEF Process, Alive, settingVars, uiVars, timerVars, waiterVars
<1>1. TypeOK'
  <2>1. readyLine' \in [Guard -> BOOLEAN]
    BY Zenon DEF IInv, TypeOK
  <2>2. proc' \in [Guard -> Proc] /\ errorLine' \in [Guard -> Code \cup {"none"}]
    BY DEF IInv, TypeOK, Proc
  <2> QED BY <2>1, <2>2 DEF IInv, TypeOK
<1>2. OutputInv'
  BY KillSwitchAssumption DEF IInv, TypeOK, OutputInv, Proc
<1>3. HolderInv'
  BY KillSwitchAssumption DEF IInv, TypeOK, OutputInv, HolderInv, StateInv, NoOrphanGuard, Proc,
       Alive
<1>4. StateInv'
  BY KillSwitchAssumption DEF IInv, TypeOK, HolderInv, StateInv, State
<1>5. WaitInv'
  BY KillSwitchAssumption DEF IInv, TypeOK, HolderInv, StateInv, WaitInv
<1>6. StaleInv'
  BY KillSwitchAssumption DEF IInv, TypeOK, HolderInv, StateInv, StaleInv, StaleConfigIsRetried
<1> QED BY <1>1, <1>2, <1>3, <1>4, <1>5, <1>6 DEF IInv

\* Every step of the guards.
LEMMA GuardIInv ==
  ASSUME IInv, NEW g \in Guard, GuardStep(g)
  PROVE  IInv'
<1>1. CASE GuardNoConfig(g)
  <2>1. proc[g] \in Alive /\ Process(g, "exited", "persistent") /\ UNCHANGED readyLine
    BY <1>1 DEF GuardNoConfig, Alive
  <2> QED BY <2>1, ProcessStep DEF Code
<1>2. CASE GuardArm(g)
  BY <1>2, ProcessStep DEF GuardArm, Code, Alive
<1>3. CASE GuardQuit(g)
  <2>1. proc[g] \in Alive /\ Process(g, "exited", "none") /\ UNCHANGED readyLine
    BY <1>3 DEF GuardQuit, Alive
  <2> QED BY <2>1, ProcessStep DEF Code
<1>4. CASE GuardDie(g)
  <2>1. proc[g] \in Alive /\ Process(g, "exited", "none") /\ UNCHANGED readyLine
    BY <1>4 DEF GuardDie, Alive
  <2> QED BY <2>1, ProcessStep DEF Code
<1>5. ASSUME NEW code \in Code, GuardArmError(g, code) \/ GuardFatal(g, code)
      PROVE  IInv'
  <2>1. proc[g] \in Alive /\ Process(g, "exited", code) /\ UNCHANGED readyLine
    BY <1>5 DEF GuardArmError, GuardFatal, Alive
  <2> QED BY <2>1, ProcessStep
<1> QED BY <1>1, <1>2, <1>3, <1>4, <1>5, Zenon DEF GuardStep

\* A step that changes nothing.
LEMMA StutterIInv == IInv /\ UNCHANGED vars => IInv'
<1> SUFFICES ASSUME IInv, UNCHANGED vars PROVE IInv' OBVIOUS
<1> USE DEF vars, settingVars, uiVars, timerVars, waiterVars, guardVars
<1>1. TypeOK' BY DEF IInv, TypeOK
<1>2. OutputInv' /\ HolderInv' BY DEF IInv, OutputInv, HolderInv, NoOrphanGuard
<1>3. StateInv' /\ WaitInv' BY DEF IInv, StateInv, WaitInv
<1>4. StaleInv' BY DEF IInv, StaleInv, StaleConfigIsRetried
<1> QED BY <1>1, <1>2, <1>3, <1>4 DEF IInv

\* Every step keeps the invariant.
LEMMA NextIInv == IInv /\ [Next]_vars => IInv'
<1> SUFFICES ASSUME IInv, [Next]_vars PROVE IInv' OBVIOUS
<1>1. ASSUME NEW on \in BOOLEAN, SetKillSwitch(on) PROVE IInv'
  BY <1>1, SetKillSwitchStep
<1>2. ASSUME NEW c \in Config, Reconfigure(c) \/ PermitExtraCore(c) \/ SetApiPort(c) PROVE IInv'
  BY <1>2, ReconfigureStep, PermitExtraCoreStep, SetApiPortStep
<1>3. CASE NoteIdentityUnsupported \/ OnPortChanged \/ WhenSettled
  BY <1>3, NoteIdentityUnsupportedStep, OnPortChangedStep, WhenSettledStep
<1>4. CASE RetryFires \/ RespawnExpires
  BY <1>4, RetryFiresStep, RespawnExpiresStep
<1>5. CASE PrepareExit \/ Shutdown
  BY <1>5, PrepareExitStep, ShutdownStep
<1>6. ASSUME NEW g \in Guard, Slots(g) PROVE IInv'
  BY <1>6, OnStartedStep, OnStartFailedStep, OnReadyAnyStep, OnErrorStep, OnFinishedStep
     DEF Slots
<1>7. ASSUME NEW g \in Guard, OnReadyTimeout(g) PROVE IInv'
  BY <1>7, OnReadyTimeoutStep
<1>8. ASSUME NEW g \in Guard, GuardStep(g) PROVE IInv'
  BY <1>8, GuardIInv
<1>9. CASE Done \/ UNCHANGED vars
  BY <1>9, StutterIInv DEF Done
<1> QED BY <1>1, <1>2, <1>3, <1>4, <1>5, <1>6, <1>7, <1>8, <1>9, Zenon DEF Next

\* The inductive invariant holds in every behaviour.
LEMMA Invariant == Spec => []IInv
<1>1. Init => IInv BY InitIInv
<1>2. IInv /\ [Next]_vars => IInv' BY NextIInv
<1> QED BY <1>1, <1>2, PTL DEF Spec

-----------------------------------------------------------------------------
\* KillSwitch's fields and the guard processes keep their types, and active_ and pending_
\* are never the same guard.
THEOREM TypeCorrect == Spec => []TypeOK
<1>1. IInv => TypeOK BY DEF IInv
<1> QED BY <1>1, Invariant, PTL

\* Armed is reported only while the active guard armed and was not told to quit.
THEOREM ArmedIsGuarded == Spec => []ArmedMeansGuarded
<1>1. IInv => ArmedMeansGuarded
  BY DEF IInv, StateInv, HolderInv, ArmedMeansGuarded
<1> QED BY <1>1, Invariant, PTL

\* With kill_switch on, allowsStart lets a profile start only under an armed switch.
THEOREM FailsClosed == Spec => []StartsFailClosed
<1>1. IInv => StartsFailClosed
  BY DEF IInv, StateInv, StartsFailClosed, AllowsStart
<1> QED BY <1>1, Invariant, PTL

\* No guard process outlives what the switch remembers of it without being told to quit.
THEOREM NoOrphan == Spec => []NoOrphanGuard
<1>1. IInv => NoOrphanGuard BY DEF IInv, HolderInv
<1> QED BY <1>1, Invariant, PTL

\* A waiter of whenSettled or whenIdle has a pending guard to wait for.
THEOREM NoLostWakeup == Spec => []WaitersHaveAGuard
<1>1. IInv => WaitersHaveAGuard
  BY DEF IInv, StateInv, WaitInv, WaitersHaveAGuard
<1> QED BY <1>1, Invariant, PTL

\* An armed switch with old settings has a retry or a port change to come, or a refusal.
THEOREM StaleIsRetried == Spec => []StaleConfigIsRetried
<1>1. IInv => StaleConfigIsRetried BY DEF IInv, StaleInv
<1> QED BY <1>1, Invariant, PTL

-----------------------------------------------------------------------------
\* What NoGapAtHandover says of one step.
NoGap ==
  \A g \in Guard :
    g = active /\ proc[g] = "armed" /\ ~closing[g] /\ closing'[g] =>
      \/ ~enabled' \/ overridden \/ shutdown'
      \/ active' # None /\ ~closing'[active'] /\ proc'[active'] \in {"armed", "exited"}

\* apply closes the active guard only when the switch is off or overridden.
LEMMA ApplyNoGap ==
  ASSUME IInv, NEW ident \in BOOLEAN, Apply(ident), config' \in Config
  PROVE  NoGap
<1> USE KillSwitchAssumption DEF NoGap
<1>1. CASE ~enabled' \/ overridden
  BY <1>1
<1>2. CASE Serves(pending) /\ UNCHANGED <<active, pending, proc, gcfg, closing, refused>>
  BY <1>2
<1>3. CASE active' = active /\ Keep(proc, {pending})
  BY <1>3 DEF Keep, IInv, TypeOK
<1>4. CASE Spawn(active, proc, {pending})
  <2>1. /\ active' = active
        /\ closing' = [h \in Guard |-> proc[h] # "free" /\ (closing[h] \/ h \in {pending})]
    BY <1>4, SpawnFacts DEF IInv, TypeOK
  <2> QED BY <2>1 DEF IInv, TypeOK
<1> QED BY <1>1, <1>2, <1>3, <1>4, Zenon DEF Apply, ApplyOn

\* armFailed closes only the pending guard.
LEMMA ArmFailedNoGap ==
  ASSUME IInv, NEW code, NEW procs, NEW shut, shut = {} \/ shut = {pending},
         ArmFailed(code, procs, shut)
  PROVE  NoGap
<1>1. Keep(procs, shut)
  BY Zenon DEF ArmFailed
<1> QED BY <1>1, KillSwitchAssumption DEF Keep, NoGap, IInv, TypeOK

\* A step of Next that closes the active guard is apply, armFailed, shutdown, or leaves it be.
LEMMA NextNoGap == IInv /\ [Next]_vars => NoGap
<1> SUFFICES ASSUME IInv, [Next]_vars PROVE NoGap OBVIOUS
<1> USE KillSwitchAssumption
<1>1. ASSUME NEW on \in BOOLEAN, SetKillSwitch(on) PROVE NoGap
  BY <1>1, ApplyNoGap DEF SetKillSwitch, IInv, TypeOK
<1>2. ASSUME NEW c \in Config, Reconfigure(c) \/ PermitExtraCore(c) PROVE NoGap
  BY <1>2, ApplyNoGap DEF Reconfigure, PermitExtraCore, IInv, TypeOK
<1>3. ASSUME NEW c \in Config, SetApiPort(c) PROVE NoGap
  BY <1>3 DEF SetApiPort, guardVars, NoGap
<1>4. CASE NoteIdentityUnsupported
  BY <1>4, ApplyNoGap DEF NoteIdentityUnsupported, IInv, TypeOK
<1>5. CASE OnPortChanged \/ RetryFires
  <2>1. CASE UNCHANGED guardVars
    BY <2>1 DEF guardVars, NoGap
  <2>2. CASE Apply(identity) /\ config' = config
    BY <2>2, ApplyNoGap DEF IInv, TypeOK
  <2> QED BY <1>5, <2>1, <2>2, Zenon DEF OnPortChanged, RetryFires
<1>6. CASE WhenSettled \/ RespawnExpires \/ PrepareExit
  BY <1>6 DEF WhenSettled, RespawnExpires, PrepareExit, guardVars, NoGap
<1>7. CASE Shutdown
  BY <1>7 DEF Shutdown, NoGap
<1>8. ASSUME NEW g \in Guard, OnStarted(g) PROVE NoGap
  BY <1>8 DEF OnStarted, NoGap
<1>9. ASSUME NEW g \in Guard, OnStartFailed(g) PROVE NoGap
  <2>1. CASE g = pending
    BY <1>9, <2>1, ArmFailedNoGap DEF OnStartFailed
  <2>2. CASE g # pending
    BY <1>9, <2>2 DEF OnStartFailed, Keep, NoGap, IInv, TypeOK
  <2> QED BY <2>1, <2>2
<1>10. ASSUME NEW g \in Guard, OnReady(g) PROVE NoGap
  <2>1. CASE g = pending
    <3>1. active' = g /\ Keep(proc, {active}) /\ readyLine[g]
      BY <1>10, <2>1, Zenon DEF OnReady
    <3>2. g # active /\ ~closing[g] /\ proc[g] \in {"armed", "exited"}
      BY <1>10, <2>1, <3>1 DEF IInv, TypeOK, OutputInv, HolderInv
    <3> QED BY <3>1, <3>2 DEF Keep, NoGap
  <2>2. CASE g # pending
    BY <1>10, <2>2 DEF OnReady, NoGap
  <2> QED BY <2>1, <2>2
<1>11. ASSUME NEW g \in Guard, OnError(g) PROVE NoGap
  <2>1. proc[g] = "exited"
    BY <1>11 DEF OnError, IInv, OutputInv
  <2>2. CASE g = active
    BY <2>1, <2>2 DEF NoGap
  <2>3. CASE g = pending /\ ArmFailed(errorLine[g], proc, {g})
    BY <2>3, ArmFailedNoGap
  <2>4. CASE UNCHANGED closing
    BY <2>4 DEF NoGap
  <2> QED BY <1>11, <2>2, <2>3, <2>4 DEF OnError
<1>12. ASSUME NEW g \in Guard, OnFinished(g) PROVE NoGap
  <2>1. proc[g] = "exited"
    BY <1>12 DEF OnFinished
  <2>2. CASE g = active
    BY <2>1, <2>2 DEF NoGap
  <2>3. CASE g = pending /\ ArmFailed("transient", [proc EXCEPT ![g] = "free"], {})
    BY <2>3, ArmFailedNoGap
  <2>4. CASE Keep([proc EXCEPT ![g] = "free"], {})
    BY <2>4 DEF Keep, NoGap, IInv, TypeOK
  <2> QED BY <1>12, <2>2, <2>3, <2>4 DEF OnFinished
<1>13. ASSUME NEW g \in Guard, OnReadyTimeout(g) PROVE NoGap
  BY <1>13, ArmFailedNoGap DEF OnReadyTimeout
<1>14. ASSUME NEW g \in Guard, GuardStep(g) PROVE NoGap
  BY <1>14 DEF GuardStep, GuardNoConfig, GuardArm, GuardQuit, GuardDie, GuardArmError,
     GuardFatal, Process, NoGap
<1>15. CASE Done \/ UNCHANGED vars
  BY <1>15 DEF Done, vars, guardVars, NoGap
<1> QED BY <1>1, <1>2, <1>3, <1>4, <1>5, <1>6, <1>7, <1>8, <1>9, <1>10, <1>11, <1>12, <1>13,
           <1>14, <1>15, Zenon DEF Next, Slots

\* No gap at a hand-over: the old guard is told to quit only after its successor has armed.
THEOREM HandoverHasNoGap == Spec => NoGapAtHandover
<1>1. IInv /\ [Next]_vars => NoGap BY NextNoGap
<1>2. NoGapAtHandover <=> [][NoGap]_vars BY PTL DEF NoGapAtHandover, NoGap
<1> QED BY <1>1, <1>2, Invariant, PTL DEF Spec

=============================================================================
