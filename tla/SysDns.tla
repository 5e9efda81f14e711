------------------------------- MODULE SysDns -------------------------------
(***************************************************************************)
(* The system resolver on macOS: core/internal/sysdns/sysdns_darwin.go.    *)
(* While a Tun runs, the core points the DNS servers of the default        *)
(* network service at its own listener on a loopback alias.  What it       *)
(* changes outlives it, so every change is recorded in a file first; the   *)
(* next core, or `--restore-dns`, replays the record of a dead one.        *)
(*                                                                         *)
(* mu is held over each exported function, so a core has one operation in  *)
(* progress; a core may die between any two of its steps.  The record is   *)
(* replaced by a rename under a file lock: each access to it is one step,  *)
(* and so is restoreStaleLocked, which holds the lock throughout.          *)
(***************************************************************************)
EXTENDS Naturals

CONSTANTS Core,      \* core processes; each runs once
          Service,   \* network services
          Overlap,   \* a core may start while another one still lives
          None

VARIABLES
  user,      \* the DNS servers the user has set for each service
  dns,       \* the DNS servers in force
  alias,     \* Address is on lo0
  ours,      \* history: a core put it there, and none has given up on removing it
  deflt,     \* the service of the default interface
  file,      \* the record in stateFile
  up,        \* the life of each core
  prepared,  \* owned.PID # 0
  hasAlias,  \* owned.Alias
  saved,     \* owned.Services, None for a service that is not in it
  current,   \* current
  phase,     \* where rpc.Start and rpc.Stop are with it
  pc,        \* the next step of the operation that holds mu
  target,    \* the service followLocked goes to
  todo,      \* the services Release has not come to yet
  due,       \* a follow goroutine of the current generation is waiting
  late,      \* one of an older generation is
  trouble    \* history: an earlier command of the core failed

sysVars  == <<user, dns, alias, ours, deflt, file>>
ownVars  == <<prepared, hasAlias, saved, current, target, todo>>
runVars  == <<up, phase, pc, due, late, trouble>>
vars == <<sysVars, ownVars, runVars>>

\* The user's choice: servers of their own, or those of the network.
Choice  == {"manual", "empty"}
Servers == Choice \cup {"address"}
Saved   == [Service -> Servers \cup {None}]
Record  == [pid : Core, alias : BOOLEAN, dns : Saved]
Nothing == [s \in Service |-> None]

ASSUME SysDnsAssumption ==
  /\ None \notin Core /\ None \notin Service /\ None \notin Servers /\ None \notin Record
  /\ Overlap \in BOOLEAN

Phase == {"off", "preparing", "prepared", "applying", "on"}
Pc == {"idle", "save", "alias", "record", "point", "unpoint", "resave", "release",
       "released", "finish"}

TypeOK ==
  /\ user \in [Service -> Choice]
  /\ dns \in [Service -> Servers]
  /\ alias \in BOOLEAN /\ ours \in BOOLEAN
  /\ deflt \in Service \cup {None}
  /\ file \in Record \cup {None}
  /\ up \in [Core -> {"unborn", "alive", "dead"}]
  /\ prepared \in [Core -> BOOLEAN]
  /\ hasAlias \in [Core -> BOOLEAN]
  /\ saved \in [Core -> Saved]
  /\ current \in [Core -> Service \cup {None}]
  /\ phase \in [Core -> Phase]
  /\ pc \in [Core -> Pc]
  /\ target \in [Core -> Service \cup {None}]
  /\ todo \in [Core -> SUBSET Service]
  /\ due \in [Core -> BOOLEAN]
  /\ late \in [Core -> BOOLEAN]
  /\ trouble \in [Core -> BOOLEAN]

\* Nothing of a core is left in the system; an alias of somebody else may be there.
Init ==
  /\ user \in [Service -> Choice]
  /\ dns = user
  /\ alias \in BOOLEAN /\ ours = FALSE
  /\ deflt \in Service \cup {None}
  /\ file = None
  /\ up = [c \in Core |-> "unborn"]
  /\ prepared = [c \in Core |-> FALSE]
  /\ hasAlias = [c \in Core |-> FALSE]
  /\ saved = [c \in Core |-> Nothing]
  /\ current = [c \in Core |-> None]
  /\ phase = [c \in Core |-> "off"]
  /\ pc = [c \in Core |-> "idle"]
  /\ target = [c \in Core |-> None]
  /\ todo = [c \in Core |-> {}]
  /\ due = [c \in Core |-> FALSE]
  /\ late = [c \in Core |-> FALSE]
  /\ trouble = [c \in Core |-> FALSE]

-----------------------------------------------------------------------------
(* The helpers.  A command of networksetup or ifconfig, and a write of the  *)
(* record, may fail: ok says whether it did not.                            *)

Listed(d) == {s \in Service : d[s] # None}

\* saveLocked: the record becomes what this core owns after the step.
Save(c, ok) ==
  file' = IF ok THEN [pid |-> c, alias |-> hasAlias'[c], dns |-> saved'[c]] ELSE file

\* alive: a record's core is dead, as far as anyone can tell.
Stale == file # None /\ up[file.pid] = "dead"

\* restoreStaleLocked: done are the services put back; gone, the alias went; ok, the record
\* was rewritten or removed.  A process that dies in it leaves what ok = FALSE leaves.
RestoreStale(done, gone, ok) ==
  IF ~Stale
    THEN UNCHANGED <<dns, alias, ours, file>>
    ELSE /\ dns' = [s \in Service |-> IF s \in done THEN file.dns[s] ELSE dns[s]]
         /\ alias' = (alias /\ ~(file.alias /\ gone))
         /\ ours' = (ours /\ ~file.alias)
         /\ file' = IF ~ok THEN file
                    ELSE IF done = Listed(file.dns) THEN None
                    ELSE [pid |-> file.pid, alias |-> FALSE,
                          dns |-> [s \in Service |-> IF s \in done THEN None ELSE file.dns[s]]]

\* What restoreStaleLocked may put back.
Restorable == IF Stale THEN Listed(file.dns) ELSE {}

\* Mutant of ReleaseBegins: the generation stays, and a follow that waits still counts.
ReleaseKeepsGen(c) ==
  /\ current' = [current EXCEPT ![c] = None]
  /\ phase' = [phase EXCEPT ![c] = "off"]
  /\ pc' = [pc EXCEPT ![c] = IF prepared'[c] THEN "release" ELSE "idle"]
  /\ todo' = [todo EXCEPT ![c] = IF prepared'[c] THEN Listed(saved'[c]) ELSE {}]
  /\ UNCHANGED <<due, late>>

\* Release, up to its loop: a new generation, no callback and no current service.
ReleaseBegins(c) ==
  /\ current' = [current EXCEPT ![c] = None]
  /\ phase' = [phase EXCEPT ![c] = "off"]
  /\ pc' = [pc EXCEPT ![c] = IF prepared'[c] THEN "release" ELSE "idle"]
  /\ todo' = [todo EXCEPT ![c] = IF prepared'[c] THEN Listed(saved'[c]) ELSE {}]
  /\ due' = [due EXCEPT ![c] = FALSE]
  /\ late' = [late EXCEPT ![c] = late[c] \/ due[c]]

\* An error: a follow goroutine logs it, while Start goes on to Release.
Fails(c) ==
  /\ trouble' = [trouble EXCEPT ![c] = TRUE]
  /\ IF phase[c] = "on"
       THEN pc' = [pc EXCEPT ![c] = "idle"] /\ UNCHANGED <<current, phase, todo, due, late>>
       ELSE ReleaseBegins(c)

\* followLocked succeeds.
Followed(c, s) ==
  /\ current' = [current EXCEPT ![c] = s]
  /\ phase' = [phase EXCEPT ![c] = "on"]
  /\ pc' = [pc EXCEPT ![c] = "idle"]

Step(c, from) == up[c] = "alive" /\ pc[c] = from
Goto(c, to) == pc' = [pc EXCEPT ![c] = to]

-----------------------------------------------------------------------------
(* The life of a core. *)

\* RunCore: RestoreStale comes first.
CoreStarts(c) ==
  /\ up[c] = "unborn"
  /\ Overlap \/ \A b \in Core : up[b] # "alive"
  /\ up' = [up EXCEPT ![c] = "alive"]
  /\ \E done \in SUBSET Restorable, gone \in BOOLEAN, ok \in BOOLEAN : RestoreStale(done, gone, ok)
  /\ UNCHANGED <<user, deflt, ownVars, phase, pc, due, late, trouble>>

\* `--restore-dns`, which the GUI runs when a core has exited.
RestoreDns ==
  /\ Stale
  /\ \E done \in SUBSET Restorable, gone \in BOOLEAN, ok \in BOOLEAN : RestoreStale(done, gone, ok)
  /\ UNCHANGED <<user, deflt, ownVars, runVars>>

\* A crash, a kill, or the exit of the program; its memory goes with it.
Dies(c) ==
  /\ up[c] = "alive"
  /\ up' = [up EXCEPT ![c] = "dead"]
  /\ prepared' = [prepared EXCEPT ![c] = FALSE]
  /\ hasAlias' = [hasAlias EXCEPT ![c] = FALSE]
  /\ saved' = [saved EXCEPT ![c] = Nothing]
  /\ current' = [current EXCEPT ![c] = None]
  /\ phase' = [phase EXCEPT ![c] = "off"]
  /\ pc' = [pc EXCEPT ![c] = "idle"]
  /\ target' = [target EXCEPT ![c] = None]
  /\ todo' = [todo EXCEPT ![c] = {}]
  /\ due' = [due EXCEPT ![c] = FALSE]
  /\ late' = [late EXCEPT ![c] = FALSE]
  /\ trouble' = [trouble EXCEPT ![c] = FALSE]
  /\ UNCHANGED sysVars

-----------------------------------------------------------------------------
(* Prepare, Apply and Release, as rpc.Start and rpc.Stop call them. *)

\* Prepare replays a stale record, takes over what could not be put back, and decides
\* whether the alias is its own.
Prepare(c) ==
  /\ Step(c, "idle") /\ phase[c] = "off"
  /\ \E done \in SUBSET Restorable, gone \in BOOLEAN, ok \in BOOLEAN :
       /\ RestoreStale(done, gone, ok)
       /\ saved' = [saved EXCEPT ![c] =
                      [s \in Service |-> IF s \in Restorable \ done THEN file.dns[s]
                                         ELSE saved[c][s]]]
       /\ trouble' = [trouble EXCEPT ![c] = trouble[c] \/ done # Restorable]
  /\ prepared' = [prepared EXCEPT ![c] = TRUE]
  /\ hasAlias' = [hasAlias EXCEPT ![c] = hasAlias[c] \/ ~alias']
  /\ phase' = [phase EXCEPT ![c] = "preparing"]
  /\ Goto(c, "save")
  /\ UNCHANGED <<user, deflt, up, current, target, todo, due, late>>

PrepareSaves(c) ==
  /\ Step(c, "save")
  /\ UNCHANGED <<user, dns, alias, ours, deflt, up, prepared, hasAlias, saved, target>>
  /\ \/ /\ Save(c, TRUE)
        /\ Goto(c, "alias")
        /\ UNCHANGED <<current, phase, todo, due, late, trouble>>
     \/ Save(c, FALSE) /\ Fails(c)

\* addAlias and probe; the address cannot be bound without the alias.
PrepareEnds(c) ==
  /\ Step(c, "alias")
  /\ \E added \in BOOLEAN :
       /\ added => hasAlias[c] /\ ~alias
       /\ alias' = (alias \/ added)
       /\ ours' = (ours \/ added)
  /\ UNCHANGED <<user, dns, deflt, file, up, prepared, hasAlias, saved, target>>
  /\ \/ /\ alias'
        /\ phase' = [phase EXCEPT ![c] = "prepared"]
        /\ Goto(c, "idle")
        /\ UNCHANGED <<current, todo, due, late, trouble>>
     \/ Fails(c)

\* followLocked, up to pointLocked: by Apply, which registers the callback before, or by a
\* follow goroutine.
Follows(c) ==
  /\ UNCHANGED <<sysVars, up, prepared, hasAlias, saved>>
  /\ \/ /\ deflt \in {None, current[c]}
        /\ Followed(c, current[c])
        /\ UNCHANGED <<target, todo, late, trouble>>
        /\ due' = [due EXCEPT ![c] = FALSE]
     \/ /\ deflt \notin {None, current[c]}
        /\ target' = [target EXCEPT ![c] = deflt]
        /\ Goto(c, "record")
        /\ phase' = [phase EXCEPT ![c] = IF @ = "prepared" THEN "applying" ELSE @]
        /\ due' = [due EXCEPT ![c] = FALSE]
        /\ UNCHANGED <<current, todo, late, trouble>>
     \/ /\ deflt # None    \* serviceForDevice fails
        /\ UNCHANGED target
        /\ trouble' = [trouble EXCEPT ![c] = TRUE]
        /\ IF phase[c] = "on"
             THEN /\ due' = [due EXCEPT ![c] = FALSE]
                  /\ UNCHANGED <<current, phase, pc, todo, late>>
             ELSE ReleaseBegins(c)

Apply(c) == Step(c, "idle") /\ phase[c] = "prepared" /\ Follows(c)

\* A follow goroutine of the current generation gets mu.  Those that wait are one: each goes
\* to the default interface of its time.
Follow(c) == Step(c, "idle") /\ due[c] /\ Follows(c)

\* One of an older generation does nothing.
FollowLate(c) ==
  /\ Step(c, "idle") /\ late[c]
  /\ late' = [late EXCEPT ![c] = FALSE]
  /\ UNCHANGED <<sysVars, ownVars, up, phase, pc, due, trouble>>

\* Mutant of PointRecords: the service is pointed at the core before the record is written.
PointRecordsLater(c) ==
  /\ Step(c, "record")
  /\ UNCHANGED <<user, alias, ours, deflt, file, up, prepared, hasAlias, target>>
  /\ dns' = [dns EXCEPT ![target[c]] = "address"]
  /\ saved' = [saved EXCEPT ![c][target[c]] = IF @ = None THEN dns[target[c]] ELSE @]
  /\ Goto(c, "point")
  /\ UNCHANGED <<current, phase, todo, due, late, trouble>>

\* pointLocked, first half: the servers to go back to are read and recorded.
PointRecords(c) ==
  /\ Step(c, "record")
  /\ UNCHANGED <<user, dns, alias, ours, deflt, up, prepared, hasAlias, target>>
  /\ \/ /\ \/ saved[c][target[c]] # None /\ UNCHANGED <<saved, file>>
           \/ /\ saved[c][target[c]] = None
              /\ saved' = [saved EXCEPT ![c][target[c]] =
                             IF dns[target[c]] = "address" THEN "empty" ELSE dns[target[c]]]
              /\ Save(c, TRUE)
        /\ Goto(c, "point")
        /\ UNCHANGED <<current, phase, todo, due, late, trouble>>
     \/ /\ saved[c][target[c]] = None
        /\ UNCHANGED <<saved, file>>
        /\ Fails(c)

\* pointLocked, second half.
Points(c) ==
  /\ Step(c, "point")
  /\ UNCHANGED <<user, alias, ours, deflt, file, up, prepared, hasAlias, saved, target>>
  /\ \/ /\ dns' = [dns EXCEPT ![target[c]] = "address"]
        /\ IF current[c] = None
             THEN Followed(c, target[c])
             ELSE Goto(c, "unpoint") /\ UNCHANGED <<current, phase>>
        /\ UNCHANGED <<todo, due, late, trouble>>
     \/ UNCHANGED dns /\ Fails(c)

\* restoreLocked of the previous service; its failure is only logged.
Unpoints(c) ==
  /\ Step(c, "unpoint")
  /\ UNCHANGED <<user, alias, ours, deflt, file, up, prepared, hasAlias, target, todo, due, late>>
  /\ \/ /\ dns' = [dns EXCEPT ![current[c]] = saved[c][current[c]]]
        /\ saved' = [saved EXCEPT ![c][current[c]] = None]
        /\ Goto(c, "resave")
        /\ UNCHANGED <<current, phase, trouble>>
     \/ /\ UNCHANGED <<dns, saved>>
        /\ Followed(c, target[c])
        /\ trouble' = [trouble EXCEPT ![c] = TRUE]

UnpointSaves(c) ==
  /\ Step(c, "resave")
  /\ UNCHANGED <<hasAlias, saved>>
  /\ \E ok \in BOOLEAN : Save(c, ok)
  /\ Followed(c, target[c])
  /\ UNCHANGED <<user, dns, alias, ours, deflt, up, prepared, target, todo, due, late, trouble>>

\* Release: by Stop, by a Start that failed later on, or on the way out.
Release(c) ==
  /\ Step(c, "idle")
  /\ UNCHANGED <<sysVars, up, prepared, hasAlias, saved, target, trouble>>
  /\ ReleaseBegins(c)

\* restoreLocked of one service, in any order.
ReleaseRestores(c) ==
  /\ Step(c, "release")
  /\ \E s \in todo[c] :
       /\ todo' = [todo EXCEPT ![c] = @ \ {s}]
       /\ \/ /\ dns' = [dns EXCEPT ![s] = saved[c][s]]
             /\ saved' = [saved EXCEPT ![c][s] = None]
             /\ Goto(c, "released")
             /\ UNCHANGED trouble
          \/ /\ UNCHANGED <<dns, saved, pc>>
             /\ trouble' = [trouble EXCEPT ![c] = TRUE]
  /\ UNCHANGED <<user, alias, ours, deflt, file, up, prepared, hasAlias, current, target, phase, due,
                 late>>

ReleaseSaves(c) ==
  /\ Step(c, "released")
  /\ UNCHANGED <<hasAlias, saved>>
  /\ \E ok \in BOOLEAN : Save(c, ok)
  /\ Goto(c, "release")
  /\ UNCHANGED <<user, dns, alias, ours, deflt, up, prepared, current, target, phase, todo, due, late,
                 trouble>>

\* removeAlias; a failure is only logged.
ReleaseAlias(c) ==
  /\ Step(c, "release") /\ todo[c] = {}
  /\ \E gone \in BOOLEAN : alias' = (alias /\ ~(hasAlias[c] /\ gone))
  /\ ours' = (ours /\ ~hasAlias[c])
  /\ hasAlias' = [hasAlias EXCEPT ![c] = FALSE]
  /\ Goto(c, "finish")
  /\ UNCHANGED <<user, dns, deflt, file, up, prepared, saved, current, target, phase, todo, due, late,
                 trouble>>

\* The record stays for what could not be put back, else it goes, if it is still this core's.
ReleaseEnds(c) ==
  /\ Step(c, "finish")
  /\ UNCHANGED <<hasAlias, saved>>
  /\ \E ok \in BOOLEAN :
       IF saved[c] # Nothing
         THEN Save(c, ok) /\ UNCHANGED <<prepared, trouble>>
         ELSE /\ file' = IF file # None /\ file.pid = c /\ ok THEN None ELSE file
              /\ prepared' = [prepared EXCEPT ![c] = FALSE]
              /\ trouble' = [trouble EXCEPT ![c] = FALSE]
  /\ Goto(c, "idle")
  /\ UNCHANGED <<user, dns, alias, ours, deflt, up, current, target, phase, todo, due, late>>

-----------------------------------------------------------------------------
\* Mutant of DefaultChanges: the callback is lost while an operation holds mu.
DefaultChangesUnseen(s) ==
  /\ deflt' = s
  /\ due' = [c \in Core |-> due[c] \/ (up[c] = "alive" /\ phase[c] = "on" /\ pc[c] = "idle")]
  /\ UNCHANGED <<user, dns, alias, ours, file, ownVars, up, phase, pc, late, trouble>>

\* Apply has registered its callback and Release has not unregistered it.
Registered(c) == up[c] = "alive" /\ phase[c] \in {"applying", "on"}

\* The default interface moves: the callbacks start a follow goroutine each.
DefaultChanges(s) ==
  /\ deflt' = s
  /\ due' = [c \in Core |-> due[c] \/ Registered(c)]
  /\ UNCHANGED <<user, dns, alias, ours, file, ownVars, up, phase, pc, late, trouble>>

CoreStep(c) ==
  \/ CoreStarts(c) \/ Dies(c)
  \/ Prepare(c) \/ PrepareSaves(c) \/ PrepareEnds(c)
  \/ Apply(c) \/ Follow(c) \/ FollowLate(c)
  \/ PointRecords(c) \/ Points(c) \/ Unpoints(c) \/ UnpointSaves(c)
  \/ Release(c) \/ ReleaseRestores(c) \/ ReleaseSaves(c) \/ ReleaseAlias(c) \/ ReleaseEnds(c)

Next ==
  \/ \E c \in Core : CoreStep(c)
  \/ RestoreDns
  \/ \E s \in Service \cup {None} : DefaultChanges(s)

Spec == Init /\ [][Next]_vars

-----------------------------------------------------------------------------
(* Properties. *)

\* Whatever a core has done to the system, the record says how to undo it, at every moment
\* a core may die: the user's own servers of each service that is not at them, and the alias.
\* The record holds no servers the user did not choose, so a replay, late or repeated, does
\* no harm.
ChangesAreRecorded ==
  /\ TypeOK
  /\ \A s \in Service : dns[s] # user[s] => file # None /\ file.dns[s] = user[s]
  /\ ours => file # None /\ file.alias
  /\ file # None => \A s \in Service : file.dns[s] \in {user[s], None}

\* A core that is on, idle and has no follow to come has followed the default interface, and
\* has left nothing but the default service changed: however callbacks, Apply and their
\* goroutines interleave, unless a command failed.
FollowsTheDefault ==
  \A c \in Core :
    up[c] = "alive" /\ phase[c] = "on" /\ pc[c] = "idle" /\ ~due[c] /\ ~trouble[c] =>
      /\ deflt # None => current[c] = deflt
      /\ \A s \in Service : dns[s] = IF s = current[c] THEN "address" ELSE user[s]

\* No follow goroutine that waited while Release ran points the resolver at a listener that
\* is gone: the system is changed only between Apply and Release.
NoFollowAfterRelease ==
  [][\A s \in Service : dns[s] # "address" /\ dns'[s] = "address" =>
       \E c \in Core : Registered(c)]_vars
=============================================================================
