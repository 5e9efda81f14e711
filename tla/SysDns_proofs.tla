--------------------------- MODULE SysDns_proofs ---------------------------
(***************************************************************************)
(* Proofs for SysDns.  The types and what a late follow goroutine may do   *)
(* are proved for any cores; that the record undoes every change and that  *)
(* the resolver follows the default interface, for cores of which one      *)
(* starts when the one before it is gone.                                  *)
(***************************************************************************)
EXTENDS SysDns, TLAPS

Following == {"record", "point", "unpoint", "resave"}
Releasing == {"release", "released", "finish"}

\* What a core that is not up, or not prepared, has in memory, and which steps belong to which
\* phase.
PhaseInv ==
  \A c \in Core :
    /\ up[c] # "alive" => ~prepared[c]
    /\ ~prepared[c] => saved[c] = Nothing /\ ~hasAlias[c] /\ phase[c] = "off" /\ pc[c] = "idle"
    /\ pc[c] \in {"save", "alias"} <=> phase[c] = "preparing"
    /\ pc[c] \in {"record", "point"} => phase[c] \in {"applying", "on"}
    /\ pc[c] \in {"unpoint", "resave"} => phase[c] = "on" /\ current[c] # None
    /\ pc[c] \in Releasing => phase[c] = "off"
    /\ phase[c] = "applying" => pc[c] \in {"record", "point"}
    /\ phase[c] # "on" => current[c] = None
    /\ due[c] => phase[c] \in {"applying", "on"}

\* The servers of every service an operation is about to put back are remembered.
TargetInv ==
  \A c \in Core :
    /\ pc[c] \in Following => target[c] \in Service /\ target[c] # current[c]
    /\ pc[c] \in {"point", "unpoint", "resave"} => saved[c][target[c]] # None
    /\ current[c] # None /\ pc[c] # "resave" => saved[c][current[c]] # None
    /\ pc[c] \notin {"release", "released"} => todo[c] = {}
    /\ \A s \in todo[c] : saved[c][s] # None
    /\ pc[c] = "finish" => ~hasAlias[c]

\* Nobody remembers or records the core's own address as servers to go back to.
CleanInv ==
  /\ \A c \in Core, s \in Service : saved[c][s] # "address"
  /\ file # None => \A s \in Service : file.dns[s] # "address"

\* The inductive invariant that holds for any cores.
BaseInv ==
  /\ TypeOK
  /\ PhaseInv
  /\ TargetInv
  /\ CleanInv

-----------------------------------------------------------------------------
(* The rest is about cores that do not overlap. *)

\* At most one core lives, and only a core that has started leaves a record.
OneInv ==
  /\ \A b, c \in Core : up[b] = "alive" /\ up[c] = "alive" => b = c
  /\ file # None => up[file.pid] # "unborn"

\* A service has the user's servers or the core's address, and only the user's are remembered.
UserInv ==
  /\ \A s \in Service : dns[s] \in {user[s], "address"}
  /\ \A c \in Core, s \in Service : saved[c][s] \in {user[s], None}
  /\ file # None => \A s \in Service : file.dns[s] \in {user[s], None}

\* The record undoes every change.
UndoInv ==
  /\ \A s \in Service : dns[s] # user[s] => file # None /\ file.dns[s] = user[s]
  /\ ours => file # None /\ file.alias

\* So does what the living core remembers, once it has taken over a dead one's record, so that
\* it may replace the record.
Own(c) ==
  up[c] = "alive" /\ (prepared[c] \/ ~Stale) =>
    /\ \A s \in Service : dns[s] # user[s] => saved[c][s] = user[s]
    /\ ours => hasAlias[c]
OwnInv == \A c \in Core : Own(c)

\* From the first save to Release the record is this core's and has all it remembers.
Sync(c) ==
  phase[c] \in {"prepared", "applying", "on"} \/ pc[c] = "alias" =>
    /\ file # None /\ file.pid = c
    /\ hasAlias[c] => file.alias
    /\ \A s \in Service : saved[c][s] # None => file.dns[s] = saved[c][s]
SyncInv == \A c \in Core : Sync(c)

\* Where the resolver points, and where it should, ...
Pointed(c) ==
  /\ current[c] # None /\ pc[c] # "resave" => dns[current[c]] = "address"
  /\ pc[c] \in {"unpoint", "resave"} => dns[target[c]] = "address"
  /\ pc[c] \in Following /\ ~due[c] => target[c] = deflt
  /\ phase[c] = "on" /\ pc[c] = "idle" /\ ~due[c] /\ ~trouble[c] => deflt \in {None, current[c]}
\* ... and that what is remembered is, unless a command failed, about the services the operation is
\* still busy with.
Busy(c) ==
  ~trouble[c] => \A s \in Service : saved[c][s] # None =>
    \/ s \in todo[c]
    \/ s = current[c] /\ pc[c] # "resave"
    \/ s = target[c] /\ pc[c] \in {"point", "unpoint", "resave"}
FollowInv == \A c \in Core : Pointed(c) /\ Busy(c)

\* The inductive invariant of cores that do not overlap.
IInv ==
  /\ BaseInv
  /\ OneInv
  /\ UserInv
  /\ UndoInv
  /\ OwnInv
  /\ SyncInv
  /\ FollowInv

-----------------------------------------------------------------------------
(* The records: what saveLocked and restoreStaleLocked leave. *)

\* A record is built from its three fields.
LEMMA RecordBuilt ==
  ASSUME NEW c \in Core, NEW a \in BOOLEAN, NEW d \in Saved
  PROVE  /\ [pid |-> c, alias |-> a, dns |-> d] \in Record
         /\ [pid |-> c, alias |-> a, dns |-> d] # None
  BY SysDnsAssumption DEF Record

\* The parts of a record.
LEMMA RecordParts ==
  ASSUME NEW r \in Record
  PROVE  r.pid \in Core /\ r.alias \in BOOLEAN /\ r.dns \in Saved /\ r # None
  BY SysDnsAssumption DEF Record

\* restoreStaleLocked keeps the types, and puts no service at the core's address.
LEMMA RestoreTypes ==
  ASSUME TypeOK, CleanInv, NEW done \in SUBSET Restorable, NEW gone \in BOOLEAN, NEW ok \in BOOLEAN,
         RestoreStale(done, gone, ok)
  PROVE  /\ dns' \in [Service -> Servers]
         /\ alias' \in BOOLEAN /\ ours' \in BOOLEAN
         /\ file' \in Record \cup {None}
         /\ file' # None => \A s \in Service : file'.dns[s] # "address"
         /\ \A s \in Service : dns'[s] = "address" => dns[s] = "address"
<1>1. CASE ~Stale
  BY <1>1 DEF RestoreStale, TypeOK, CleanInv
<1>2. CASE Stale
  <2> DEFINE rest == [s \in Service |-> IF s \in done THEN None ELSE file.dns[s]]
  <2>1. file \in Record /\ file.pid \in Core /\ file.alias \in BOOLEAN /\ file.dns \in Saved
    BY <1>2, RecordParts DEF Stale, TypeOK
  <2>2. done \subseteq Service /\ \A s \in done : file.dns[s] # None
    BY <1>2 DEF Restorable, Listed
  <2>3. \A s \in done : file.dns[s] \in Servers /\ file.dns[s] # "address"
    BY <1>2, <2>1, <2>2 DEF Saved, CleanInv, Stale
  <2>4. dns' \in [Service -> Servers] /\ \A s \in Service : dns'[s] = "address" => dns[s] = "address"
    BY <1>2, <2>3 DEF RestoreStale, TypeOK
  <2>5. alias' \in BOOLEAN /\ ours' \in BOOLEAN
    BY <1>2 DEF RestoreStale, TypeOK
  <2>6. rest \in Saved /\ \A s \in Service : rest[s] # "address"
    BY <1>2, <2>1, SysDnsAssumption DEF Saved, CleanInv, Stale, Servers
  <2>7. [pid |-> file.pid, alias |-> FALSE, dns |-> rest] \in Record
    BY <2>1, <2>6, RecordBuilt
  <2>8. file' \in {file, None, [pid |-> file.pid, alias |-> FALSE, dns |-> rest]}
    BY <1>2 DEF RestoreStale
  <2>9. file' # None => \A s \in Service : file'.dns[s] # "address"
    BY <1>2, <2>6, <2>8 DEF CleanInv
  <2> QED BY <2>1, <2>4, <2>5, <2>7, <2>8, <2>9
<1> QED BY <1>1, <1>2

-----------------------------------------------------------------------------
(* What the steps that touch one remembered entry do. *)

\* The entry of service t becomes v.
SetsEntry(c, t, v) == saved' = [saved EXCEPT ![c][t] = v]
EntrySet(c, t, v) ==
  /\ saved' \in [Core -> Saved]
  /\ saved'[c][t] = v
  /\ \A s \in Service : s # t => saved'[c][s] = saved[c][s]
  /\ \A b \in Core : b # c => saved'[b] = saved[b]

\* The other entries stay.
LEMMA EntryIsSet ==
  ASSUME BaseInv, NEW c \in Core, NEW t \in Service, NEW v \in Servers \cup {None}, SetsEntry(c, t, v)
  PROVE  EntrySet(c, t, v)
<1>1. saved \in [Core -> Saved] /\ saved[c] \in [Service -> Servers \cup {None}]
  BY DEF BaseInv, TypeOK, Saved
<1>2. [saved[c] EXCEPT ![t] = v] \in Saved
  BY <1>1 DEF Saved
<1>3. saved' = [saved EXCEPT ![c] = [saved[c] EXCEPT ![t] = v]]
  BY DEF SetsEntry
<1> QED BY <1>1, <1>2, <1>3 DEF EntrySet

\* restoreLocked: the servers remembered are put back and forgotten.
PutsBack(c, t) ==
  /\ EntrySet(c, t, None)
  /\ saved[c][t] \in Servers
  /\ dns' \in [Service -> Servers]
  /\ dns'[t] = saved[c][t]
  /\ \A s \in Service : s # t => dns'[s] = dns[s]

\* It is done for a service that is remembered.
LEMMA Restores ==
  ASSUME BaseInv, NEW c \in Core, NEW t \in Service, saved[c][t] # None,
         dns' = [dns EXCEPT ![t] = saved[c][t]], SetsEntry(c, t, None)
  PROVE  PutsBack(c, t)
<1>1. EntrySet(c, t, None)
  BY EntryIsSet
<1>2. saved[c][t] \in Servers
  BY DEF BaseInv, TypeOK, Saved
<1> QED BY <1>1, <1>2 DEF PutsBack, BaseInv, TypeOK

\* The servers pointLocked remembers are those in force, or none if those are the core's own.
InForce(t) == IF dns[t] = "address" THEN "empty" ELSE dns[t]
RecordsTarget(c) ==
  \/ /\ UNCHANGED <<saved, file>>
     /\ pc'[c] = "point" => saved[c][target[c]] # None
  \/ /\ saved[c][target[c]] = None
     /\ EntrySet(c, target[c], InForce(target[c])) /\ InForce(target[c]) \in Servers \ {"address"}
     /\ pc'[c] = "point" /\ Save(c, TRUE)

\* The first half of pointLocked.
LEMMA PointRecordsTarget ==
  ASSUME BaseInv, NEW c \in Core, PointRecords(c)
  PROVE  target[c] \in Service /\ RecordsTarget(c)
<1>1. target[c] \in Service /\ dns[target[c]] \in Servers
  BY DEF PointRecords, Step, BaseInv, TargetInv, Following, TypeOK
<1>2. pc \in [Core -> Pc]
  BY DEF BaseInv, TypeOK
<1>3. InForce(target[c]) \in Servers \ {"address"}
  BY <1>1 DEF InForce, Servers, Choice
<1>4. CASE saved[c][target[c]] = None /\ SetsEntry(c, target[c], InForce(target[c])) /\ Save(c, TRUE) /\ Goto(c, "point")
  <2>1. EntrySet(c, target[c], InForce(target[c]))
    BY <1>1, <1>3, <1>4, EntryIsSet
  <2> QED BY <1>1, <1>2, <1>3, <1>4, <2>1 DEF RecordsTarget, Goto
<1>5. CASE UNCHANGED <<saved, file>> /\ (saved[c][target[c]] # None \/ Fails(c))
  <2>1. Fails(c) => pc'[c] # "point"
    BY <1>2 DEF Fails, ReleaseBegins
  <2> QED BY <1>1, <1>5, <2>1 DEF RecordsTarget
<1> QED BY <1>4, <1>5 DEF PointRecords, SetsEntry, InForce

\* restoreLocked of the previous service.
LEMMA UnpointsCurrent ==
  ASSUME BaseInv, NEW c \in Core, Unpoints(c)
  PROVE  current[c] \in Service /\ (UNCHANGED <<dns, saved>> \/ PutsBack(c, current[c]))
<1>1. current[c] \in Service /\ saved[c][current[c]] # None
  BY DEF Unpoints, Step, BaseInv, TargetInv, PhaseInv, TypeOK
<1>2. \/ UNCHANGED <<dns, saved>>
      \/ dns' = [dns EXCEPT ![current[c]] = saved[c][current[c]]] /\ SetsEntry(c, current[c], None)
  BY DEF Unpoints, SetsEntry
<1> QED BY <1>1, <1>2, Restores

\* Release comes to service s.
RestoresOne(c, s) ==
  /\ s \in Service /\ saved[c][s] # None
  /\ todo' = [todo EXCEPT ![c] = @ \ {s}]
  /\ \/ PutsBack(c, s) /\ Goto(c, "released") /\ UNCHANGED trouble
     \/ UNCHANGED <<dns, saved, pc>> /\ trouble' = [trouble EXCEPT ![c] = TRUE]

\* restoreLocked in the loop of Release.
LEMMA ReleaseRestoresOne ==
  ASSUME BaseInv, NEW c \in Core, ReleaseRestores(c)
  PROVE  \E s \in todo[c] : RestoresOne(c, s)
<1>1. PICK s \in todo[c] :
        /\ todo' = [todo EXCEPT ![c] = @ \ {s}]
        /\ \/ /\ dns' = [dns EXCEPT ![s] = saved[c][s]] /\ SetsEntry(c, s, None)
              /\ Goto(c, "released") /\ UNCHANGED trouble
           \/ UNCHANGED <<dns, saved, pc>> /\ trouble' = [trouble EXCEPT ![c] = TRUE]
  BY DEF ReleaseRestores, SetsEntry
<1>2. s \in Service /\ saved[c][s] # None
  BY DEF BaseInv, TargetInv, TypeOK
<1>3. RestoresOne(c, s)
  BY <1>1, <1>2, Restores DEF RestoresOne
<1> QED BY <1>3

-----------------------------------------------------------------------------
(* The invariant that holds for any cores. *)

\* Before the first core starts.
LEMMA InitBase == Init => BaseInv
<1> SUFFICES ASSUME Init PROVE BaseInv OBVIOUS
<1> USE SysDnsAssumption DEF Init
<1>1. TypeOK
  BY DEF TypeOK, Phase, Pc, Saved, Nothing, Servers
<1>2. PhaseInv /\ TargetInv /\ CleanInv
  BY DEF PhaseInv, TargetInv, CleanInv, Following, Releasing, Nothing, Servers
<1> QED BY <1>1, <1>2 DEF BaseInv

\* A core starts and replays what a dead one left.
LEMMA CoreStartsBase ==
  ASSUME BaseInv, NEW c \in Core, CoreStarts(c)
  PROVE  BaseInv'
<1> USE DEF BaseInv, CoreStarts, ownVars
<1>1. PICK done \in SUBSET Restorable, gone \in BOOLEAN, ok \in BOOLEAN : RestoreStale(done, gone, ok)
  OBVIOUS
<1>2. TypeOK'
  BY <1>1, RestoreTypes DEF TypeOK
<1>3. CleanInv'
  BY <1>1, RestoreTypes DEF CleanInv
<1>4. PhaseInv' /\ TargetInv'
  BY DEF PhaseInv, TargetInv, TypeOK
<1> QED BY <1>2, <1>3, <1>4

\* --restore-dns does the same.
LEMMA RestoreDnsBase ==
  ASSUME BaseInv, RestoreDns
  PROVE  BaseInv'
<1> USE DEF BaseInv, RestoreDns, ownVars, runVars
<1>1. PICK done \in SUBSET Restorable, gone \in BOOLEAN, ok \in BOOLEAN : RestoreStale(done, gone, ok)
  OBVIOUS
<1>2. TypeOK'
  BY <1>1, RestoreTypes DEF TypeOK
<1>3. CleanInv'
  BY <1>1, RestoreTypes DEF CleanInv
<1>4. PhaseInv' /\ TargetInv'
  BY DEF PhaseInv, TargetInv
<1> QED BY <1>2, <1>3, <1>4

\* Prepare takes over what it could not put back.
LEMMA PrepareBase ==
  ASSUME BaseInv, NEW c \in Core, Prepare(c)
  PROVE  BaseInv'
<1> USE DEF BaseInv, Prepare, Step, Goto
<1>1. PICK done \in SUBSET Restorable, gone \in BOOLEAN, ok \in BOOLEAN :
        /\ RestoreStale(done, gone, ok)
        /\ saved' = [saved EXCEPT ![c] = [s \in Service |-> IF s \in Restorable \ done THEN file.dns[s]
                                                            ELSE saved[c][s]]]
        /\ trouble' = [trouble EXCEPT ![c] = trouble[c] \/ done # Restorable]
  OBVIOUS
<1>2. \A s \in Restorable : s \in Service /\ file.dns[s] \in Servers /\ file.dns[s] # "address"
  BY RecordParts DEF Restorable, Listed, Stale, Saved, CleanInv, TypeOK
<1>3. saved' \in [Core -> Saved] /\ \A b \in Core, s \in Service : saved'[b][s] # "address"
  BY <1>1, <1>2 DEF TypeOK, Saved, CleanInv
<1>4. TypeOK'
  <2>1. hasAlias' \in [Core -> BOOLEAN] /\ trouble' \in [Core -> BOOLEAN]
    BY <1>1, RestoreTypes DEF TypeOK
  <2>2. dns' \in [Service -> Servers] /\ alias' \in BOOLEAN /\ ours' \in BOOLEAN /\ file' \in Record \cup {None}
    BY <1>1, RestoreTypes
  <2>3. phase' \in [Core -> Phase] /\ pc' \in [Core -> Pc] /\ prepared' \in [Core -> BOOLEAN]
    BY DEF TypeOK, Phase, Pc
  <2> QED BY <1>3, <2>1, <2>2, <2>3 DEF TypeOK
<1>5. CleanInv'
  BY <1>1, <1>3, RestoreTypes DEF CleanInv
<1>6. PhaseInv'
  BY <1>1 DEF PhaseInv, TypeOK, Releasing
<1>7. TargetInv'
  BY <1>1 DEF TargetInv, PhaseInv, TypeOK, Following
<1> QED BY <1>4, <1>5, <1>6, <1>7

\* A core dies.
LEMMA DiesBase ==
  ASSUME BaseInv, NEW c \in Core, Dies(c)
  PROVE  BaseInv'
<1> USE SysDnsAssumption DEF BaseInv, Dies, sysVars
<1>1. TypeOK'
  <2>1. dns' \in [Service -> Servers] /\ alias' \in BOOLEAN /\ ours' \in BOOLEAN
    BY DEF TypeOK
  <2>2. file' \in Record \cup {None}
    BY RecordBuilt DEF TypeOK
  <2>3. prepared' \in [Core -> BOOLEAN] /\ hasAlias' \in [Core -> BOOLEAN] /\ saved' \in [Core -> Saved]
    BY DEF TypeOK, Saved, Nothing
  <2>4. current' \in [Core -> Service \cup {None}] /\ target' \in [Core -> Service \cup {None}]
    BY DEF TypeOK
  <2>5. todo' \in [Core -> SUBSET Service]
    BY DEF TypeOK, Listed
  <2>6. up' \in [Core -> {"unborn", "alive", "dead"}] /\ phase' \in [Core -> Phase] /\ pc' \in [Core -> Pc]
    BY DEF TypeOK, Phase, Pc
  <2>7. due' \in [Core -> BOOLEAN] /\ late' \in [Core -> BOOLEAN] /\ trouble' \in [Core -> BOOLEAN]
    BY Zenon DEF TypeOK
  <2> QED BY <2>1, <2>2, <2>3, <2>4, <2>5, <2>6, <2>7 DEF TypeOK
<1>2. PhaseInv'
  BY DEF PhaseInv, TypeOK, Phase, Pc, Releasing
<1>3. TargetInv'
  BY DEF TargetInv, PhaseInv, TypeOK, Pc, Phase, Saved, Following, Releasing, Listed, Nothing
<1>4. CleanInv'
  BY DEF CleanInv, TypeOK, Record, Saved, Nothing, Servers
<1> QED BY <1>1, <1>2, <1>3, <1>4

\* Prepare saves its record.
LEMMA PrepareSavesBase ==
  ASSUME BaseInv, NEW c \in Core, PrepareSaves(c)
  PROVE  BaseInv'
<1> USE SysDnsAssumption DEF BaseInv, PrepareSaves, Save, Fails, ReleaseBegins, Step, Goto
<1>1. TypeOK'
  <2>1. dns' \in [Service -> Servers] /\ alias' \in BOOLEAN /\ ours' \in BOOLEAN
    BY DEF TypeOK
  <2>2. file' \in Record \cup {None}
    BY RecordBuilt DEF TypeOK
  <2>3. prepared' \in [Core -> BOOLEAN] /\ hasAlias' \in [Core -> BOOLEAN] /\ saved' \in [Core -> Saved]
    BY DEF TypeOK
  <2>4. current' \in [Core -> Service \cup {None}] /\ target' \in [Core -> Service \cup {None}]
    BY DEF TypeOK
  <2>5. todo' \in [Core -> SUBSET Service]
    BY DEF TypeOK, Listed
  <2>6. up' \in [Core -> {"unborn", "alive", "dead"}] /\ phase' \in [Core -> Phase] /\ pc' \in [Core -> Pc]
    BY DEF TypeOK, Phase, Pc
  <2>7. due' \in [Core -> BOOLEAN] /\ late' \in [Core -> BOOLEAN] /\ trouble' \in [Core -> BOOLEAN]
    BY Zenon DEF TypeOK
  <2> QED BY <2>1, <2>2, <2>3, <2>4, <2>5, <2>6, <2>7 DEF TypeOK
<1>2. PhaseInv'
  BY DEF PhaseInv, TypeOK, Phase, Pc, Releasing
<1>3. TargetInv'
  BY DEF TargetInv, PhaseInv, TypeOK, Pc, Phase, Saved, Following, Releasing, Listed, Nothing
<1>4. CleanInv'
  BY DEF CleanInv, TypeOK, Record, Saved
<1> QED BY <1>1, <1>2, <1>3, <1>4

\* Prepare adds the alias and probes the address.
LEMMA PrepareEndsBase ==
  ASSUME BaseInv, NEW c \in Core, PrepareEnds(c)
  PROVE  BaseInv'
<1> USE SysDnsAssumption DEF BaseInv, PrepareEnds, Fails, ReleaseBegins, Step, Goto
<1>1. TypeOK'
  <2>1. dns' \in [Service -> Servers] /\ alias' \in BOOLEAN /\ ours' \in BOOLEAN
    BY DEF TypeOK
  <2>2. file' \in Record \cup {None}
    BY RecordBuilt DEF TypeOK
  <2>3. prepared' \in [Core -> BOOLEAN] /\ hasAlias' \in [Core -> BOOLEAN] /\ saved' \in [Core -> Saved]
    BY DEF TypeOK
  <2>4. current' \in [Core -> Service \cup {None}] /\ target' \in [Core -> Service \cup {None}]
    BY DEF TypeOK
  <2>5. todo' \in [Core -> SUBSET Service]
    BY DEF TypeOK, Listed
  <2>6. up' \in [Core -> {"unborn", "alive", "dead"}] /\ phase' \in [Core -> Phase] /\ pc' \in [Core -> Pc]
    BY DEF TypeOK, Phase, Pc
  <2>7. due' \in [Core -> BOOLEAN] /\ late' \in [Core -> BOOLEAN] /\ trouble' \in [Core -> BOOLEAN]
    BY Zenon DEF TypeOK
  <2> QED BY <2>1, <2>2, <2>3, <2>4, <2>5, <2>6, <2>7 DEF TypeOK
<1>2. PhaseInv'
  BY DEF PhaseInv, TypeOK, Phase, Pc, Releasing
<1>3. TargetInv'
  BY DEF TargetInv, PhaseInv, TypeOK, Pc, Phase, Saved, Following, Releasing, Listed, Nothing
<1>4. CleanInv'
  BY DEF CleanInv, TypeOK, Record, Saved
<1> QED BY <1>1, <1>2, <1>3, <1>4

\* Apply, or a follow goroutine of the current generation.
LEMMA FollowsBase ==
  ASSUME BaseInv, NEW c \in Core, Step(c, "idle"), phase[c] = "prepared" \/ due[c], Follows(c)
  PROVE  BaseInv'
<1> USE SysDnsAssumption DEF BaseInv, Follows, Followed, ReleaseBegins, Step, Goto, sysVars
<1>1. TypeOK'
  <2>1. dns' \in [Service -> Servers] /\ alias' \in BOOLEAN /\ ours' \in BOOLEAN
    BY DEF TypeOK
  <2>2. file' \in Record \cup {None}
    BY RecordBuilt DEF TypeOK
  <2>3. prepared' \in [Core -> BOOLEAN] /\ hasAlias' \in [Core -> BOOLEAN] /\ saved' \in [Core -> Saved]
    BY DEF TypeOK
  <2>4. current' \in [Core -> Service \cup {None}] /\ target' \in [Core -> Service \cup {None}]
    BY DEF TypeOK
  <2>5. todo' \in [Core -> SUBSET Service]
    BY DEF TypeOK, Listed
  <2>6. up' \in [Core -> {"unborn", "alive", "dead"}] /\ phase' \in [Core -> Phase] /\ pc' \in [Core -> Pc]
    BY DEF TypeOK, Phase, Pc
  <2>7. due' \in [Core -> BOOLEAN] /\ late' \in [Core -> BOOLEAN] /\ trouble' \in [Core -> BOOLEAN]
    BY Zenon DEF TypeOK
  <2> QED BY <2>1, <2>2, <2>3, <2>4, <2>5, <2>6, <2>7 DEF TypeOK
<1>2. PhaseInv'
  BY DEF PhaseInv, TypeOK, Phase, Pc, Releasing
<1>3. TargetInv'
  BY DEF TargetInv, PhaseInv, TypeOK, Pc, Phase, Saved, Following, Releasing, Listed, Nothing
<1>4. CleanInv'
  BY DEF CleanInv, TypeOK, Record, Saved
<1> QED BY <1>1, <1>2, <1>3, <1>4

\* A follow goroutine of an older generation.
LEMMA FollowLateBase ==
  ASSUME BaseInv, NEW c \in Core, FollowLate(c)
  PROVE  BaseInv'
<1> USE SysDnsAssumption DEF BaseInv, FollowLate, Step, sysVars, ownVars
<1>1. TypeOK'
  BY DEF TypeOK, Phase, Pc, TargetInv, Following
<1>2. PhaseInv'
  BY DEF PhaseInv, TypeOK, Phase, Pc, Releasing
<1>3. TargetInv'
  BY DEF TargetInv, PhaseInv, TypeOK, Pc, Phase, Saved, Following, Releasing, Listed, Nothing
<1>4. CleanInv'
  BY DEF CleanInv, TypeOK, Record, Saved
<1> QED BY <1>1, <1>2, <1>3, <1>4

\* The servers to go back to are recorded.
LEMMA PointRecordsBase ==
  ASSUME BaseInv, NEW c \in Core, PointRecords(c)
  PROVE  BaseInv'
<1> USE SysDnsAssumption DEF BaseInv, PointRecords, Save, Fails, ReleaseBegins, Step, Goto
<1>0. target[c] \in Service /\ RecordsTarget(c)
  BY PointRecordsTarget
<1> USE DEF RecordsTarget, EntrySet
<1>1. TypeOK'
  <2>1. dns' \in [Service -> Servers] /\ alias' \in BOOLEAN /\ ours' \in BOOLEAN
    BY DEF TypeOK
  <2>2. file' \in Record \cup {None}
    BY <1>0, RecordBuilt DEF TypeOK
  <2>3. prepared' \in [Core -> BOOLEAN] /\ hasAlias' \in [Core -> BOOLEAN] /\ saved' \in [Core -> Saved]
    BY <1>0 DEF TypeOK
  <2>4. current' \in [Core -> Service \cup {None}] /\ target' \in [Core -> Service \cup {None}]
    BY DEF TypeOK
  <2>5. todo' \in [Core -> SUBSET Service]
    BY DEF TypeOK, Listed
  <2>6. up' \in [Core -> {"unborn", "alive", "dead"}] /\ phase' \in [Core -> Phase] /\ pc' \in [Core -> Pc]
    BY SMTT(30) DEF TypeOK, Phase, Pc
  <2>7. due' \in [Core -> BOOLEAN] /\ late' \in [Core -> BOOLEAN] /\ trouble' \in [Core -> BOOLEAN]
    BY Zenon DEF TypeOK
  <2> QED BY <2>1, <2>2, <2>3, <2>4, <2>5, <2>6, <2>7 DEF TypeOK
<1>2. PhaseInv'
  BY DEF PhaseInv, TypeOK, Phase, Pc, Releasing
<1>3. TargetInv'
  BY <1>0 DEF TargetInv, PhaseInv, TypeOK, Following, Releasing, Listed
<1>4. CleanInv'
  <2>1. \A b \in Core, s \in Service : saved'[b][s] # "address"
    BY <1>0 DEF CleanInv
  <2> QED BY <1>0, <2>1 DEF CleanInv, TypeOK
<1> QED BY <1>1, <1>2, <1>3, <1>4

\* A service is pointed at the core.
LEMMA PointsBase ==
  ASSUME BaseInv, NEW c \in Core, Points(c)
  PROVE  BaseInv'
<1> USE SysDnsAssumption DEF BaseInv, Points, Followed, Fails, ReleaseBegins, Step, Goto
<1>1. TypeOK'
  <2>1. dns' \in [Service -> Servers] /\ alias' \in BOOLEAN /\ ours' \in BOOLEAN
    BY DEF TypeOK, Servers
  <2>2. file' \in Record \cup {None}
    BY RecordBuilt DEF TypeOK
  <2>3. prepared' \in [Core -> BOOLEAN] /\ hasAlias' \in [Core -> BOOLEAN] /\ saved' \in [Core -> Saved]
    BY DEF TypeOK
  <2>4. current' \in [Core -> Service \cup {None}] /\ target' \in [Core -> Service \cup {None}]
    BY DEF TypeOK
  <2>5. todo' \in [Core -> SUBSET Service]
    BY DEF TypeOK, Listed
  <2>6. up' \in [Core -> {"unborn", "alive", "dead"}] /\ phase' \in [Core -> Phase] /\ pc' \in [Core -> Pc]
    BY DEF TypeOK, Phase, Pc
  <2>7. due' \in [Core -> BOOLEAN] /\ late' \in [Core -> BOOLEAN] /\ trouble' \in [Core -> BOOLEAN]
    BY Zenon DEF TypeOK
  <2> QED BY <2>1, <2>2, <2>3, <2>4, <2>5, <2>6, <2>7 DEF TypeOK
<1>2. PhaseInv'
  BY DEF PhaseInv, TypeOK, Phase, Pc, Releasing
<1>3. TargetInv'
  BY DEF TargetInv, PhaseInv, TypeOK, Pc, Phase, Saved, Following, Releasing, Listed, Nothing
<1>4. CleanInv'
  BY DEF CleanInv, TypeOK, Record, Saved
<1> QED BY <1>1, <1>2, <1>3, <1>4

\* The previous service is put back.
LEMMA UnpointsBase ==
  ASSUME BaseInv, NEW c \in Core, Unpoints(c)
  PROVE  BaseInv'
<1> USE SysDnsAssumption DEF BaseInv, Unpoints, Followed, Step, Goto
<1>0. current[c] \in Service /\ (UNCHANGED <<dns, saved>> \/ PutsBack(c, current[c]))
  BY UnpointsCurrent
<1> USE DEF PutsBack, EntrySet
<1>1. TypeOK'
  <2>1. dns' \in [Service -> Servers] /\ alias' \in BOOLEAN /\ ours' \in BOOLEAN
    BY <1>0 DEF TypeOK
  <2>2. file' \in Record \cup {None}
    BY RecordBuilt DEF TypeOK
  <2>3. prepared' \in [Core -> BOOLEAN] /\ hasAlias' \in [Core -> BOOLEAN] /\ saved' \in [Core -> Saved]
    BY <1>0 DEF TypeOK
  <2>4. current' \in [Core -> Service \cup {None}] /\ target' \in [Core -> Service \cup {None}]
    BY DEF TypeOK
  <2>5. todo' \in [Core -> SUBSET Service]
    BY DEF TypeOK, Listed
  <2>6. up' \in [Core -> {"unborn", "alive", "dead"}] /\ phase' \in [Core -> Phase] /\ pc' \in [Core -> Pc]
    BY DEF TypeOK, Phase, Pc
  <2>7. due' \in [Core -> BOOLEAN] /\ late' \in [Core -> BOOLEAN] /\ trouble' \in [Core -> BOOLEAN]
    BY Zenon DEF TypeOK
  <2> QED BY <2>1, <2>2, <2>3, <2>4, <2>5, <2>6, <2>7 DEF TypeOK
<1>2. PhaseInv'
  BY DEF PhaseInv, TypeOK, Phase, Pc, Releasing
<1>3. TargetInv'
  BY <1>0 DEF TargetInv, PhaseInv, TypeOK, Releasing, Following
<1>4. CleanInv'
  BY <1>0 DEF CleanInv, TypeOK, Servers
<1> QED BY <1>1, <1>2, <1>3, <1>4

\* The record forgets it.
LEMMA UnpointSavesBase ==
  ASSUME BaseInv, NEW c \in Core, UnpointSaves(c)
  PROVE  BaseInv'
<1> USE SysDnsAssumption DEF BaseInv, UnpointSaves, Save, Followed, Step
<1>1. TypeOK'
  <2>1. dns' \in [Service -> Servers] /\ alias' \in BOOLEAN /\ ours' \in BOOLEAN
    BY DEF TypeOK
  <2>2. file' \in Record \cup {None}
    BY RecordBuilt DEF TypeOK
  <2>3. prepared' \in [Core -> BOOLEAN] /\ hasAlias' \in [Core -> BOOLEAN] /\ saved' \in [Core -> Saved]
    BY DEF TypeOK
  <2>4. current' \in [Core -> Service \cup {None}] /\ target' \in [Core -> Service \cup {None}]
    BY DEF TypeOK
  <2>5. todo' \in [Core -> SUBSET Service]
    BY DEF TypeOK, Listed
  <2>6. up' \in [Core -> {"unborn", "alive", "dead"}] /\ phase' \in [Core -> Phase] /\ pc' \in [Core -> Pc]
    BY DEF TypeOK, Phase, Pc
  <2>7. due' \in [Core -> BOOLEAN] /\ late' \in [Core -> BOOLEAN] /\ trouble' \in [Core -> BOOLEAN]
    BY Zenon DEF TypeOK
  <2> QED BY <2>1, <2>2, <2>3, <2>4, <2>5, <2>6, <2>7 DEF TypeOK
<1>2. PhaseInv'
  BY DEF PhaseInv, TypeOK, Phase, Pc, Releasing
<1>3. TargetInv'
  BY DEF TargetInv, PhaseInv, TypeOK, Pc, Phase, Saved, Following, Releasing, Listed, Nothing
<1>4. CleanInv'
  BY DEF CleanInv, TypeOK, Record, Saved
<1> QED BY <1>1, <1>2, <1>3, <1>4

\* Release begins.
LEMMA ReleaseBase ==
  ASSUME BaseInv, NEW c \in Core, Release(c)
  PROVE  BaseInv'
<1> USE SysDnsAssumption DEF BaseInv, Release, ReleaseBegins, Step, sysVars
<1>1. TypeOK'
  <2>1. dns' \in [Service -> Servers] /\ alias' \in BOOLEAN /\ ours' \in BOOLEAN
    BY DEF TypeOK
  <2>2. file' \in Record \cup {None}
    BY RecordBuilt DEF TypeOK
  <2>3. prepared' \in [Core -> BOOLEAN] /\ hasAlias' \in [Core -> BOOLEAN] /\ saved' \in [Core -> Saved]
    BY DEF TypeOK
  <2>4. current' \in [Core -> Service \cup {None}] /\ target' \in [Core -> Service \cup {None}]
    BY DEF TypeOK
  <2>5. todo' \in [Core -> SUBSET Service]
    BY DEF TypeOK, Listed
  <2>6. up' \in [Core -> {"unborn", "alive", "dead"}] /\ phase' \in [Core -> Phase] /\ pc' \in [Core -> Pc]
    BY DEF TypeOK, Phase, Pc
  <2>7. due' \in [Core -> BOOLEAN] /\ late' \in [Core -> BOOLEAN] /\ trouble' \in [Core -> BOOLEAN]
    BY Zenon DEF TypeOK
  <2> QED BY <2>1, <2>2, <2>3, <2>4, <2>5, <2>6, <2>7 DEF TypeOK
<1>2. PhaseInv'
  BY DEF PhaseInv, TypeOK, Phase, Pc, Releasing
<1>3. TargetInv'
  BY DEF TargetInv, PhaseInv, TypeOK, Pc, Phase, Saved, Following, Releasing, Listed, Nothing
<1>4. CleanInv'
  BY DEF CleanInv, TypeOK, Record, Saved
<1> QED BY <1>1, <1>2, <1>3, <1>4

\* Release puts a service back.
LEMMA ReleaseRestoresBase ==
  ASSUME BaseInv, NEW c \in Core, ReleaseRestores(c)
  PROVE  BaseInv'
<1> USE SysDnsAssumption DEF BaseInv, ReleaseRestores, Step, Goto
<1>0. PICK s \in todo[c] : RestoresOne(c, s)
  BY ReleaseRestoresOne
<1> USE DEF RestoresOne, PutsBack, EntrySet
<1>1. TypeOK'
  <2>1. dns' \in [Service -> Servers] /\ alias' \in BOOLEAN /\ ours' \in BOOLEAN
    BY <1>0 DEF TypeOK
  <2>2. file' \in Record \cup {None}
    BY RecordBuilt DEF TypeOK
  <2>3. prepared' \in [Core -> BOOLEAN] /\ hasAlias' \in [Core -> BOOLEAN] /\ saved' \in [Core -> Saved]
    BY <1>0 DEF TypeOK
  <2>4. current' \in [Core -> Service \cup {None}] /\ target' \in [Core -> Service \cup {None}]
    BY DEF TypeOK
  <2>5. todo' \in [Core -> SUBSET Service]
    BY DEF TypeOK, Listed
  <2>6. up' \in [Core -> {"unborn", "alive", "dead"}] /\ phase' \in [Core -> Phase] /\ pc' \in [Core -> Pc]
    BY DEF TypeOK, Phase, Pc
  <2>7. due' \in [Core -> BOOLEAN] /\ late' \in [Core -> BOOLEAN] /\ trouble' \in [Core -> BOOLEAN]
    BY Zenon DEF TypeOK
  <2> QED BY <2>1, <2>2, <2>3, <2>4, <2>5, <2>6, <2>7 DEF TypeOK
<1>2. PhaseInv'
  BY DEF PhaseInv, TypeOK, Phase, Pc, Releasing
<1>3. TargetInv'
  BY <1>0 DEF TargetInv, PhaseInv, TypeOK, Releasing, Following
<1>4. CleanInv'
  BY <1>0 DEF CleanInv, TypeOK, Servers
<1> QED BY <1>1, <1>2, <1>3, <1>4

\* The record forgets that one.
LEMMA ReleaseSavesBase ==
  ASSUME BaseInv, NEW c \in Core, ReleaseSaves(c)
  PROVE  BaseInv'
<1> USE SysDnsAssumption DEF BaseInv, ReleaseSaves, Save, Step, Goto
<1>1. TypeOK'
  <2>1. dns' \in [Service -> Servers] /\ alias' \in BOOLEAN /\ ours' \in BOOLEAN
    BY DEF TypeOK
  <2>2. file' \in Record \cup {None}
    BY RecordBuilt DEF TypeOK
  <2>3. prepared' \in [Core -> BOOLEAN] /\ hasAlias' \in [Core -> BOOLEAN] /\ saved' \in [Core -> Saved]
    BY DEF TypeOK
  <2>4. current' \in [Core -> Service \cup {None}] /\ target' \in [Core -> Service \cup {None}]
    BY DEF TypeOK
  <2>5. todo' \in [Core -> SUBSET Service]
    BY DEF TypeOK, Listed
  <2>6. up' \in [Core -> {"unborn", "alive", "dead"}] /\ phase' \in [Core -> Phase] /\ pc' \in [Core -> Pc]
    BY DEF TypeOK, Phase, Pc
  <2>7. due' \in [Core -> BOOLEAN] /\ late' \in [Core -> BOOLEAN] /\ trouble' \in [Core -> BOOLEAN]
    BY Zenon DEF TypeOK
  <2> QED BY <2>1, <2>2, <2>3, <2>4, <2>5, <2>6, <2>7 DEF TypeOK
<1>2. PhaseInv'
  BY DEF PhaseInv, TypeOK, Phase, Pc, Releasing
<1>3. TargetInv'
  BY DEF TargetInv, PhaseInv, TypeOK, Pc, Phase, Saved, Following, Releasing, Listed, Nothing
<1>4. CleanInv'
  BY DEF CleanInv, TypeOK, Record, Saved
<1> QED BY <1>1, <1>2, <1>3, <1>4

\* Release removes the alias.
LEMMA ReleaseAliasBase ==
  ASSUME BaseInv, NEW c \in Core, ReleaseAlias(c)
  PROVE  BaseInv'
<1> USE SysDnsAssumption DEF BaseInv, ReleaseAlias, Step, Goto
<1>1. TypeOK'
  BY DEF TypeOK, Phase, Pc, TargetInv, Following
<1>2. PhaseInv'
  BY DEF PhaseInv, TypeOK, Phase, Pc, Releasing
<1>3. TargetInv'
  BY DEF TargetInv, PhaseInv, TypeOK, Pc, Phase, Saved, Following, Releasing, Listed, Nothing
<1>4. CleanInv'
  BY DEF CleanInv, TypeOK, Record, Saved
<1> QED BY <1>1, <1>2, <1>3, <1>4

\* Release ends.
LEMMA ReleaseEndsBase ==
  ASSUME BaseInv, NEW c \in Core, ReleaseEnds(c)
  PROVE  BaseInv'
<1> USE SysDnsAssumption DEF BaseInv, ReleaseEnds, Save, Step, Goto
<1>1. TypeOK'
  <2>1. dns' \in [Service -> Servers] /\ alias' \in BOOLEAN /\ ours' \in BOOLEAN
    BY DEF TypeOK
  <2>2. file' \in Record \cup {None}
    BY RecordBuilt DEF TypeOK
  <2>3. prepared' \in [Core -> BOOLEAN] /\ hasAlias' \in [Core -> BOOLEAN] /\ saved' \in [Core -> Saved]
    BY DEF TypeOK
  <2>4. current' \in [Core -> Service \cup {None}] /\ target' \in [Core -> Service \cup {None}]
    BY DEF TypeOK
  <2>5. todo' \in [Core -> SUBSET Service]
    BY DEF TypeOK, Listed
  <2>6. up' \in [Core -> {"unborn", "alive", "dead"}] /\ phase' \in [Core -> Phase] /\ pc' \in [Core -> Pc]
    BY DEF TypeOK, Phase, Pc
  <2>7. due' \in [Core -> BOOLEAN] /\ late' \in [Core -> BOOLEAN] /\ trouble' \in [Core -> BOOLEAN]
    BY Zenon DEF TypeOK
  <2> QED BY <2>1, <2>2, <2>3, <2>4, <2>5, <2>6, <2>7 DEF TypeOK
<1>2. PhaseInv'
  <2>1. \A b \in Core : b # c => prepared'[b] = prepared[b] /\ pc'[b] = pc[b]
    BY DEF TypeOK
  <2>2. pc'[c] = "idle" /\ phase[c] = "off" /\ ~hasAlias[c] /\ (~prepared'[c] => saved[c] = Nothing \/ ~prepared[c])
    BY DEF TypeOK, PhaseInv, TargetInv, Releasing
  <2>3. up[c] = "alive"
    OBVIOUS
  <2> QED BY <2>1, <2>2, <2>3 DEF PhaseInv, Releasing, TypeOK
<1>3. TargetInv'
  BY DEF TargetInv, PhaseInv, TypeOK, Pc, Phase, Saved, Following, Releasing, Listed, Nothing
<1>4. CleanInv'
  BY DEF CleanInv, TypeOK, Record, Saved
<1> QED BY <1>1, <1>2, <1>3, <1>4

\* The default interface moves.
LEMMA DefaultChangesBase ==
  ASSUME BaseInv, NEW s \in Service \cup {None}, DefaultChanges(s)
  PROVE  BaseInv'
<1> USE DEF BaseInv, DefaultChanges, Registered, ownVars
<1>1. TypeOK'
  BY DEF TypeOK
<1>2. PhaseInv' /\ TargetInv' /\ CleanInv'
  BY DEF PhaseInv, TargetInv, CleanInv, TypeOK
<1> QED BY <1>1, <1>2

\* Every step of every core keeps BaseInv.
LEMMA NextBase == BaseInv /\ [Next]_vars => BaseInv'
<1> SUFFICES ASSUME BaseInv, [Next]_vars PROVE BaseInv' OBVIOUS
<1>1. ASSUME NEW c \in Core, CoreStep(c) PROVE BaseInv'
  BY <1>1, CoreStartsBase, DiesBase, PrepareBase, PrepareSavesBase, PrepareEndsBase, FollowsBase,
     FollowLateBase, PointRecordsBase, PointsBase, UnpointsBase, UnpointSavesBase, ReleaseBase,
     ReleaseRestoresBase, ReleaseSavesBase, ReleaseAliasBase, ReleaseEndsBase DEF CoreStep, Apply, Follow
<1>2. CASE RestoreDns
  BY <1>2, RestoreDnsBase
<1>3. ASSUME NEW s \in Service \cup {None}, DefaultChanges(s) PROVE BaseInv'
  BY <1>3, DefaultChangesBase
<1>4. CASE UNCHANGED vars
  BY <1>4 DEF vars, sysVars, ownVars, runVars, BaseInv, TypeOK, PhaseInv, TargetInv, CleanInv
<1> QED BY <1>1, <1>2, <1>3, <1>4 DEF Next

\* BaseInv holds in every reachable state, overlapping cores or not.
LEMMA BaseInvariant == Spec => []BaseInv
  BY InitBase, NextBase, PTL DEF Spec

\* Every variable keeps its type, whatever fails and whoever dies.
THEOREM TypeCorrect == Spec => []TypeOK
<1>1. BaseInv => TypeOK BY DEF BaseInv
<1> QED BY <1>1, BaseInvariant, PTL

\* A service is pointed at the core only between Apply and Release: no follow goroutine that waited
\* while Release ran does it, and no replay of a record.  Also with cores that overlap.
THEOREM LateFollowsDoNothing == Spec => NoFollowAfterRelease
<1> DEFINE Late == \A s \in Service : dns[s] # "address" /\ dns'[s] = "address" =>
                     \E c \in Core : Registered(c)
<1>1. BaseInv /\ [Next]_vars => [Late]_vars
  <2> SUFFICES ASSUME BaseInv, [Next]_vars, NEW s \in Service, dns[s] # "address", dns'[s] = "address"
               PROVE  \E c \in Core : Registered(c)
    BY DEF BaseInv
  <2> USE DEF BaseInv
  <2>1. ASSUME NEW done \in SUBSET Restorable, NEW gone \in BOOLEAN, NEW ok \in BOOLEAN,
               RestoreStale(done, gone, ok)
        PROVE  FALSE
    BY <2>1, RestoreTypes
  <2>2. ASSUME NEW c \in Core, Points(c) PROVE Registered(c)
    BY <2>2 DEF Points, Step, Registered, PhaseInv
  <2>3. ASSUME NEW c \in Core, Unpoints(c) PROVE FALSE
    <3>1. current[c] \in Service /\ saved[c][current[c]] # "address"
      BY <2>3 DEF Unpoints, Step, PhaseInv, CleanInv, TypeOK
    <3> QED BY <2>3, <3>1 DEF Unpoints, TypeOK
  <2>4. ASSUME NEW c \in Core, ReleaseRestores(c) PROVE FALSE
    <3>1. PICK t \in todo[c] : dns' = [dns EXCEPT ![t] = saved[c][t]] \/ UNCHANGED dns
      BY <2>4 DEF ReleaseRestores
    <3>2. t \in Service /\ saved[c][t] # "address"
      BY CleanInv DEF CleanInv, TypeOK
    <3> QED BY <3>1, <3>2 DEF TypeOK
  <2>5. \/ UNCHANGED dns
        \/ \E done \in SUBSET Restorable, gone \in BOOLEAN, ok \in BOOLEAN : RestoreStale(done, gone, ok)
        \/ \E c \in Core : Points(c) \/ Unpoints(c) \/ ReleaseRestores(c)
    <3>1. ASSUME NEW c \in Core, CoreStep(c), ~CoreStarts(c), ~Prepare(c), ~Points(c), ~Unpoints(c),
                 ~ReleaseRestores(c)
          PROVE  UNCHANGED dns
      BY <3>1 DEF CoreStep, sysVars, Dies, PrepareSaves, PrepareEnds, Apply, Follow, Follows, FollowLate,
         PointRecords, UnpointSaves, Release, ReleaseSaves, ReleaseAlias, ReleaseEnds
    <3>2. ASSUME NEW c \in Core, CoreStarts(c) \/ Prepare(c) \/ RestoreDns
          PROVE  \E done \in SUBSET Restorable, gone \in BOOLEAN, ok \in BOOLEAN : RestoreStale(done, gone, ok)
      BY <3>2 DEF CoreStarts, Prepare, RestoreDns
    <3>3. CASE RestoreDns
      BY <3>3 DEF RestoreDns
    <3>4. CASE (\E t \in Service \cup {None} : DefaultChanges(t)) \/ UNCHANGED vars
      BY <3>4 DEF DefaultChanges, vars, sysVars
    <3> QED BY <3>1, <3>2, <3>3, <3>4 DEF Next
  <2> QED BY <2>1, <2>2, <2>3, <2>4, <2>5
<1> QED BY <1>1, BaseInvariant, PTL DEF Spec, NoFollowAfterRelease

-----------------------------------------------------------------------------
(* Cores that do not overlap: the lemmas about a step of the one that lives. *)

\* The record is this core's or whose it was.
FileKept(c) == file' # None => file'.pid = c \/ (file # None /\ file'.pid = file.pid)

\* A core that does not live has nothing to keep.
LEMMA QuietCore ==
  ASSUME BaseInv', NEW b \in Core, up'[b] # "alive"
  PROVE  Own(b)' /\ Sync(b)' /\ Pointed(b)' /\ Busy(b)'
<1>1. /\ saved'[b] = Nothing /\ phase'[b] = "off" /\ pc'[b] = "idle" /\ current'[b] = None
  BY DEF BaseInv, PhaseInv
<1>2. Own(b)' /\ Sync(b)' /\ Pointed(b)'
  BY <1>1 DEF Own, Sync, Pointed, Following
<1>3. Busy(b)'
  BY <1>1 DEF Busy, Nothing
<1> QED BY <1>2, <1>3

\* What a step of the core that lives has to show.
LEMMA CoreKeeps ==
  ASSUME IInv, NEW c \in Core, up[c] = "alive", up' = up \/ up' = [up EXCEPT ![c] = "dead"], FileKept(c),
         BaseInv', UserInv', UndoInv', Own(c)', Sync(c)', Pointed(c)', Busy(c)'
  PROVE  IInv'
<1>1. up \in [Core -> {"unborn", "alive", "dead"}] /\ (file # None => file.pid \in Core)
  BY RecordParts DEF IInv, BaseInv, TypeOK
<1>2. \A b \in Core : b # c => up'[b] = up[b] /\ up[b] # "alive"
  BY <1>1 DEF IInv, OneInv
<1>3. up'[c] # "unborn"
  BY <1>1
<1>4. OneInv'
  <2>1. \A b \in Core : up'[b] = "alive" => b = c
    BY <1>2
  <2>2. ASSUME file' # None PROVE up'[file'.pid] # "unborn"
    BY <1>1, <1>2, <1>3, <2>2 DEF FileKept, IInv, OneInv
  <2> QED BY <2>1, <2>2 DEF OneInv
<1>5. \A b \in Core : Own(b)' /\ Sync(b)' /\ Pointed(b)' /\ Busy(b)'
  BY <1>2, QuietCore
<1> QED BY <1>4, <1>5 DEF IInv, OwnInv, SyncInv, FollowInv

\* The part of the invariant about core c.
LEMMA CoreInv ==
  ASSUME IInv, NEW c \in Core
  PROVE  Own(c) /\ Sync(c) /\ Pointed(c) /\ Busy(c)
  BY DEF IInv, OwnInv, SyncInv, FollowInv

\* None of the user's choices is the core's address, or no choice.
LEMMA UserChoice ==
  ASSUME BaseInv, NEW s \in Service
  PROVE  user[s] # None /\ user[s] # "address" /\ user[s] \in Servers
  BY SysDnsAssumption DEF BaseInv, TypeOK, Choice, Servers

\* What the core owns before the step undoes what there is after it.
LEMMA OwnUndoes ==
  ASSUME NEW c \in Core, Own(c), up[c] = "alive", prepared[c] \/ ~Stale
  PROVE  /\ \A s \in Service : dns[s] # user[s] => saved[c][s] = user[s]
         /\ ours => hasAlias[c]
  BY DEF Own

\* saveLocked: the record is built, or stays.
Saves(c) ==
  /\ file' # None /\ file'.pid = c /\ file'.alias = hasAlias'[c]
  /\ file'.dns = saved'[c]
LEMMA SaveBuilds ==
  ASSUME NEW c \in Core, BaseInv', NEW ok \in BOOLEAN, Save(c, ok)
  PROVE  Saves(c) \/ file' = file
<1>1. hasAlias'[c] \in BOOLEAN /\ saved'[c] \in Saved
  BY DEF BaseInv, TypeOK
<1> QED BY <1>1, RecordBuilt DEF Save, Saves

\* A successful one.
LEMMA SaveSaves ==
  ASSUME NEW c \in Core, BaseInv', Save(c, TRUE)
  PROVE  Saves(c)
<1>1. hasAlias'[c] \in BOOLEAN /\ saved'[c] \in Saved
  BY DEF BaseInv, TypeOK
<1> QED BY <1>1, RecordBuilt DEF Save, Saves

\* A save of what the core owns keeps the record true.
LEMMA SaveKeeps ==
  ASSUME IInv, NEW c \in Core, up[c] = "alive", prepared[c],
         UNCHANGED <<user, dns, ours, hasAlias, saved>>, Saves(c) \/ file' = file
  PROVE  UserInv' /\ UndoInv' /\ FileKept(c)
<1>1. /\ \A s \in Service : dns[s] # user[s] => saved[c][s] = user[s]
      /\ ours => hasAlias[c]
  BY CoreInv, OwnUndoes
<1>2. CASE Saves(c)
  <2>1. UserInv'
    BY <1>2 DEF Saves, IInv, UserInv
  <2>2. UndoInv'
    BY <1>1, <1>2 DEF Saves, UndoInv
  <2> QED BY <1>2, <2>1, <2>2 DEF FileKept, Saves
<1>3. CASE file' = file
  BY <1>3 DEF IInv, UserInv, UndoInv, FileKept
<1> QED BY <1>2, <1>3

\* A step that leaves the system and what the core owns alone.
LEMMA SameOwned ==
  ASSUME IInv, NEW c \in Core, UNCHANGED <<user, dns, ours, file, up, prepared, hasAlias, saved>>
  PROVE  UserInv' /\ UndoInv' /\ FileKept(c) /\ Own(c)'
<1>1. Own(c)
  BY CoreInv
<1> QED BY <1>1 DEF IInv, UserInv, UndoInv, FileKept, Own, Stale

\* The way out of an error.
LEMMA FailsKeeps ==
  ASSUME IInv, NEW c \in Core, Fails(c), UNCHANGED <<dns, file, hasAlias, saved>>, pc[c] # "resave"
  PROVE  Sync(c)' /\ Pointed(c)' /\ Busy(c)'
<1>1. /\ trouble'[c] /\ pc'[c] \in {"idle", "release"}
      /\ phase[c] = "on" => phase'[c] = "on" /\ current'[c] = current[c]
      /\ phase[c] # "on" => phase'[c] = "off" /\ current'[c] = None
  BY DEF Fails, ReleaseBegins, IInv, BaseInv, TypeOK
<1>2. Sync(c) /\ Pointed(c)
  BY CoreInv
<1>3. Sync(c)'
  BY <1>1, <1>2 DEF Sync
<1>4. Pointed(c)'
  BY <1>1, <1>2 DEF Pointed, Following
<1> QED BY <1>1, <1>3, <1>4 DEF Busy

\* What restoreStaleLocked leaves can be undone, and the alias of a dead core is no longer ours.
Undone(done) ==
  /\ \A s \in Service : dns'[s] \in {user[s], "address"}
  /\ \A s \in Service : dns'[s] # user[s] => dns[s] # user[s] /\ s \notin done
  /\ \A s \in Service : dns'[s] # user[s] => file' # None /\ file'.dns[s] = user[s]
  /\ file' # None => file # None /\ file'.pid = file.pid
  /\ file' # None => \A s \in Service : file'.dns[s] \in {user[s], None}
  /\ Stale => ~ours'
  /\ ~Stale => UNCHANGED <<dns, alias, ours, file>>
LEMMA RestoreUndoes ==
  ASSUME IInv, NEW done \in SUBSET Restorable, NEW gone \in BOOLEAN, NEW ok \in BOOLEAN,
         RestoreStale(done, gone, ok)
  PROVE  Undone(done)
<1>0. BaseInv /\ UserInv /\ UndoInv
  BY DEF IInv
<1>1. CASE ~Stale
  <2>1. UNCHANGED <<dns, alias, ours, file>>
    BY <1>1 DEF RestoreStale
  <2>2. done = {}
    BY <1>1 DEF Restorable
  <2> QED BY <1>0, <1>1, <2>1, <2>2 DEF UserInv, UndoInv, Undone
<1>2. CASE Stale
  <2> DEFINE rest == [s \in Service |-> IF s \in done THEN None ELSE file.dns[s]]
  <2>0. file # None /\ done \subseteq Listed(file.dns)
    BY <1>2 DEF Restorable, Stale
  <2>1. done \subseteq Service /\ \A s \in done : file.dns[s] = user[s]
    BY <1>0, <2>0 DEF Listed, UserInv
  <2>2. \A s \in Service : dns'[s] = IF s \in done THEN user[s] ELSE dns[s]
    BY <1>2, <2>1 DEF RestoreStale
  <2>3. \A s \in Service : dns'[s] # user[s] => dns[s] # user[s] /\ s \notin done /\ file.dns[s] = user[s]
    BY <1>0, <2>2 DEF UndoInv
  <2>4. \/ file' = file
        \/ file' = None /\ done = Listed(file.dns)
        \/ file' = [pid |-> file.pid, alias |-> FALSE, dns |-> rest]
    BY <1>2 DEF RestoreStale
  <2>5. ASSUME file' = None PROVE \A s \in Service : dns'[s] = user[s]
    <3>1. [pid |-> file.pid, alias |-> FALSE, dns |-> rest] # None
      <4>1. file.pid \in Core /\ file.dns \in Saved
        BY <1>0, <2>0, RecordParts DEF BaseInv, TypeOK
      <4>2. rest \in Saved
        BY <4>1 DEF Saved
      <4> HIDE DEF rest
      <4> QED BY <4>1, <4>2, RecordBuilt
    <3>2. done = Listed(file.dns)
      BY <2>0, <2>4, <2>5, <3>1
    <3>3. \A s \in Service : file.dns[s] = user[s] => s \in done
      BY <1>0, <3>2, UserChoice DEF Listed
    <3> QED BY <2>3, <3>3
  <2>6. ASSUME file' # None PROVE
          /\ file'.pid = file.pid
          /\ \A s \in Service : file'.dns[s] \in {file.dns[s], None}
          /\ \A s \in Service : s \notin done => file'.dns[s] = file.dns[s]
    <3>1. CASE file' = file
      BY <3>1
    <3>2. CASE file' = [pid |-> file.pid, alias |-> FALSE, dns |-> rest]
      <4>1. file'.pid = file.pid /\ file'.dns = rest
        BY <3>2
      <4> QED BY <4>1
    <3> QED BY <2>4, <2>6, <3>1, <3>2
  <2>7. ~ours'
    BY <1>0, <1>2 DEF RestoreStale, UndoInv
  <2>8. file' # None => \A s \in Service : file'.dns[s] \in {user[s], None}
    BY <1>0, <2>0, <2>6 DEF UserInv
  <2>9. \A s \in Service : dns'[s] \in {user[s], "address"}
    BY <1>0, <2>2 DEF UserInv
  <2>10. \A s \in Service : dns'[s] # user[s] => file' # None /\ file'.dns[s] = user[s]
    BY <2>3, <2>5, <2>6
  <2> QED BY <1>2, <2>0, <2>3, <2>6, <2>7, <2>8, <2>9, <2>10 DEF Undone
<1> QED BY <1>1, <1>2

\* Before the first core starts.
LEMMA InitIInv == Init => IInv
<1> SUFFICES ASSUME Init PROVE IInv OBVIOUS
<1>1. BaseInv BY InitBase
<1>2. OneInv /\ UserInv /\ UndoInv
  BY SysDnsAssumption DEF Init, OneInv, UserInv, UndoInv, Nothing
<1>3. OwnInv /\ SyncInv
  BY SysDnsAssumption DEF Init, OwnInv, SyncInv, Own, Sync
<1>4. FollowInv
  BY SysDnsAssumption DEF Init, FollowInv, Pointed, Busy, Following, Nothing
<1> QED BY <1>1, <1>2, <1>3, <1>4 DEF IInv

\* A core starts once the one before it is gone.
LEMMA CoreStartsStep ==
  ASSUME ~Overlap, IInv, NEW c \in Core, CoreStarts(c)
  PROVE  IInv'
<1>1. PICK done \in SUBSET Restorable, gone \in BOOLEAN, ok \in BOOLEAN : RestoreStale(done, gone, ok)
  BY DEF CoreStarts
<1>2. BaseInv' /\ BaseInv
  BY CoreStartsBase DEF IInv
<1>3. Undone(done)
  BY <1>1, RestoreUndoes
<1>4. /\ up \in [Core -> {"unborn", "alive", "dead"}] /\ up[c] = "unborn"
      /\ up' = [up EXCEPT ![c] = "alive"] /\ \A b \in Core : up[b] # "alive"
      /\ UNCHANGED <<user, saved, prepared, hasAlias, phase, pc, current>>
  BY <1>2 DEF BaseInv, TypeOK, CoreStarts, ownVars
<1>5. file # None => file.pid \in Core /\ up[file.pid] = "dead"
  BY <1>2, <1>4, RecordParts DEF BaseInv, TypeOK, IInv, OneInv
<1>6. file' # None => file'.pid \in Core /\ file'.pid # c /\ up'[file'.pid] = "dead"
  BY <1>3, <1>4, <1>5 DEF Undone
<1>7. OneInv'
  BY <1>4, <1>6 DEF OneInv
<1>8. ~ours'
  <2>1. CASE file = None
    BY <1>3, <2>1 DEF Undone, Stale, IInv, UndoInv
  <2>2. CASE file # None
    BY <1>3, <1>5, <2>2 DEF Undone, Stale
  <2> QED BY <2>1, <2>2
<1>9. UserInv'
  BY <1>3, <1>4 DEF UserInv, IInv, Undone
<1>10. UndoInv'
  BY <1>3, <1>4, <1>8 DEF UndoInv, Undone
<1>11. ~prepared[c] /\ saved[c] = Nothing /\ phase[c] = "off" /\ pc[c] = "idle" /\ current[c] = None
  BY <1>2, <1>4 DEF BaseInv, PhaseInv
<1>12. Own(c)'
  <2> SUFFICES ASSUME ~Stale' PROVE \A s \in Service : dns'[s] = user'[s]
    BY <1>4, <1>8, <1>11 DEF Own
  <2>1. file' = None
    BY <1>6 DEF Stale
  <2> QED BY <1>3, <1>4, <2>1 DEF Undone
<1>13. Sync(c)' /\ Pointed(c)' /\ Busy(c)'
  BY <1>4, <1>11 DEF Sync, Pointed, Busy, Following, Nothing
<1>14. \A b \in Core : Own(b)' /\ Sync(b)' /\ Pointed(b)' /\ Busy(b)'
  BY <1>2, <1>4, <1>12, <1>13, QuietCore
<1> QED BY <1>2, <1>7, <1>9, <1>10, <1>14 DEF IInv, OwnInv, SyncInv, FollowInv

\* --restore-dns, also while a core lives that has not saved its own record yet.
LEMMA RestoreDnsStep ==
  ASSUME IInv, RestoreDns
  PROVE  IInv'
<1>1. PICK done \in SUBSET Restorable, gone \in BOOLEAN, ok \in BOOLEAN : RestoreStale(done, gone, ok)
  BY DEF RestoreDns
<1>2. BaseInv' /\ BaseInv
  BY RestoreDnsBase DEF IInv
<1>3. Undone(done)
  BY <1>1, RestoreUndoes
<1>4. Stale /\ UNCHANGED <<user, up, prepared, hasAlias, saved, phase, pc, current, todo, target, due, trouble>>
  BY DEF RestoreDns, ownVars, runVars
<1>5. OneInv'
  BY <1>3, <1>4 DEF Undone, IInv, OneInv
<1>6. UserInv'
  BY <1>3, <1>4 DEF Undone, IInv, UserInv
<1>7. UndoInv'
  BY <1>3, <1>4 DEF Undone, UndoInv
<1>8. ASSUME NEW c \in Core PROVE Own(c)' /\ Sync(c)' /\ Pointed(c)' /\ Busy(c)'
  <2>0. Own(c) /\ Sync(c) /\ Busy(c)
    BY CoreInv
  <2>1. ~(phase[c] \in {"prepared", "applying", "on"} \/ pc[c] = "alias")
    <3> SUFFICES ASSUME phase[c] \in {"prepared", "applying", "on"} \/ pc[c] = "alias" PROVE FALSE
      OBVIOUS
    <3>1. up[c] = "alive"
      BY <1>2 DEF BaseInv, PhaseInv
    <3> QED BY <1>4, <2>0, <3>1 DEF Sync, Stale
  <2>2. Own(c)'
    <3> SUFFICES ASSUME up[c] = "alive", prepared[c] \/ ~Stale'
                 PROVE  \A s \in Service : dns'[s] # user[s] => saved[c][s] = user[s]
      BY <1>3, <1>4 DEF Own, Undone
    <3>1. CASE prepared[c]
      BY <1>3, <2>0, <3>1 DEF Own, Undone
    <3>2. CASE ~Stale'
      <4>1. file' = None
        BY <1>3, <1>4, <3>2 DEF Stale, Undone
      <4> QED BY <1>3, <4>1 DEF Undone
    <3> QED BY <3>1, <3>2
  <2>3. Sync(c)'
    BY <1>4, <2>1 DEF Sync
  <2>4. current[c] = None /\ pc[c] \notin Following
    BY <1>2, <2>1 DEF BaseInv, PhaseInv, Following
  <2>5. Pointed(c)'
    BY <1>4, <2>1, <2>4 DEF Pointed, Following
  <2>6. Busy(c)'
    BY <1>4, <2>0 DEF Busy
  <2> QED BY <2>2, <2>3, <2>5, <2>6
<1> QED BY <1>2, <1>5, <1>6, <1>7, <1>8 DEF IInv, OwnInv, SyncInv, FollowInv

\* Prepare: the core remembers what it could not put back.
LEMMA PrepareStep ==
  ASSUME IInv, NEW c \in Core, Prepare(c)
  PROVE  IInv'
<1>1. PICK done \in SUBSET Restorable, gone \in BOOLEAN, ok \in BOOLEAN :
        /\ RestoreStale(done, gone, ok)
        /\ saved' = [saved EXCEPT ![c] = [s \in Service |-> IF s \in Restorable \ done THEN file.dns[s]
                                                            ELSE saved[c][s]]]
        /\ trouble' = [trouble EXCEPT ![c] = trouble[c] \/ done # Restorable]
  BY DEF Prepare
<1>2. BaseInv' /\ BaseInv
  BY PrepareBase DEF IInv
<1>3. Undone(done)
  BY <1>1, RestoreUndoes
<1>4. \A s \in Restorable : Stale /\ s \in Service /\ file.dns[s] = user[s]
  BY DEF Restorable, Listed, Stale, IInv, UserInv
<1>5. /\ \A b \in Core : b # c => saved'[b] = saved[b]
      /\ \A s \in Service : saved'[c][s] = IF s \in Restorable \ done THEN user[s] ELSE saved[c][s]
  BY <1>1, <1>2, <1>4 DEF BaseInv, TypeOK
<1>6. /\ up[c] = "alive" /\ phase[c] = "off" /\ pc[c] = "idle"
      /\ hasAlias'[c] = (hasAlias[c] \/ ~alias')
      /\ phase'[c] = "preparing" /\ pc'[c] = "save"
      /\ UNCHANGED <<user, up, current, todo>>
  BY <1>2 DEF Prepare, Step, Goto, BaseInv, TypeOK
<1>7. Own(c) /\ Busy(c)
  BY CoreInv
<1>8. FileKept(c)
  BY <1>3 DEF Undone, FileKept
<1>9. UserInv'
  BY <1>3, <1>5, <1>6 DEF UserInv, IInv, Undone
<1>10. UndoInv'
  <2>1. ours' => file' # None /\ file'.alias
    BY <1>3 DEF IInv, UndoInv, Undone
  <2> QED BY <1>3, <1>6, <2>1 DEF UndoInv, Undone
<1>11. Own(c)'
  <2>1. ours' => hasAlias'[c]
    BY <1>3, <1>6, <1>7 DEF Own, Undone
  <2>2. ASSUME NEW s \in Service, dns'[s] # user[s] PROVE saved'[c][s] = user[s]
    <3>1. dns[s] # user[s] /\ s \notin done
      BY <1>3, <2>2 DEF Undone
    <3>2. CASE Stale
      <4>1. s \in Restorable
        BY <1>2, <3>1, <3>2, UserChoice DEF IInv, UndoInv, Restorable, Listed
      <4> QED BY <1>5, <3>1, <4>1
    <3>3. CASE ~Stale
      BY <1>4, <1>5, <1>6, <1>7, <3>1, <3>3 DEF Own
    <3> QED BY <3>2, <3>3
  <2> QED BY <1>6, <2>1, <2>2 DEF Own
<1>12. Sync(c)'
  BY <1>6 DEF Sync
<1>13. current[c] = None /\ todo[c] = {}
  BY <1>2, <1>6 DEF BaseInv, PhaseInv, TargetInv
<1>14. Pointed(c)'
  BY <1>6, <1>13 DEF Pointed, Following
<1>15. Busy(c)'
  <2>1. ~trouble'[c] => ~trouble[c] /\ done = Restorable
    BY <1>1, <1>2 DEF BaseInv, TypeOK
  <2> QED BY <1>2, <1>5, <1>6, <1>7, <1>13, <2>1, SysDnsAssumption DEF Busy
<1> QED BY <1>2, <1>6, <1>8, <1>9, <1>10, <1>11, <1>12, <1>14, <1>15, CoreKeeps

\* A core dies: nothing changes but what it remembers.
LEMMA DiesStep ==
  ASSUME IInv, NEW c \in Core, Dies(c)
  PROVE  IInv'
<1>1. BaseInv' /\ BaseInv
  BY DiesBase DEF IInv
<1>2. up[c] = "alive" /\ up' = [up EXCEPT ![c] = "dead"] /\ UNCHANGED <<user, dns, ours, file>>
  BY DEF Dies, sysVars
<1>3. up'[c] # "alive"
  BY <1>1, <1>2 DEF BaseInv, TypeOK
<1>4. \A b \in Core : saved'[b] \in {saved[b], Nothing}
  BY <1>1 DEF Dies, BaseInv, TypeOK
<1>5. UserInv'
  BY <1>2, <1>4 DEF UserInv, IInv, Nothing
<1>6. UndoInv' /\ FileKept(c)
  BY <1>2 DEF UndoInv, IInv, FileKept
<1> QED BY <1>1, <1>2, <1>3, <1>5, <1>6, QuietCore, CoreKeeps

\* Prepare saves the record.
LEMMA PrepareSavesStep ==
  ASSUME IInv, NEW c \in Core, PrepareSaves(c)
  PROVE  IInv'
<1>1. BaseInv' /\ BaseInv
  BY PrepareSavesBase DEF IInv
<1>2. up[c] = "alive" /\ pc[c] = "save" /\ UNCHANGED <<user, dns, ours, up, prepared, hasAlias, saved>>
  BY DEF PrepareSaves, Step
<1>3. prepared[c] /\ phase[c] = "preparing" /\ current[c] = None
  BY <1>1, <1>2 DEF BaseInv, PhaseInv
<1>4. Own(c) /\ Busy(c)
  BY CoreInv
<1>5. Own(c)'
  BY <1>2, <1>3, <1>4 DEF Own
<1>6. CASE Save(c, TRUE) /\ Goto(c, "alias") /\ UNCHANGED <<current, phase, todo, trouble>>
  <2>1. Saves(c)
    BY <1>1, <1>6, SaveSaves
  <2>2. pc'[c] = "alias"
    BY <1>1, <1>6 DEF Goto, BaseInv, TypeOK
  <2>3. UserInv' /\ UndoInv' /\ FileKept(c)
    BY <1>2, <1>3, <2>1, SaveKeeps
  <2>4. Sync(c)'
    BY <2>1 DEF Sync, Saves
  <2>5. Pointed(c)'
    BY <1>3, <1>6, <2>2 DEF Pointed, Following
  <2>6. Busy(c)'
    BY <1>2, <1>4, <1>6, <2>2 DEF Busy
  <2> QED BY <1>1, <1>2, <1>5, <2>3, <2>4, <2>5, <2>6, CoreKeeps
<1>7. CASE Save(c, FALSE) /\ Fails(c)
  <2>1. UNCHANGED file
    BY <1>7 DEF Save
  <2>2. UserInv' /\ UndoInv' /\ FileKept(c)
    BY <1>2, <2>1, SameOwned
  <2>3. Sync(c)' /\ Pointed(c)' /\ Busy(c)'
    BY <1>2, <1>7, <2>1, FailsKeeps
  <2> QED BY <1>1, <1>2, <1>5, <2>2, <2>3, CoreKeeps
<1> QED BY <1>6, <1>7 DEF PrepareSaves

\* Prepare ends: the alias is added only when the record has it.
LEMMA PrepareEndsStep ==
  ASSUME IInv, NEW c \in Core, PrepareEnds(c)
  PROVE  IInv'
<1>1. BaseInv' /\ BaseInv
  BY PrepareEndsBase DEF IInv
<1>2. /\ up[c] = "alive" /\ pc[c] = "alias"
      /\ UNCHANGED <<user, dns, file, up, prepared, hasAlias, saved>>
      /\ ours' => ours \/ hasAlias[c]
  BY DEF PrepareEnds, Step
<1>3. prepared[c] /\ phase[c] = "preparing" /\ current[c] = None
  BY <1>1, <1>2 DEF BaseInv, PhaseInv
<1>4. Own(c) /\ Sync(c) /\ Busy(c)
  BY CoreInv
<1>5. Own(c)'
  BY <1>2, <1>3, <1>4 DEF Own
<1>6. UserInv' /\ UndoInv' /\ FileKept(c)
  BY <1>2, <1>4 DEF IInv, UserInv, UndoInv, FileKept, Sync
<1>7. CASE phase' = [phase EXCEPT ![c] = "prepared"] /\ Goto(c, "idle") /\ UNCHANGED <<current, todo, trouble>>
  <2>1. phase'[c] = "prepared" /\ pc'[c] = "idle"
    BY <1>1, <1>7 DEF Goto, BaseInv, TypeOK
  <2>2. Sync(c)'
    BY <1>2, <1>4 DEF Sync
  <2>3. Pointed(c)'
    BY <1>3, <1>7, <2>1 DEF Pointed, Following
  <2>4. Busy(c)'
    BY <1>2, <1>4, <1>7, <2>1 DEF Busy
  <2> QED BY <1>1, <1>2, <1>5, <1>6, <2>2, <2>3, <2>4, CoreKeeps
<1>8. CASE Fails(c)
  <2>1. Sync(c)' /\ Pointed(c)' /\ Busy(c)'
    BY <1>2, <1>8, FailsKeeps
  <2> QED BY <1>1, <1>2, <1>5, <1>6, <2>1, CoreKeeps
<1> QED BY <1>7, <1>8 DEF PrepareEnds

\* followLocked chooses where to go.
LEMMA FollowsStep ==
  ASSUME IInv, NEW c \in Core, Step(c, "idle"), phase[c] = "prepared" \/ due[c], Follows(c)
  PROVE  IInv'
<1>1. BaseInv' /\ BaseInv
  BY FollowsBase DEF IInv
<1>2. /\ up[c] = "alive" /\ pc[c] = "idle"
      /\ UNCHANGED <<user, dns, ours, deflt, file, up, prepared, hasAlias, saved>>
  BY DEF Follows, Step, sysVars
<1>3. phase[c] \in {"prepared", "on"}
  BY <1>1, <1>2 DEF BaseInv, PhaseInv
<1>4. Sync(c) /\ Pointed(c) /\ Busy(c)
  BY CoreInv
<1>5. UserInv' /\ UndoInv' /\ FileKept(c) /\ Own(c)'
  BY <1>2, SameOwned
<1>6. Sync(c)'
  BY <1>2, <1>3, <1>4 DEF Sync
<1>7. CASE deflt \in {None, current[c]} /\ Followed(c, current[c]) /\ UNCHANGED <<todo, trouble>>
  <2>1. pc'[c] = "idle" /\ current'[c] = current[c]
    BY <1>1, <1>7 DEF Followed, BaseInv, TypeOK
  <2>2. Pointed(c)'
    BY <1>2, <1>4, <1>7, <2>1 DEF Pointed, Following
  <2>3. Busy(c)'
    BY <1>2, <1>4, <1>7, <2>1 DEF Busy
  <2> QED BY <1>1, <1>2, <1>5, <1>6, <2>2, <2>3, CoreKeeps
<1>8. CASE target' = [target EXCEPT ![c] = deflt] /\ Goto(c, "record") /\ UNCHANGED <<current, todo, trouble>>
  <2>1. pc'[c] = "record" /\ target'[c] = deflt
    BY <1>1, <1>8 DEF Goto, BaseInv, TypeOK
  <2>2. Pointed(c)'
    BY <1>2, <1>4, <1>8, <2>1 DEF Pointed
  <2>3. Busy(c)'
    BY <1>2, <1>4, <1>8, <2>1 DEF Busy
  <2> QED BY <1>1, <1>2, <1>5, <1>6, <2>2, <2>3, CoreKeeps
<1>9. CASE /\ trouble' = [trouble EXCEPT ![c] = TRUE]
           /\ IF phase[c] = "on" THEN UNCHANGED <<current, phase, pc>> ELSE ReleaseBegins(c)
  <2>1. /\ trouble'[c] /\ pc'[c] \in {"idle", "release"}
        /\ current'[c] # None => current'[c] = current[c]
    BY <1>1, <1>2, <1>9 DEF ReleaseBegins, BaseInv, TypeOK
  <2>2. Pointed(c)'
    BY <1>2, <1>4, <2>1 DEF Pointed, Following
  <2>3. Busy(c)'
    BY <2>1 DEF Busy
  <2> QED BY <1>1, <1>2, <1>5, <1>6, <2>2, <2>3, CoreKeeps
<1> QED BY <1>7, <1>8, <1>9 DEF Follows

\* A late one does nothing.
LEMMA FollowLateStep ==
  ASSUME IInv, NEW c \in Core, FollowLate(c)
  PROVE  IInv'
<1>1. BaseInv' /\ BaseInv
  BY FollowLateBase DEF IInv
<1>2. /\ up[c] = "alive"
      /\ UNCHANGED <<sysVars, ownVars, up, phase, pc, due, trouble>>
  BY DEF FollowLate, Step
<1>3. Own(c)' /\ UserInv' /\ UndoInv' /\ FileKept(c)
  BY <1>2, SameOwned DEF sysVars, ownVars
<1>4. Sync(c)' /\ Pointed(c)' /\ Busy(c)'
  BY <1>2, CoreInv DEF Sync, Pointed, Busy, sysVars, ownVars
<1> QED BY <1>1, <1>2, <1>3, <1>4, CoreKeeps

\* The servers remembered and recorded are the user's.
LEMMA PointRecordsStep ==
  ASSUME IInv, NEW c \in Core, PointRecords(c)
  PROVE  IInv'
<1>1. BaseInv' /\ BaseInv
  BY PointRecordsBase DEF IInv
<1>2. /\ up[c] = "alive" /\ pc[c] = "record"
      /\ UNCHANGED <<user, dns, ours, deflt, up, prepared, hasAlias, target>>
  BY DEF PointRecords, Step
<1>3. prepared[c] /\ phase[c] \in {"applying", "on"}
  BY <1>1, <1>2 DEF BaseInv, PhaseInv
<1>4. Own(c) /\ Sync(c) /\ Pointed(c) /\ Busy(c)
  BY CoreInv
<1>5. target[c] \in Service /\ RecordsTarget(c)
  BY <1>1, PointRecordsTarget
<1>6. \/ Goto(c, "point") /\ UNCHANGED <<current, phase, todo, due, trouble>>
      \/ UNCHANGED <<saved, file>> /\ Fails(c)
  BY DEF PointRecords
<1>7. CASE UNCHANGED <<saved, file>> /\ Fails(c)
  <2>1. UserInv' /\ UndoInv' /\ FileKept(c) /\ Own(c)'
    BY <1>2, <1>7, SameOwned
  <2>2. Sync(c)' /\ Pointed(c)' /\ Busy(c)'
    BY <1>2, <1>7, FailsKeeps
  <2> QED BY <1>1, <1>2, <2>1, <2>2, CoreKeeps
<1>8. CASE Goto(c, "point") /\ UNCHANGED <<current, phase, todo, due, trouble>>
  <2>1. pc'[c] = "point"
    BY <1>1, <1>8 DEF Goto, BaseInv, TypeOK
  <2>2. Pointed(c)'
    BY <1>2, <1>4, <1>8, <2>1 DEF Pointed, Following
  <2>3. CASE UNCHANGED <<saved, file>>
    <3>1. UserInv' /\ UndoInv' /\ FileKept(c) /\ Own(c)'
      BY <1>2, <2>3, SameOwned
    <3>2. Sync(c)'
      BY <1>2, <1>3, <1>4, <2>3 DEF Sync
    <3>3. Busy(c)'
      BY <1>2, <1>4, <1>8, <2>1, <2>3 DEF Busy
    <3> QED BY <1>1, <1>2, <2>2, <3>1, <3>2, <3>3, CoreKeeps
  <2>4. CASE saved[c][target[c]] = None /\ EntrySet(c, target[c], InForce(target[c])) /\ Save(c, TRUE)
    <3>1. InForce(target[c]) = user[target[c]]
      <4>1. dns[target[c]] = user[target[c]]
        BY <1>1, <1>2, <1>3, <1>4, <1>5, <2>4, UserChoice DEF Own
      <4> QED BY <1>1, <1>5, <4>1, UserChoice DEF InForce
    <3>2. Saves(c)
      BY <1>1, <2>4, SaveSaves
    <3>3. /\ saved'[c][target[c]] = user[target[c]]
          /\ \A s \in Service : s # target[c] => saved'[c][s] = saved[c][s]
          /\ \A b \in Core : b # c => saved'[b] = saved[b]
      BY <2>4, <3>1 DEF EntrySet
    <3>4. UserInv'
      <4>1. \A b \in Core, s \in Service : saved'[b][s] \in {user[s], None}
        BY <3>3 DEF IInv, UserInv
      <4> QED BY <1>2, <3>2, <4>1 DEF IInv, UserInv, Saves
    <3>5. Own(c)'
      BY <1>2, <1>3, <1>4, <3>3 DEF Own
    <3>6. UndoInv'
      BY <1>2, <1>3, <3>2, <3>5 DEF Own, UndoInv, Saves
    <3>7. Sync(c)' /\ FileKept(c)
      BY <3>2 DEF Sync, Saves, FileKept
    <3>8. Busy(c)'
      BY <1>2, <1>4, <1>8, <2>1, <3>3 DEF Busy
    <3> QED BY <1>1, <1>2, <2>2, <3>4, <3>5, <3>6, <3>7, <3>8, CoreKeeps
  <2> QED BY <1>5, <2>3, <2>4 DEF RecordsTarget
<1> QED BY <1>6, <1>7, <1>8

\* A service is pointed at the core when its servers are recorded.
LEMMA PointsStep ==
  ASSUME IInv, NEW c \in Core, Points(c)
  PROVE  IInv'
<1>1. BaseInv' /\ BaseInv
  BY PointsBase DEF IInv
<1>2. /\ up[c] = "alive" /\ pc[c] = "point"
      /\ UNCHANGED <<user, ours, deflt, file, up, prepared, hasAlias, saved, target>>
  BY DEF Points, Step
<1>3. prepared[c] /\ phase[c] \in {"applying", "on"}
  BY <1>1, <1>2 DEF BaseInv, PhaseInv
<1>4. Own(c) /\ Sync(c) /\ Pointed(c) /\ Busy(c)
  BY CoreInv
<1>5. target[c] \in Service /\ target[c] # current[c] /\ saved[c][target[c]] # None
  BY <1>1, <1>2 DEF BaseInv, TargetInv, Following
<1>6. CASE UNCHANGED dns /\ Fails(c)
  <2>1. UserInv' /\ UndoInv' /\ FileKept(c) /\ Own(c)'
    BY <1>2, <1>6, SameOwned
  <2>2. Sync(c)' /\ Pointed(c)' /\ Busy(c)'
    BY <1>2, <1>6, FailsKeeps
  <2> QED BY <1>1, <1>2, <2>1, <2>2, CoreKeeps
<1>7. CASE /\ dns' = [dns EXCEPT ![target[c]] = "address"]
           /\ IF current[c] = None THEN Followed(c, target[c])
                                   ELSE Goto(c, "unpoint") /\ UNCHANGED <<current, phase>>
           /\ UNCHANGED <<todo, due, trouble>>
  <2>1. dns'[target[c]] = "address" /\ \A s \in Service : s # target[c] => dns'[s] = dns[s]
    BY <1>1, <1>5, <1>7 DEF BaseInv, TypeOK
  <2>2. saved[c][target[c]] = user[target[c]]
    BY <1>5 DEF IInv, UserInv
  <2>3. file # None /\ file.dns[target[c]] = user[target[c]]
    BY <1>3, <1>4, <1>5, <2>2 DEF Sync
  <2>4. UserInv'
    BY <1>2, <2>1 DEF IInv, UserInv
  <2>5. UndoInv' /\ FileKept(c)
    BY <1>2, <2>1, <2>3 DEF IInv, UndoInv, FileKept
  <2>6. Own(c)'
    BY <1>2, <1>3, <1>4, <2>1, <2>2 DEF Own
  <2>7. Sync(c)'
    BY <1>2, <1>3, <1>4 DEF Sync
  <2>8. CASE current[c] = None
    <3>1. current'[c] = target[c] /\ pc'[c] = "idle"
      BY <1>1, <1>7, <2>8 DEF Followed, BaseInv, TypeOK
    <3>2. Pointed(c)'
      BY <1>2, <1>4, <1>7, <2>1, <3>1 DEF Pointed, Following
    <3>3. Busy(c)'
      BY <1>2, <1>4, <1>5, <1>7, <2>8, <3>1, SysDnsAssumption DEF Busy
    <3> QED BY <1>1, <1>2, <2>4, <2>5, <2>6, <2>7, <3>2, <3>3, CoreKeeps
  <2>9. CASE current[c] # None
    <3>1. current[c] \in Service
      BY <1>1, <2>9 DEF BaseInv, TypeOK
    <3>2. current' = current /\ pc'[c] = "unpoint"
      BY <1>1, <1>7, <2>9 DEF Goto, BaseInv, TypeOK
    <3>3. Pointed(c)'
      BY <1>2, <1>4, <1>5, <1>7, <2>1, <3>1, <3>2 DEF Pointed, Following
    <3>4. Busy(c)'
      BY <1>2, <1>4, <1>7, <3>2 DEF Busy
    <3> QED BY <1>1, <1>2, <2>4, <2>5, <2>6, <2>7, <3>3, <3>4, CoreKeeps
  <2> QED BY <2>8, <2>9
<1> QED BY <1>6, <1>7 DEF Points

\* The previous service is put back to the user's servers.
LEMMA UnpointsStep ==
  ASSUME IInv, NEW c \in Core, Unpoints(c)
  PROVE  IInv'
<1>1. BaseInv' /\ BaseInv
  BY UnpointsBase DEF IInv
<1>2. /\ up[c] = "alive" /\ pc[c] = "unpoint"
      /\ UNCHANGED <<user, ours, deflt, file, up, prepared, hasAlias, target, todo, due>>
  BY DEF Unpoints, Step
<1>3. prepared[c] /\ phase[c] = "on"
  BY <1>1, <1>2 DEF BaseInv, PhaseInv
<1>4. Own(c) /\ Sync(c) /\ Pointed(c) /\ Busy(c)
  BY CoreInv
<1>5. target[c] \in Service /\ target[c] # current[c] /\ current[c] \in Service /\ saved[c][current[c]] # None
  BY <1>1, <1>2, UnpointsCurrent DEF BaseInv, TargetInv, PhaseInv, Following
<1>6. CASE UNCHANGED <<dns, saved>> /\ Followed(c, target[c]) /\ trouble' = [trouble EXCEPT ![c] = TRUE]
  <2>1. current'[c] = target[c] /\ pc'[c] = "idle" /\ trouble'[c]
    BY <1>1, <1>6 DEF Followed, BaseInv, TypeOK
  <2>2. UserInv' /\ UndoInv' /\ FileKept(c) /\ Own(c)'
    BY <1>2, <1>6, SameOwned
  <2>3. Sync(c)'
    BY <1>2, <1>3, <1>4, <1>6 DEF Sync
  <2>4. Pointed(c)'
    BY <1>2, <1>4, <1>6, <2>1 DEF Pointed, Following
  <2>5. Busy(c)'
    BY <2>1 DEF Busy
  <2> QED BY <1>1, <1>2, <2>2, <2>3, <2>4, <2>5, CoreKeeps
<1>7. CASE PutsBack(c, current[c]) /\ Goto(c, "resave") /\ UNCHANGED <<current, phase, trouble>>
  <2>1. pc'[c] = "resave"
    BY <1>1, <1>7 DEF Goto, BaseInv, TypeOK
  <2>2. /\ dns'[current[c]] = user[current[c]] /\ \A s \in Service : s # current[c] => dns'[s] = dns[s]
        /\ saved'[c][current[c]] = None
        /\ \A s \in Service : s # current[c] => saved'[c][s] = saved[c][s]
        /\ \A b \in Core : b # c => saved'[b] = saved[b]
    BY <1>5, <1>7 DEF PutsBack, EntrySet, IInv, UserInv
  <2>3. UserInv'
    <3>1. \A b \in Core, s \in Service : saved'[b][s] \in {user[s], None}
      BY <2>2 DEF IInv, UserInv
    <3> QED BY <1>2, <2>2, <3>1 DEF IInv, UserInv
  <2>4. UndoInv' /\ FileKept(c)
    BY <1>2, <2>2 DEF IInv, UndoInv, FileKept
  <2>5. Own(c)'
    BY <1>2, <1>3, <1>4, <2>2 DEF Own
  <2>6. Sync(c)'
    BY <1>2, <1>3, <1>4, <2>2 DEF Sync
  <2>7. Pointed(c)'
    BY <1>2, <1>4, <1>5, <1>7, <2>1, <2>2 DEF Pointed, Following
  <2>8. Busy(c)'
    BY <1>2, <1>4, <1>7, <2>1, <2>2 DEF Busy
  <2> QED BY <1>1, <1>2, <2>3, <2>4, <2>5, <2>6, <2>7, <2>8, CoreKeeps
<1>8. \/ UNCHANGED <<dns, saved>> /\ Followed(c, target[c]) /\ trouble' = [trouble EXCEPT ![c] = TRUE]
      \/ /\ dns' = [dns EXCEPT ![current[c]] = saved[c][current[c]]] /\ SetsEntry(c, current[c], None)
         /\ Goto(c, "resave") /\ UNCHANGED <<current, phase, trouble>>
  BY DEF Unpoints, SetsEntry
<1> QED BY <1>1, <1>5, <1>6, <1>7, <1>8, Restores

\* The record forgets it.
LEMMA UnpointSavesStep ==
  ASSUME IInv, NEW c \in Core, UnpointSaves(c)
  PROVE  IInv'
<1>1. BaseInv' /\ BaseInv
  BY UnpointSavesBase DEF IInv
<1>2. /\ up[c] = "alive" /\ pc[c] = "resave"
      /\ UNCHANGED <<user, dns, ours, deflt, up, prepared, hasAlias, saved, target, todo, due, trouble>>
      /\ Followed(c, target[c])
  BY DEF UnpointSaves, Step
<1>3. prepared[c] /\ phase[c] = "on"
  BY <1>1, <1>2 DEF BaseInv, PhaseInv
<1>4. Own(c) /\ Sync(c) /\ Pointed(c) /\ Busy(c)
  BY CoreInv
<1>5. Saves(c) \/ file' = file
  BY <1>1, SaveBuilds DEF UnpointSaves
<1>6. current'[c] = target[c] /\ pc'[c] = "idle"
  BY <1>1, <1>2 DEF Followed, BaseInv, TypeOK
<1>7. UserInv' /\ UndoInv' /\ FileKept(c)
  BY <1>2, <1>3, <1>5, SaveKeeps
<1>8. Own(c)'
  BY <1>2, <1>3, <1>4 DEF Own
<1>9. Sync(c)'
  BY <1>2, <1>3, <1>4, <1>5 DEF Sync, Saves
<1>10. Pointed(c)'
  BY <1>2, <1>4, <1>6 DEF Pointed, Following
<1>11. Busy(c)'
  BY <1>2, <1>4, <1>6 DEF Busy
<1> QED BY <1>1, <1>2, <1>7, <1>8, <1>9, <1>10, <1>11, CoreKeeps

\* Release begins.
LEMMA ReleaseStep ==
  ASSUME IInv, NEW c \in Core, Release(c)
  PROVE  IInv'
<1>1. BaseInv' /\ BaseInv
  BY ReleaseBase DEF IInv
<1>2. /\ up[c] = "alive"
      /\ UNCHANGED <<user, dns, ours, file, up, prepared, hasAlias, saved>>
  BY DEF Release, Step, sysVars
<1>3. /\ phase'[c] = "off" /\ current'[c] = None /\ pc'[c] \in {"idle", "release"}
      /\ prepared[c] => todo'[c] = Listed(saved[c])
  BY <1>1, <1>2 DEF Release, ReleaseBegins, BaseInv, TypeOK
<1>4. UserInv' /\ UndoInv' /\ FileKept(c) /\ Own(c)'
  BY <1>2, SameOwned
<1>5. Sync(c)' /\ Pointed(c)'
  BY <1>3 DEF Sync, Pointed, Following
<1>6. Busy(c)'
  <2>1. ~prepared[c] => saved[c] = Nothing
    BY <1>1 DEF BaseInv, PhaseInv
  <2> QED BY <1>2, <1>3, <2>1 DEF Busy, Listed, Nothing
<1> QED BY <1>1, <1>2, <1>4, <1>5, <1>6, CoreKeeps

\* Release puts a service back to the user's servers.
LEMMA ReleaseRestoresStep ==
  ASSUME IInv, NEW c \in Core, ReleaseRestores(c)
  PROVE  IInv'
<1>1. BaseInv' /\ BaseInv
  BY ReleaseRestoresBase DEF IInv
<1>2. /\ up[c] = "alive" /\ pc[c] = "release"
      /\ UNCHANGED <<user, ours, file, up, prepared, hasAlias, current, target, phase>>
  BY DEF ReleaseRestores, Step
<1>3. prepared[c] /\ phase[c] = "off" /\ current[c] = None
  BY <1>1, <1>2 DEF BaseInv, PhaseInv, Releasing
<1>4. Own(c) /\ Busy(c)
  BY CoreInv
<1>5. PICK t \in todo[c] : RestoresOne(c, t)
  BY <1>1, ReleaseRestoresOne
<1>6. t \in Service /\ saved[c][t] = user[t] /\ todo'[c] = todo[c] \ {t} /\ pc'[c] \in {"release", "released"}
  BY <1>1, <1>2, <1>5 DEF RestoresOne, Goto, IInv, UserInv, BaseInv, TypeOK
<1>7. Sync(c)' /\ Pointed(c)'
  BY <1>2, <1>3, <1>6 DEF Sync, Pointed, Following
<1>8. CASE UNCHANGED <<dns, saved>> /\ trouble' = [trouble EXCEPT ![c] = TRUE]
  <2>1. UserInv' /\ UndoInv' /\ FileKept(c) /\ Own(c)'
    BY <1>2, <1>8, SameOwned
  <2>2. Busy(c)'
    BY <1>1, <1>8 DEF Busy, BaseInv, TypeOK
  <2> QED BY <1>1, <1>2, <1>7, <2>1, <2>2, CoreKeeps
<1>9. CASE PutsBack(c, t) /\ UNCHANGED trouble
  <2>1. /\ dns'[t] = user[t] /\ \A s \in Service : s # t => dns'[s] = dns[s]
        /\ saved'[c][t] = None
        /\ \A s \in Service : s # t => saved'[c][s] = saved[c][s]
        /\ \A b \in Core : b # c => saved'[b] = saved[b]
    BY <1>6, <1>9 DEF PutsBack, EntrySet
  <2>2. UserInv'
    <3>1. \A b \in Core, s \in Service : saved'[b][s] \in {user[s], None}
      BY <2>1 DEF IInv, UserInv
    <3> QED BY <1>2, <2>1, <3>1 DEF IInv, UserInv
  <2>3. UndoInv' /\ FileKept(c)
    BY <1>2, <2>1 DEF IInv, UndoInv, FileKept
  <2>4. Own(c)'
    BY <1>2, <1>3, <1>4, <2>1 DEF Own
  <2>5. Busy(c)'
    BY <1>2, <1>3, <1>4, <1>6, <1>9, <2>1, SysDnsAssumption DEF Busy
  <2> QED BY <1>1, <1>2, <1>7, <2>2, <2>3, <2>4, <2>5, CoreKeeps
<1> QED BY <1>5, <1>8, <1>9 DEF RestoresOne

\* The record forgets that one.
LEMMA ReleaseSavesStep ==
  ASSUME IInv, NEW c \in Core, ReleaseSaves(c)
  PROVE  IInv'
<1>1. BaseInv' /\ BaseInv
  BY ReleaseSavesBase DEF IInv
<1>2. /\ up[c] = "alive" /\ pc[c] = "released" /\ Goto(c, "release")
      /\ UNCHANGED <<user, dns, ours, up, prepared, hasAlias, saved, current, phase, todo, trouble>>
  BY DEF ReleaseSaves, Step
<1>3. prepared[c] /\ phase[c] = "off" /\ current[c] = None
  BY <1>1, <1>2 DEF BaseInv, PhaseInv, Releasing
<1>4. Own(c) /\ Busy(c)
  BY CoreInv
<1>5. Saves(c) \/ file' = file
  BY <1>1, SaveBuilds DEF ReleaseSaves
<1>6. pc'[c] = "release"
  BY <1>1, <1>2 DEF Goto, BaseInv, TypeOK
<1>7. UserInv' /\ UndoInv' /\ FileKept(c)
  BY <1>2, <1>3, <1>5, SaveKeeps
<1>8. Own(c)'
  BY <1>2, <1>3, <1>4 DEF Own
<1>9. Sync(c)' /\ Pointed(c)'
  BY <1>2, <1>3, <1>6 DEF Sync, Pointed, Following
<1>10. Busy(c)'
  BY <1>2, <1>4, <1>6 DEF Busy
<1> QED BY <1>1, <1>2, <1>7, <1>8, <1>9, <1>10, CoreKeeps

\* The alias goes, or is given up on.
LEMMA ReleaseAliasStep ==
  ASSUME IInv, NEW c \in Core, ReleaseAlias(c)
  PROVE  IInv'
<1>1. BaseInv' /\ BaseInv
  BY ReleaseAliasBase DEF IInv
<1>2. /\ up[c] = "alive" /\ pc[c] = "release" /\ Goto(c, "finish")
      /\ ours' = (ours /\ ~hasAlias[c])
      /\ UNCHANGED <<user, dns, file, up, prepared, saved, current, phase, todo, trouble>>
  BY DEF ReleaseAlias, Step
<1>3. prepared[c] /\ phase[c] = "off" /\ current[c] = None
  BY <1>1, <1>2 DEF BaseInv, PhaseInv, Releasing
<1>4. Own(c) /\ Busy(c)
  BY CoreInv
<1>5. pc'[c] = "finish"
  BY <1>1, <1>2 DEF Goto, BaseInv, TypeOK
<1>6. ~ours'
  BY <1>2, <1>3, <1>4 DEF Own
<1>7. UserInv' /\ UndoInv' /\ FileKept(c)
  BY <1>2, <1>6 DEF IInv, UserInv, UndoInv, FileKept
<1>8. Own(c)'
  BY <1>2, <1>3, <1>4, <1>6 DEF Own
<1>9. Sync(c)' /\ Pointed(c)'
  BY <1>2, <1>3, <1>5 DEF Sync, Pointed, Following
<1>10. Busy(c)'
  BY <1>2, <1>4, <1>5 DEF Busy
<1> QED BY <1>1, <1>2, <1>7, <1>8, <1>9, <1>10, CoreKeeps

\* Release ends: the record goes when there is nothing left to undo.
LEMMA ReleaseEndsStep ==
  ASSUME IInv, NEW c \in Core, ReleaseEnds(c)
  PROVE  IInv'
<1>1. BaseInv' /\ BaseInv
  BY ReleaseEndsBase DEF IInv
<1>2. /\ up[c] = "alive" /\ pc[c] = "finish" /\ Goto(c, "idle")
      /\ UNCHANGED <<user, dns, ours, up, hasAlias, saved, current, phase, todo>>
  BY DEF ReleaseEnds, Step
<1>3. prepared[c] /\ phase[c] = "off" /\ current[c] = None /\ ~hasAlias[c]
  BY <1>1, <1>2 DEF BaseInv, PhaseInv, TargetInv, Releasing
<1>4. Own(c) /\ Busy(c)
  BY CoreInv
<1>5. pc'[c] = "idle"
  BY <1>1, <1>2 DEF Goto, BaseInv, TypeOK
<1>6. ~ours
  BY <1>2, <1>3, <1>4 DEF Own
<1>7. Sync(c)' /\ Pointed(c)'
  BY <1>2, <1>3, <1>5 DEF Sync, Pointed, Following
<1>8. CASE saved[c] # Nothing
  <2>1. UNCHANGED <<prepared, trouble>> /\ (Saves(c) \/ file' = file)
    BY <1>1, <1>8, SaveBuilds DEF ReleaseEnds
  <2>2. UserInv' /\ UndoInv' /\ FileKept(c)
    BY <1>2, <1>3, <2>1, SaveKeeps
  <2>3. Own(c)'
    BY <1>2, <1>3, <1>4, <2>1 DEF Own
  <2>4. Busy(c)'
    BY <1>2, <1>4, <1>5, <2>1 DEF Busy
  <2> QED BY <1>1, <1>2, <1>7, <2>2, <2>3, <2>4, CoreKeeps
<1>9. CASE saved[c] = Nothing
  <2>1. file' \in {None, file}
    BY <1>9 DEF ReleaseEnds
  <2>2. \A s \in Service : saved[c][s] = None
    BY <1>9 DEF Nothing
  <2>3. \A s \in Service : dns[s] = user[s]
    BY <1>1, <1>2, <1>3, <1>4, <2>2, UserChoice DEF Own
  <2>4. UserInv' /\ UndoInv' /\ FileKept(c)
    BY <1>2, <1>6, <2>1, <2>3 DEF IInv, UserInv, UndoInv, FileKept
  <2>5. Own(c)' /\ Busy(c)'
    BY <1>2, <1>6, <2>2, <2>3 DEF Own, Busy
  <2> QED BY <1>1, <1>2, <1>7, <2>4, <2>5, CoreKeeps
<1> QED BY <1>8, <1>9

\* The default interface moves: whoever is registered will follow.
LEMMA DefaultChangesStep ==
  ASSUME IInv, NEW s \in Service \cup {None}, DefaultChanges(s)
  PROVE  IInv'
<1>1. BaseInv' /\ BaseInv
  BY DefaultChangesBase DEF IInv
<1>2. /\ UNCHANGED <<user, dns, ours, file, ownVars, up, phase, pc, trouble>>
      /\ \A c \in Core : Registered(c) => due'[c]
  BY DEF DefaultChanges
<1>3. OneInv' /\ UserInv' /\ UndoInv'
  BY <1>2 DEF IInv, OneInv, UserInv, UndoInv, ownVars
<1>4. ASSUME NEW c \in Core PROVE Own(c)' /\ Sync(c)' /\ Busy(c)'
  BY <1>2, CoreInv DEF Own, Stale, Sync, Busy, ownVars
<1>5. ASSUME NEW c \in Core PROVE Pointed(c)'
  <2>1. pc[c] \in Following \/ phase[c] = "on" => Registered(c)
    BY <1>1 DEF BaseInv, PhaseInv, Following, Registered
  <2> QED BY <1>2, <2>1, CoreInv DEF Pointed, ownVars
<1> QED BY <1>1, <1>3, <1>4, <1>5 DEF IInv, OwnInv, SyncInv, FollowInv

\* Every step keeps the invariant, as long as cores do not overlap.
LEMMA NextIInv ==
  ASSUME ~Overlap
  PROVE  IInv /\ [Next]_vars => IInv'
<1> SUFFICES ASSUME IInv, [Next]_vars PROVE IInv' OBVIOUS
<1>1. ASSUME NEW c \in Core, CoreStep(c) PROVE IInv'
  BY <1>1, CoreStartsStep, DiesStep, PrepareStep, PrepareSavesStep, PrepareEndsStep, FollowsStep,
     FollowLateStep, PointRecordsStep, PointsStep, UnpointsStep, UnpointSavesStep, ReleaseStep,
     ReleaseRestoresStep, ReleaseSavesStep, ReleaseAliasStep, ReleaseEndsStep DEF CoreStep, Apply, Follow
<1>2. CASE RestoreDns
  BY <1>2, RestoreDnsStep
<1>3. ASSUME NEW s \in Service \cup {None}, DefaultChanges(s) PROVE IInv'
  BY <1>3, DefaultChangesStep
<1>4. CASE UNCHANGED vars
  <2>1. BaseInv'
    BY <1>4, NextBase DEF IInv
  <2>2. OneInv' /\ UserInv' /\ UndoInv'
    BY <1>4 DEF vars, sysVars, ownVars, runVars, IInv, OneInv, UserInv, UndoInv
  <2>3. OwnInv' /\ SyncInv' /\ FollowInv'
    BY <1>4 DEF vars, sysVars, ownVars, runVars, IInv, OwnInv, SyncInv, FollowInv, Own, Stale, Sync, Pointed, Busy
  <2> QED BY <2>1, <2>2, <2>3 DEF IInv
<1> QED BY <1>1, <1>2, <1>3, <1>4 DEF Next

\* The invariant holds in every reachable state.
LEMMA DnsInvariant ==
  ASSUME ~Overlap
  PROVE  Spec => []IInv
<1>1. IInv /\ [Next]_vars => IInv'
  BY NextIInv
<1> QED BY <1>1, InitIInv, PTL DEF Spec

\* Whatever the cores have done to the system, the record says how to undo it, at every moment one of
\* them may die.
THEOREM EveryChangeIsRecorded ==
  ASSUME ~Overlap
  PROVE  Spec => []ChangesAreRecorded
<1>1. IInv => ChangesAreRecorded
  BY DEF IInv, BaseInv, UserInv, UndoInv, ChangesAreRecorded
<1>2. Spec => []IInv
  BY DnsInvariant
<1> QED BY <1>1, <1>2, PTL

\* A core that is on and idle has followed the default interface, and nothing but the default service
\* is changed, unless a command failed.
THEOREM DefaultIsFollowed ==
  ASSUME ~Overlap
  PROVE  Spec => []FollowsTheDefault
<1>1. IInv => FollowsTheDefault
  <2> SUFFICES ASSUME IInv, NEW c \in Core, up[c] = "alive", phase[c] = "on", pc[c] = "idle", ~due[c],
                      ~trouble[c]
               PROVE  /\ deflt # None => current[c] = deflt
                      /\ \A s \in Service : dns[s] = IF s = current[c] THEN "address" ELSE user[s]
    BY DEF FollowsTheDefault
  <2>1. deflt \in {None, current[c]}
    BY CoreInv DEF Pointed
  <2>2. prepared[c] /\ todo[c] = {}
    BY DEF IInv, BaseInv, PhaseInv, TargetInv
  <2>3. \A s \in Service : s # current[c] => saved[c][s] = None
    BY <2>2, CoreInv DEF Busy
  <2>4. \A s \in Service : s # current[c] => dns[s] = user[s]
    BY <2>2, <2>3, CoreInv, UserChoice DEF IInv, Own
  <2>5. \A s \in Service : s = current[c] => dns[s] = "address"
    BY SysDnsAssumption, CoreInv DEF Pointed
  <2> QED BY <2>1, <2>4, <2>5
<1>2. Spec => []IInv
  BY DnsInvariant
<1> QED BY <1>1, <1>2, PTL
=============================================================================
