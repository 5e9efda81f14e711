-------------------------- MODULE HeadlessBoot_proofs --------------------------
(***************************************************************************)
(* Proofs for HeadlessBoot: the record on disk is true and the loops of    *)
(* boots end, for every set of profiles, every limit, any number of boots  *)
(* and wherever the process or its core dies.                              *)
(***************************************************************************)
EXTENDS HeadlessBoot, TLAPS

RecordType == [profile : Id, strikes : 0 .. StrikesToSuppress, armed : BOOLEAN,
               open : BOOLEAN, unstable : 0 .. MaxBoots, exit : Code]
GuardType == [profile : Id, strikes : 0 .. StrikesToSuppress, armed : BOOLEAN,
              open : BOOLEAN, unstable : 0 .. MaxBoots, exit : Code, suppressed : BOOLEAN]
ProcessType ==
  [phase : {"None", "Waiting", "Armed", "Done"}, boot : Id, retry : Id,
   core : {"down", "up", "dead", "gaveup"}, victim : BOOLEAN, coreDeaths : 0 .. MaxCoreDeaths, recent : BOOLEAN,
   start : [id : Id, boot : BOOLEAN], started : Id, running : Id,
   bootTimer : BOOLEAN, runTimer : BOOLEAN,
   code : Code, override : BOOLEAN, terminating : BOOLEAN]
HistoryType == [window : BOOLEAN, deaths : Nat, stable : BOOLEAN, badBoots : Nat, code : Code]

-----------------------------------------------------------------------------
(* The record and the disk. *)

\* The record on disk is ResumeGuard's, but for a first profile that is not saved before it is armed.
Written == /\ disk.strikes = g.strikes /\ (disk.armed <=> g.armed) /\ (disk.open <=> g.open)
           /\ disk.unstable = g.unstable /\ disk.exit = g.exit
           /\ disk.profile = g.profile \/ (disk.profile = None /\ g.strikes = 0 /\ ~g.armed)
DiskInv ==
  /\ up => Written
  /\ ~up => g = NewGuard /\ p = NewProcess
  /\ disk.profile = None => disk.strikes = 0 /\ ~disk.armed
  /\ g.profile = None => g.strikes = 0 /\ ~g.armed
  /\ disk.unstable <= boots /\ g.unstable <= boots

\* The record is armed exactly while the 60 s of a resumed profile run.
WindowInv ==
  /\ g.armed <=> h.window
  /\ g.armed => p.boot # None /\ ~p.recent /\ p.core # "gaveup"
  /\ g.armed /\ p.phase = "Done" => p.bootTimer
\* What the next boot will count is what happened.
CountInv ==
  ~up => Min({h.deaths, StrikesToSuppress}) = Min({disk.strikes + (IF disk.armed THEN 1 ELSE 0), StrikesToSuppress})

-----------------------------------------------------------------------------
(* The process. *)

\* The boot start: of the record's profile, armed once, and blamed only while it is.
BootInv ==
  /\ p.boot # None => g.profile = p.boot
  /\ p.phase = "Waiting" => p.boot # None /\ ~g.armed /\ ~p.recent /\ p.core \in {"down", "gaveup"}
  /\ p.start.boot => p.phase = "Armed"
  /\ p.phase = "Armed" /\ ~Terminating => p.start.boot
  /\ p.start.id = None => p.start = NoStart
  /\ p.retry # None => p.boot # None /\ ~g.armed /\ h.deaths < StrikesToSuppress /\ p.phase \in {"Waiting", "Done"}
\* What runs, and whom the end of the core will be blamed on.
RunInv ==
  /\ p.core # "up" \/ p.start.id # None => p.running = None
  /\ g.armed /\ p.phase = "Done" /\ p.core = "up" => p.started = p.running
  /\ g.armed /\ p.core = "down" => p.phase = "Armed"
  /\ g.armed /\ p.core \in {"dead", "down"} => (p.victim <=> p.phase = "Armed" \/ p.started = p.boot)
\* The exit that was noted is the one that comes, and only one that a profile can cause stays armed.
ExitInv ==
  /\ p.terminating => up /\ Terminating /\ g.exit = ExitCode /\ (g.armed => KeepsArm(ExitCode))
  /\ p.override => p.code = Restart
  /\ KeepsArm(p.code) => g.unstable < UnstableBootsToStayUp

-----------------------------------------------------------------------------
(* The boots that could not work. *)

StableInv ==
  /\ up /\ h.stable => h.badBoots = 0
  /\ up /\ ~h.stable => g.open
  /\ up => h.badBoots <= g.unstable
  /\ ~up => h.badBoots <= disk.unstable + (IF disk.open THEN 1 ELSE 0)

\* The inductive invariant.
IInv ==
  /\ TypeOK /\ StrikesAreDeaths /\ CrashLoopEnds /\ ApiStaysUp /\ LastExitIsTrue
  /\ DiskInv /\ WindowInv /\ CountInv
  /\ BootInv /\ RunInv /\ ExitInv
  /\ StableInv

-----------------------------------------------------------------------------
(* The operators. *)

\* The smaller of two numbers.
LEMMA MinTwo == ASSUME NEW a \in Int, NEW b \in Int PROVE Min({a, b}) = IF a <= b THEN a ELSE b
<1>1. \E x \in {a, b} : \A y \in {a, b} : x <= y
  OBVIOUS
<1>2. Min({a, b}) \in {a, b} /\ \A y \in {a, b} : Min({a, b}) <= y
  BY <1>1, Zenon DEF Min
<1> QED BY <1>2

\* What a record can count.
Cap(n) == Min({n, StrikesToSuppress})
\* A strike more is a death more, up to the limit; none is none.
LEMMA StrikeCounts ==
  /\ Cap(0) = 0
  /\ \A d \in Nat : /\ Cap(d) \in 0 .. StrikesToSuppress /\ Cap(Cap(d) + 1) = Cap(d + 1)
                    /\ Cap(d) < StrikesToSuppress => d < StrikesToSuppress
  /\ \A s \in 0 .. StrikesToSuppress : Cap(s) = s
<1>1. StrikesToSuppress \in Nat /\ StrikesToSuppress # 0
  BY LimitAssumption
<1>2. \A d \in Nat : Cap(d) = IF d <= StrikesToSuppress THEN d ELSE StrikesToSuppress
  BY <1>1, MinTwo DEF Cap
<1> QED BY <1>1, <1>2

\* The parts of the type invariant.
LEMMA Types ==
  TypeOK <=> /\ disk \in RecordType /\ g \in GuardType /\ p \in ProcessType /\ h \in HistoryType
             /\ remember \in Id /\ up \in BOOLEAN /\ boots \in 0 .. MaxBoots
             /\ (disk.armed => disk.profile # None) /\ (g.armed => up /\ p.phase \in {"Armed", "Done"})
  BY Zenon DEF TypeOK, RecordType, GuardType, ProcessType, HistoryType

\* A strike counts up to the limit and disarms.
LEMMA Strikes ==
  ASSUME NEW r \in GuardType
  PROVE  /\ Struck(r) \in GuardType /\ ~Struck(r).armed
         /\ Struck(r).strikes = Min({r.strikes + 1, StrikesToSuppress})
         /\ Struck(r).profile = r.profile /\ Struck(r).open = r.open /\ Struck(r).unstable = r.unstable
         /\ Struck(r).exit = r.exit /\ Struck(r).suppressed = r.suppressed
<1>1. Min({r.strikes + 1, StrikesToSuppress}) \in 0 .. StrikesToSuppress
  <2>1. r.strikes \in 0 .. StrikesToSuppress /\ StrikesToSuppress \in Nat
    BY LimitAssumption DEF GuardType
  <2> QED BY <2>1, MinTwo
<1> QED BY <1>1 DEF Struck, GuardType

\* What disarms, notes or lifts leaves the rest of the record alone.
LEMMA Disarms ==
  ASSUME NEW r \in GuardType
  PROVE  /\ Disarm(r) \in GuardType /\ ~Disarm(r).armed /\ Disarm(r).strikes = r.strikes
         /\ Disarm(r).profile = r.profile /\ Disarm(r).open = r.open /\ Disarm(r).unstable = r.unstable
         /\ Disarm(r).exit = r.exit
  BY DEF Disarm, GuardType
LEMMA Lifts ==
  ASSUME NEW r \in GuardType, NEW id
  PROVE  LET l == LiftSuppression(r, id)
         IN  /\ l \in GuardType /\ l.armed = r.armed /\ l.strikes = r.strikes
             /\ l.profile = r.profile /\ l.open = r.open /\ l.unstable = r.unstable /\ l.exit = r.exit
  BY DEF LiftSuppression, GuardType
LEMMA Notes ==
  ASSUME NEW r \in GuardType, NEW code \in Code
  PROVE  LET n == NoteExit(r, code)
         IN  /\ n \in GuardType /\ n.armed = (r.armed /\ KeepsArm(code)) /\ n.strikes = r.strikes
             /\ n.profile = r.profile /\ n.open = r.open /\ n.unstable = r.unstable /\ n.exit = code
  BY DEF NoteExit, GuardType, KeepsArm
LEMMA Arms ==
  ASSUME NEW r \in GuardType, NEW id \in Id
  PROVE  LET a == Arm(r, id)
         IN  /\ a \in GuardType /\ a.armed /\ a.strikes = (IF id = r.profile THEN r.strikes ELSE 0)
             /\ a.profile = id /\ a.open = r.open /\ a.unstable = r.unstable /\ a.exit = r.exit
<1>1. 0 \in 0 .. StrikesToSuppress /\ 0 \in 0 .. MaxBoots
  BY LimitAssumption, BoundAssumption
<1>2. CASE id = r.profile
  BY <1>2 DEF Arm, GuardType
<1>3. CASE id # r.profile
  BY <1>1, <1>3 DEF Arm, GuardType
<1> QED BY <1>2, <1>3
LEMMA Survives ==
  ASSUME NEW r \in GuardType, NEW id, id = r.profile
  PROVE  LET v == Survived(r, id)
         IN  /\ v \in GuardType /\ ~v.armed /\ v.strikes = 0
             /\ v.profile = r.profile /\ v.open = r.open /\ v.unstable = r.unstable /\ v.exit = r.exit
<1>1. 0 \in 0 .. StrikesToSuppress /\ 0 \in 0 .. MaxBoots
  BY LimitAssumption, BoundAssumption
<1> QED BY <1>1 DEF Survived, GuardType
LEMMA Marks ==
  ASSUME NEW r \in GuardType
  PROVE  LET v == MarkStable(r)
         IN  /\ v \in GuardType /\ v.armed = r.armed /\ v.strikes = r.strikes
             /\ v.profile = r.profile /\ ~v.open /\ v.unstable = 0 /\ v.exit = r.exit
<1>1. 0 \in 0 .. StrikesToSuppress /\ 0 \in 0 .. MaxBoots
  BY LimitAssumption, BoundAssumption
<1> QED BY <1>1 DEF MarkStable, GuardType
LEMMA Settles ==
  ASSUME NEW r \in GuardType, r.unstable < MaxBoots
  PROVE  LET s == SettlePrevious(r)
         IN  /\ s \in GuardType /\ ~s.armed /\ s.open /\ s.exit = r.exit /\ s.profile = r.profile
             /\ s.unstable = (IF r.open THEN r.unstable + 1 ELSE r.unstable) /\ s.suppressed = r.suppressed
             /\ s.strikes = (IF r.armed THEN Min({r.strikes + 1, StrikesToSuppress}) ELSE r.strikes)
<1> DEFINE s == [r EXCEPT !.unstable = IF r.open THEN @ + 1 ELSE @, !.open = TRUE]
<1>1. /\ s \in GuardType /\ s.armed = r.armed /\ s.open = TRUE /\ s.exit = r.exit /\ s.profile = r.profile
      /\ s.unstable = (IF r.open THEN r.unstable + 1 ELSE r.unstable) /\ s.strikes = r.strikes /\ s.suppressed = r.suppressed
  <2>1. (IF r.open THEN r.unstable + 1 ELSE r.unstable) \in 0 .. MaxBoots
    BY BoundAssumption DEF GuardType
  <2> QED BY <2>1 DEF GuardType
<1> HIDE DEF s
<1>2. SettlePrevious(r) = IF s.armed THEN Struck(s) ELSE s
  BY DEF SettlePrevious, s
<1>3. CASE s.armed
  BY <1>1, <1>2, <1>3, Strikes
<1>4. CASE ~s.armed
  BY <1>1, <1>2, <1>4
<1> QED BY <1>3, <1>4
LEMMA Decides ==
  ASSUME NEW r \in GuardType, ~r.armed, ~r.suppressed, NEW id \in Id
  PROVE  LET d == Decide(r, id)
         IN  /\ d \in GuardType /\ ~d.armed /\ (d.open <=> r.open) /\ d.exit = r.exit /\ d.unstable = r.unstable /\ d.profile = id
             /\ d.strikes = (IF id = r.profile THEN r.strikes ELSE 0)
             /\ (d.suppressed <=> id = r.profile /\ r.strikes >= StrikesToSuppress)
<1>1. 0 \in 0 .. StrikesToSuppress /\ 0 \in 0 .. MaxBoots
  BY LimitAssumption, BoundAssumption
<1>2. CASE id = r.profile
  <2>1. Decide(r, id) = [r EXCEPT !.suppressed = r.strikes >= StrikesToSuppress]
    BY <1>2 DEF Decide, Suppresses
  <2>2. (r.strikes >= StrikesToSuppress) \in BOOLEAN
    OBVIOUS
  <2> QED BY <1>2, <2>1, <2>2 DEF GuardType
<1>3. CASE id # r.profile
  <2>1. Decide(r, id) = [r EXCEPT !.profile = id, !.strikes = 0, !.armed = FALSE]
    BY <1>3 DEF Decide
  <2> QED BY <1>1, <1>3, <2>1 DEF GuardType
<1> QED BY <1>2, <1>3

\* The record as it is written.
LEMMA Persists ==
  ASSUME NEW r \in GuardType
  PROVE  /\ Persisted(r) \in RecordType /\ Persisted(r).strikes = r.strikes /\ Persisted(r).armed = r.armed
         /\ Persisted(r).open = r.open /\ Persisted(r).unstable = r.unstable /\ Persisted(r).exit = r.exit
         /\ Persisted(r).profile = r.profile
  BY DEF Persisted, GuardType, RecordType

\* After save() the disk holds the record.
LEMMA Saves ==
  ASSUME disk \in RecordType, Written, NEW r \in GuardType, Save(r)
  PROVE  g' = r /\ disk' \in RecordType /\ Written'
<1>1. CASE r = g
  BY <1>1 DEF Save, Written
<1>2. CASE r # g
  <2>1. g' = r /\ disk' = Persisted(r)
    BY <1>2 DEF Save
  <2> QED BY <2>1, Persists DEF Written
<1> QED BY <1>1, <1>2

-----------------------------------------------------------------------------
(* The steps. *)

\* Before the first boot.
LEMMA InitIInv == Init => IInv
<1> SUFFICES ASSUME Init PROVE IInv OBVIOUS
<1> USE LimitAssumption, BoundAssumption, ProfilesAssumption
<1>1. /\ disk = NewRecord /\ g = NewGuard /\ p = NewProcess /\ h = NoHistory /\ up = FALSE /\ boots = 0
      /\ remember \in Id
  BY DEF Init
<1>2. None \in Id /\ None \in Code /\ NoStart \in [id : Id, boot : BOOLEAN] /\ NoStart.id = None /\ ~NoStart.boot
  BY DEF Id, Code, NoStart
<1>3. NewRecord \in RecordType /\ NewRecord.strikes = 0 /\ ~NewRecord.armed /\ NewRecord.unstable = 0
  BY <1>2 DEF NewRecord, RecordType
<1>4. NewGuard \in GuardType /\ ~NewGuard.armed /\ NewGuard.strikes = 0 /\ NewGuard.unstable = 0
  BY <1>2 DEF NewGuard, GuardType
<1>5. /\ NewProcess \in ProcessType /\ NewProcess.phase = "None" /\ NewProcess.boot = None
      /\ NewProcess.retry = None
      /\ NewProcess.start = NoStart /\ NewProcess.running = None
      /\ ~NewProcess.terminating /\ ~NewProcess.override /\ NewProcess.code = None
  BY <1>2 DEF NewProcess, ProcessType
<1>6. NoHistory \in HistoryType /\ ~NoHistory.window /\ NoHistory.deaths = 0 /\ NoHistory.badBoots = 0 /\ NoHistory.code = None
  BY <1>2 DEF NoHistory, HistoryType
<1>7. TypeOK
  <2>1. up \in BOOLEAN
    BY <1>1, Zenon
  <2>2. boots \in 0 .. MaxBoots
    BY <1>1
  <2> QED BY <1>1, <1>3, <1>4, <1>5, <1>6, <2>1, <2>2
             DEF TypeOK, RecordType, GuardType, ProcessType, HistoryType
<1>8. StrikesAreDeaths /\ CrashLoopEnds /\ ApiStaysUp /\ LastExitIsTrue /\ DiskInv /\ StableInv
  BY <1>1, <1>3, <1>4, <1>5, <1>6
     DEF StrikesAreDeaths, CrashLoopEnds, ApiStaysUp, LastExitIsTrue, DiskInv, StableInv
<1>9. WindowInv /\ BootInv /\ RunInv /\ ExitInv
  BY <1>1, <1>2, <1>4, <1>5, <1>6 DEF WindowInv, BootInv, RunInv, ExitInv, KeepsArm, None, CoreGaveUp, Stuck
<1>10. CountInv
  <2>1. disk.strikes + (IF disk.armed THEN 1 ELSE 0) = 0
    BY <1>1, <1>3
  <2> QED BY <1>1, <1>6, <2>1 DEF CountInv
<1> QED BY <1>7, <1>8, <1>9, <1>10 DEF IInv

\* The first exit that is asked for.
LEMMA FirstExit ==
  ASSUME IInv, up, NEW code \in {Ok, Restart, Config, CoreGaveUp, Stuck},
         p.code = None, code \in {CoreGaveUp, Stuck} => ~StayUp(g), p' = [p EXCEPT !.code = code],
         UNCHANGED <<disk, remember, up, g, boots, h>>
  PROVE  IInv'
<1> USE LimitAssumption, BoundAssumption, ProfilesAssumption DEF IInv
<1>0. /\ disk \in RecordType /\ g \in GuardType /\ p \in ProcessType /\ h \in HistoryType
      /\ remember \in Id /\ boots \in 0 .. MaxBoots /\ g.strikes \in Nat /\ h.deaths \in Nat
      /\ h.badBoots \in Nat
      /\ g.unstable \in Nat /\ disk.unstable \in Nat /\ up \in BOOLEAN
      /\ None \in Id /\ NoStart \in [id : Id, boot : BOOLEAN] /\ NoStart.id = None /\ ~NoStart.boot
      /\ (g.armed => p.phase \in {"Armed", "Done"})
  BY Types DEF GuardType, HistoryType, RecordType, NoStart, Id
<1>w. Written
  BY DEF DiskInv
<1>g. /\ g' \in GuardType /\ g'.profile = g.profile /\ g'.strikes = g.strikes /\ (g'.armed <=> g.armed)
      /\ (g'.open <=> g.open) /\ g'.unstable = g.unstable /\ g'.exit = g.exit
  BY <1>0
<1>p. /\ p' \in ProcessType /\ p'.phase = p.phase /\ p'.boot = p.boot /\ p'.retry = p.retry
      /\ p'.core = p.core /\ (p'.victim <=> p.victim) /\ p'.coreDeaths = p.coreDeaths /\ (p'.recent <=> p.recent)
      /\ p'.start = p.start /\ p'.started = p.started /\ p'.running = p.running /\ (p'.bootTimer <=> p.bootTimer)
      /\ (p'.runTimer <=> p.runTimer) /\ p'.code = code /\ (p'.override <=> p.override) /\ (p'.terminating <=> p.terminating)
  BY <1>0 DEF ProcessType, Code
<1>h. /\ h' \in HistoryType /\ (h'.window <=> h.window) /\ h'.deaths = h.deaths /\ (h'.stable <=> h.stable)
      /\ h'.badBoots = h.badBoots /\ h'.code = h.code
  BY <1>0
<1>d. disk' \in RecordType /\ Written'
  BY <1>0, <1>w, <1>g DEF Written
<1>u. up' = up /\ remember' = remember /\ boots' = boots
  OBVIOUS
<1>1. TypeOK'
  BY <1>0, <1>w, <1>g, <1>p, <1>h, <1>d, <1>u
     DEF TypeOK, RecordType, GuardType, ProcessType, HistoryType, Written, StayUp
<1>2. StrikesAreDeaths'
  BY <1>0, <1>w, <1>g, <1>p, <1>h, <1>d, <1>u DEF StrikesAreDeaths, StayUp
<1>3. CrashLoopEnds'
  BY <1>0, <1>w, <1>g, <1>p, <1>h, <1>d, <1>u DEF CrashLoopEnds, BootInv, StayUp
<1>4. ApiStaysUp'
  BY <1>0, <1>w, <1>g, <1>p, <1>h, <1>d, <1>u DEF ApiStaysUp, StayUp
<1>5. LastExitIsTrue'
  BY <1>0, <1>w, <1>g, <1>p, <1>h, <1>d, <1>u DEF LastExitIsTrue, StayUp
<1>6. DiskInv'
  BY <1>0, <1>w, <1>g, <1>p, <1>h, <1>d, <1>u DEF DiskInv, Written, StayUp
<1>7. WindowInv'
  BY <1>0, <1>w, <1>g, <1>p, <1>h, <1>d, <1>u DEF WindowInv, BootInv, StayUp
<1>8. CountInv'
  BY <1>0, <1>w, <1>g, <1>p, <1>h, <1>d, <1>u DEF CountInv, StayUp
<1>9. BootInv'
  BY <1>0, <1>w, <1>g, <1>p, <1>h, <1>d, <1>u
     DEF BootInv, WindowInv, CrashLoopEnds, NoStart, Terminating, StayUp
<1>10. RunInv'
  BY <1>0, <1>w, <1>g, <1>p, <1>h, <1>d, <1>u DEF RunInv, WindowInv, BootInv, StayUp
<1>11. ExitInv'
  BY <1>0, <1>w, <1>g, <1>p, <1>h, <1>d, <1>u
     DEF ExitInv, Terminating, ExitCode, KeepsArm, Code, Ok, CoreGaveUp, Stuck, Restart, Config, None, StayUp
<1>12. StableInv'
  BY <1>0, <1>w, <1>g, <1>p, <1>h, <1>d, <1>u DEF StableInv, StayUp
<1> QED BY <1>1, <1>2, <1>3, <1>4, <1>5, <1>6, <1>7, <1>8, <1>9, <1>10, <1>11, <1>12

\* A stop turns a restart into a stop before its teardown ...
LEMMA StopWins ==
  ASSUME IInv, up,
         p.code = Restart, ~p.override, ~p.terminating, p' = [p EXCEPT !.override = TRUE],
         UNCHANGED <<disk, remember, up, g, boots, h>>
  PROVE  IInv'
<1> USE LimitAssumption, BoundAssumption, ProfilesAssumption DEF IInv
<1>0. /\ disk \in RecordType /\ g \in GuardType /\ p \in ProcessType /\ h \in HistoryType
      /\ remember \in Id /\ boots \in 0 .. MaxBoots /\ g.strikes \in Nat /\ h.deaths \in Nat
      /\ h.badBoots \in Nat
      /\ g.unstable \in Nat /\ disk.unstable \in Nat /\ up \in BOOLEAN
      /\ None \in Id /\ NoStart \in [id : Id, boot : BOOLEAN] /\ NoStart.id = None /\ ~NoStart.boot
      /\ (g.armed => p.phase \in {"Armed", "Done"})
  BY Types DEF GuardType, HistoryType, RecordType, NoStart, Id
<1>w. Written
  BY DEF DiskInv
<1>g. /\ g' \in GuardType /\ g'.profile = g.profile /\ g'.strikes = g.strikes /\ (g'.armed <=> g.armed)
      /\ (g'.open <=> g.open) /\ g'.unstable = g.unstable /\ g'.exit = g.exit
  BY <1>0
<1>p. /\ p' \in ProcessType /\ p'.phase = p.phase /\ p'.boot = p.boot /\ p'.retry = p.retry
      /\ p'.core = p.core /\ (p'.victim <=> p.victim) /\ p'.coreDeaths = p.coreDeaths /\ (p'.recent <=> p.recent)
      /\ p'.start = p.start /\ p'.started = p.started /\ p'.running = p.running /\ (p'.bootTimer <=> p.bootTimer)
      /\ (p'.runTimer <=> p.runTimer) /\ p'.code = p.code /\ (p'.override <=> TRUE) /\ (p'.terminating <=> p.terminating)
  BY <1>0 DEF ProcessType
<1>h. /\ h' \in HistoryType /\ (h'.window <=> h.window) /\ h'.deaths = h.deaths /\ (h'.stable <=> h.stable)
      /\ h'.badBoots = h.badBoots /\ h'.code = h.code
  BY <1>0
<1>d. disk' \in RecordType /\ Written'
  BY <1>0, <1>w, <1>g DEF Written
<1>u. up' = up /\ remember' = remember /\ boots' = boots
  OBVIOUS
<1>1. TypeOK'
  BY <1>0, <1>w, <1>g, <1>p, <1>h, <1>d, <1>u
     DEF TypeOK, RecordType, GuardType, ProcessType, HistoryType, Written
<1>2. StrikesAreDeaths'
  BY <1>0, <1>w, <1>g, <1>p, <1>h, <1>d, <1>u DEF StrikesAreDeaths
<1>3. CrashLoopEnds'
  BY <1>0, <1>w, <1>g, <1>p, <1>h, <1>d, <1>u DEF CrashLoopEnds, BootInv
<1>4. ApiStaysUp'
  BY <1>0, <1>w, <1>g, <1>p, <1>h, <1>d, <1>u DEF ApiStaysUp
<1>5. LastExitIsTrue'
  BY <1>0, <1>w, <1>g, <1>p, <1>h, <1>d, <1>u DEF LastExitIsTrue
<1>6. DiskInv'
  BY <1>0, <1>w, <1>g, <1>p, <1>h, <1>d, <1>u DEF DiskInv, Written
<1>7. WindowInv'
  BY <1>0, <1>w, <1>g, <1>p, <1>h, <1>d, <1>u DEF WindowInv, BootInv
<1>8. CountInv'
  BY <1>0, <1>w, <1>g, <1>p, <1>h, <1>d, <1>u DEF CountInv
<1>9. BootInv'
  BY <1>0, <1>w, <1>g, <1>p, <1>h, <1>d, <1>u DEF BootInv, WindowInv, CrashLoopEnds, NoStart, Terminating
<1>10. RunInv'
  BY <1>0, <1>w, <1>g, <1>p, <1>h, <1>d, <1>u DEF RunInv, WindowInv, BootInv
<1>11. ExitInv'
  BY <1>0, <1>w, <1>g, <1>p, <1>h, <1>d, <1>u
     DEF ExitInv, Terminating, ExitCode, KeepsArm, Code, Ok, CoreGaveUp, Stuck, Restart, Config, None
<1>12. StableInv'
  BY <1>0, <1>w, <1>g, <1>p, <1>h, <1>d, <1>u DEF StableInv
<1> QED BY <1>1, <1>2, <1>3, <1>4, <1>5, <1>6, <1>7, <1>8, <1>9, <1>10, <1>11, <1>12

\* ... or during it.
LEMMA StopWinsLate ==
  ASSUME IInv, up,
         p.code = Restart, ~p.override, p.terminating, p' = [p EXCEPT !.override = TRUE], Save(NoteExit(g, Ok)),
         UNCHANGED <<remember, up, boots, h>>
  PROVE  IInv'
<1> USE LimitAssumption, BoundAssumption, ProfilesAssumption DEF IInv
<1>0. /\ disk \in RecordType /\ g \in GuardType /\ p \in ProcessType /\ h \in HistoryType
      /\ remember \in Id /\ boots \in 0 .. MaxBoots /\ g.strikes \in Nat /\ h.deaths \in Nat
      /\ h.badBoots \in Nat
      /\ g.unstable \in Nat /\ disk.unstable \in Nat /\ up \in BOOLEAN
      /\ None \in Id /\ NoStart \in [id : Id, boot : BOOLEAN] /\ NoStart.id = None /\ ~NoStart.boot
      /\ (g.armed => p.phase \in {"Armed", "Done"})
  BY Types DEF GuardType, HistoryType, RecordType, NoStart, Id
<1>w. Written
  BY DEF DiskInv
<1>a. ~g.armed /\ ~h.window
  BY DEF ExitInv, ExitCode, KeepsArm, Restart, CoreGaveUp, Stuck, WindowInv
<1>n. LET n == NoteExit(g, Ok) IN /\ n \in GuardType /\ (n.armed <=> g.armed /\ KeepsArm(Ok)) /\ n.strikes = g.strikes
             /\ n.profile = g.profile /\ n.open = g.open /\ n.unstable = g.unstable /\ n.exit = Ok
  BY <1>0, Notes DEF Code
<1>g. /\ g' \in GuardType /\ g'.profile = g.profile /\ g'.strikes = g.strikes /\ (g'.armed <=> FALSE)
      /\ (g'.open <=> g.open) /\ g'.unstable = g.unstable /\ g'.exit = Ok
  BY <1>a, <1>n DEF Save
<1>p. /\ p' \in ProcessType /\ p'.phase = p.phase /\ p'.boot = p.boot /\ p'.retry = p.retry
      /\ p'.core = p.core /\ (p'.victim <=> p.victim) /\ p'.coreDeaths = p.coreDeaths /\ (p'.recent <=> p.recent)
      /\ p'.start = p.start /\ p'.started = p.started /\ p'.running = p.running /\ (p'.bootTimer <=> p.bootTimer)
      /\ (p'.runTimer <=> p.runTimer) /\ p'.code = p.code /\ (p'.override <=> TRUE) /\ (p'.terminating <=> p.terminating)
  BY <1>0 DEF ProcessType
<1>h. /\ h' \in HistoryType /\ (h'.window <=> h.window) /\ h'.deaths = h.deaths /\ (h'.stable <=> h.stable)
      /\ h'.badBoots = h.badBoots /\ h'.code = h.code
  BY <1>0
<1>d. disk' \in RecordType /\ Written'
  BY <1>0, <1>w, <1>n, Saves
<1>u. up' = up /\ remember' = remember /\ boots' = boots
  OBVIOUS
<1>1. TypeOK'
  BY <1>0, <1>w, <1>a, <1>g, <1>p, <1>h, <1>d, <1>u
     DEF TypeOK, RecordType, GuardType, ProcessType, HistoryType, Written
<1>2. StrikesAreDeaths'
  BY <1>0, <1>w, <1>a, <1>g, <1>p, <1>h, <1>d, <1>u DEF StrikesAreDeaths
<1>3. CrashLoopEnds'
  BY <1>0, <1>w, <1>a, <1>g, <1>p, <1>h, <1>d, <1>u DEF CrashLoopEnds, BootInv
<1>4. ApiStaysUp'
  BY <1>0, <1>w, <1>a, <1>g, <1>p, <1>h, <1>d, <1>u DEF ApiStaysUp
<1>5. LastExitIsTrue'
  BY <1>0, <1>w, <1>a, <1>g, <1>p, <1>h, <1>d, <1>u DEF LastExitIsTrue
<1>6. DiskInv'
  BY <1>0, <1>w, <1>a, <1>g, <1>p, <1>h, <1>d, <1>u DEF DiskInv, Written
<1>7. WindowInv'
  BY <1>0, <1>w, <1>a, <1>g, <1>p, <1>h, <1>d, <1>u DEF WindowInv, BootInv
<1>8. CountInv'
  BY <1>0, <1>w, <1>a, <1>g, <1>p, <1>h, <1>d, <1>u DEF CountInv
<1>9. BootInv'
  BY <1>0, <1>w, <1>a, <1>g, <1>p, <1>h, <1>d, <1>u DEF BootInv, WindowInv, CrashLoopEnds, NoStart, Terminating
<1>10. RunInv'
  BY <1>0, <1>w, <1>a, <1>g, <1>p, <1>h, <1>d, <1>u DEF RunInv, WindowInv, BootInv
<1>11. ExitInv'
  BY <1>0, <1>w, <1>a, <1>g, <1>p, <1>h, <1>d, <1>u
     DEF ExitInv, Terminating, ExitCode, KeepsArm, Code, Ok, CoreGaveUp, Stuck, Restart, Config, None
<1>12. StableInv'
  BY <1>0, <1>w, <1>a, <1>g, <1>p, <1>h, <1>d, <1>u DEF StableInv
<1> QED BY <1>1, <1>2, <1>3, <1>4, <1>5, <1>6, <1>7, <1>8, <1>9, <1>10, <1>11, <1>12

\* The exit is noted.
LEMMA RunTerminateStep ==
  ASSUME IInv, RunTerminate
         
  PROVE  IInv'
<1> USE LimitAssumption, BoundAssumption, ProfilesAssumption DEF IInv
<1>0. /\ disk \in RecordType /\ g \in GuardType /\ p \in ProcessType /\ h \in HistoryType
      /\ remember \in Id /\ boots \in 0 .. MaxBoots /\ g.strikes \in Nat /\ h.deaths \in Nat
      /\ h.badBoots \in Nat
      /\ g.unstable \in Nat /\ disk.unstable \in Nat /\ up \in BOOLEAN
      /\ None \in Id /\ NoStart \in [id : Id, boot : BOOLEAN] /\ NoStart.id = None /\ ~NoStart.boot
      /\ (g.armed => p.phase \in {"Armed", "Done"})
  BY Types DEF GuardType, HistoryType, RecordType, NoStart, Id
<1>w. Written
  BY DEF DiskInv, RunTerminate
<1>a. ExitCode \in Code /\ up /\ Terminating /\ ~p.terminating
  BY <1>0 DEF RunTerminate, ExitCode, Code, ProcessType
<1>n. LET n == NoteExit(g, ExitCode) IN /\ n \in GuardType /\ (n.armed <=> g.armed /\ KeepsArm(ExitCode)) /\ n.strikes = g.strikes
             /\ n.profile = g.profile /\ n.open = g.open /\ n.unstable = g.unstable /\ n.exit = ExitCode
  BY <1>0, <1>a, Notes
<1>g. /\ g' \in GuardType /\ g'.profile = g.profile /\ g'.strikes = g.strikes /\ (g'.armed <=> g.armed /\ KeepsArm(ExitCode))
      /\ (g'.open <=> g.open) /\ g'.unstable = g.unstable /\ g'.exit = ExitCode
  BY <1>n DEF RunTerminate, Save
<1>p. /\ p' \in ProcessType /\ p'.phase = p.phase /\ p'.boot = p.boot /\ p'.retry = p.retry
      /\ p'.core = p.core /\ (p'.victim <=> p.victim) /\ p'.coreDeaths = p.coreDeaths /\ (p'.recent <=> p.recent)
      /\ p'.start = p.start /\ p'.started = p.started /\ p'.running = p.running /\ (p'.bootTimer <=> p.bootTimer)
      /\ (p'.runTimer <=> p.runTimer) /\ p'.code = p.code /\ (p'.override <=> p.override) /\ (p'.terminating <=> TRUE)
  BY <1>0 DEF RunTerminate, ProcessType
<1>h. /\ h' \in HistoryType /\ (h'.window <=> h.window /\ KeepsArm(ExitCode)) /\ h'.deaths = h.deaths /\ (h'.stable <=> h.stable)
      /\ h'.badBoots = h.badBoots /\ h'.code = h.code
  BY <1>0 DEF RunTerminate, HistoryType, KeepsArm
<1>d. disk' \in RecordType /\ Written'
  BY <1>0, <1>a, <1>w, <1>n, Saves DEF RunTerminate
<1>u. up' = up /\ remember' = remember /\ boots' = boots
  BY DEF RunTerminate
<1>1. TypeOK'
  BY <1>0, <1>w, <1>a, <1>g, <1>p, <1>h, <1>d, <1>u
     DEF TypeOK, RecordType, GuardType, ProcessType, HistoryType, Written
<1>2. StrikesAreDeaths'
  BY <1>0, <1>w, <1>a, <1>g, <1>p, <1>h, <1>d, <1>u DEF StrikesAreDeaths
<1>3. CrashLoopEnds'
  BY <1>0, <1>w, <1>a, <1>g, <1>p, <1>h, <1>d, <1>u DEF CrashLoopEnds, BootInv
<1>4. ApiStaysUp'
  BY <1>0, <1>w, <1>a, <1>g, <1>p, <1>h, <1>d, <1>u DEF ApiStaysUp
<1>5. LastExitIsTrue'
  BY <1>0, <1>w, <1>a, <1>g, <1>p, <1>h, <1>d, <1>u DEF LastExitIsTrue
<1>6. DiskInv'
  BY <1>0, <1>w, <1>a, <1>g, <1>p, <1>h, <1>d, <1>u DEF DiskInv, Written
<1>7. WindowInv'
  BY <1>0, <1>w, <1>a, <1>g, <1>p, <1>h, <1>d, <1>u DEF WindowInv, BootInv
<1>8. CountInv'
  BY <1>0, <1>w, <1>a, <1>g, <1>p, <1>h, <1>d, <1>u DEF CountInv
<1>9. BootInv'
  BY <1>0, <1>w, <1>a, <1>g, <1>p, <1>h, <1>d, <1>u DEF BootInv, WindowInv, CrashLoopEnds, NoStart, Terminating
<1>10. RunInv'
  BY <1>0, <1>w, <1>a, <1>g, <1>p, <1>h, <1>d, <1>u DEF RunInv, WindowInv, BootInv
<1>11. ExitInv'
  BY <1>0, <1>w, <1>a, <1>g, <1>p, <1>h, <1>d, <1>u
     DEF ExitInv, Terminating, ExitCode, KeepsArm, Code, Ok, CoreGaveUp, Stuck, Restart, Config, None
<1>12. StableInv'
  BY <1>0, <1>w, <1>a, <1>g, <1>p, <1>h, <1>d, <1>u DEF StableInv
<1> QED BY <1>1, <1>2, <1>3, <1>4, <1>5, <1>6, <1>7, <1>8, <1>9, <1>10, <1>11, <1>12

\* The watchdog restarts the core.
LEMMA WatchdogResetsStep ==
  ASSUME IInv, WatchdogResets
         
  PROVE  IInv'
<1> USE LimitAssumption, BoundAssumption, ProfilesAssumption DEF IInv
<1>0. /\ disk \in RecordType /\ g \in GuardType /\ p \in ProcessType /\ h \in HistoryType
      /\ remember \in Id /\ boots \in 0 .. MaxBoots /\ g.strikes \in Nat /\ h.deaths \in Nat
      /\ h.badBoots \in Nat
      /\ g.unstable \in Nat /\ disk.unstable \in Nat /\ up \in BOOLEAN
      /\ None \in Id /\ NoStart \in [id : Id, boot : BOOLEAN] /\ NoStart.id = None /\ ~NoStart.boot
      /\ (g.armed => p.phase \in {"Armed", "Done"})
  BY Types DEF GuardType, HistoryType, RecordType, NoStart, Id
<1>w. up /\ Written
  BY DEF DiskInv, WatchdogResets
<1>a. p.code = None /\ ~p.bootTimer /\ p.core = "up" /\ p.start # NoStart
  BY DEF WatchdogResets, Terminating
<1>g. /\ g' \in GuardType /\ g'.profile = g.profile /\ g'.strikes = g.strikes /\ (g'.armed <=> g.armed)
      /\ (g'.open <=> g.open) /\ g'.unstable = g.unstable /\ g'.exit = g.exit
  BY <1>0 DEF WatchdogResets
<1>p. /\ p' \in ProcessType /\ p'.phase = p.phase /\ p'.boot = p.boot /\ p'.retry = p.retry
      /\ p'.core = "down" /\ (p'.victim <=> p.phase = "Armed") /\ p'.coreDeaths = p.coreDeaths /\ (p'.recent <=> p.recent)
      /\ p'.start = p.start /\ p'.started = p.started /\ p'.running = p.running /\ (p'.bootTimer <=> p.bootTimer)
      /\ (p'.runTimer <=> p.runTimer) /\ p'.code = p.code /\ (p'.override <=> p.override) /\ (p'.terminating <=> p.terminating)
  BY <1>0 DEF WatchdogResets, ProcessType
<1>h. /\ h' \in HistoryType /\ (h'.window <=> h.window) /\ h'.deaths = h.deaths /\ (h'.stable <=> h.stable)
      /\ h'.badBoots = h.badBoots /\ h'.code = h.code
  BY <1>0 DEF WatchdogResets
<1>d. disk' \in RecordType /\ Written'
  BY <1>0, <1>w, <1>g DEF Written, WatchdogResets
<1>u. up' = up /\ remember' = remember /\ boots' = boots
  BY DEF WatchdogResets
<1>1. TypeOK'
  BY <1>0, <1>w, <1>a, <1>g, <1>p, <1>h, <1>d, <1>u
     DEF TypeOK, RecordType, GuardType, ProcessType, HistoryType, Written
<1>2. StrikesAreDeaths'
  BY <1>0, <1>w, <1>a, <1>g, <1>p, <1>h, <1>d, <1>u DEF StrikesAreDeaths
<1>3. CrashLoopEnds'
  BY <1>0, <1>w, <1>a, <1>g, <1>p, <1>h, <1>d, <1>u DEF CrashLoopEnds, BootInv
<1>4. ApiStaysUp'
  BY <1>0, <1>w, <1>a, <1>g, <1>p, <1>h, <1>d, <1>u DEF ApiStaysUp
<1>5. LastExitIsTrue'
  BY <1>0, <1>w, <1>a, <1>g, <1>p, <1>h, <1>d, <1>u DEF LastExitIsTrue
<1>6. DiskInv'
  BY <1>0, <1>w, <1>a, <1>g, <1>p, <1>h, <1>d, <1>u DEF DiskInv, Written
<1>7. WindowInv'
  BY <1>0, <1>w, <1>a, <1>g, <1>p, <1>h, <1>d, <1>u DEF WindowInv, BootInv
<1>8. CountInv'
  BY <1>0, <1>w, <1>a, <1>g, <1>p, <1>h, <1>d, <1>u DEF CountInv
<1>9. BootInv'
  BY <1>0, <1>w, <1>a, <1>g, <1>p, <1>h, <1>d, <1>u DEF BootInv, WindowInv, CrashLoopEnds, NoStart, Terminating
<1>10. RunInv'
  BY <1>0, <1>w, <1>a, <1>g, <1>p, <1>h, <1>d, <1>u DEF RunInv, WindowInv, BootInv
<1>11. ExitInv'
  BY <1>0, <1>w, <1>a, <1>g, <1>p, <1>h, <1>d, <1>u
     DEF ExitInv, Terminating, ExitCode, KeepsArm, Code, Ok, CoreGaveUp, Stuck, Restart, Config, None
<1>12. StableInv'
  BY <1>0, <1>w, <1>a, <1>g, <1>p, <1>h, <1>d, <1>u DEF StableInv
<1> QED BY <1>1, <1>2, <1>3, <1>4, <1>5, <1>6, <1>7, <1>8, <1>9, <1>10, <1>11, <1>12

\* The core comes up and takes the boot start, which is armed.
LEMMA BootStartTaken ==
  ASSUME IInv, up,
         ~p.terminating, p.core = "down", p.phase = "Waiting", Save(Arm(g, p.boot)),
         p' = [p EXCEPT !.core = "up", !.phase = "Armed", !.retry = None, !.start = [id |-> p.boot, boot |-> TRUE]],
         h' = [h EXCEPT !.window = TRUE],
         UNCHANGED <<remember, up, boots>>
  PROVE  IInv'
<1> USE LimitAssumption, BoundAssumption, ProfilesAssumption DEF IInv
<1>0. /\ disk \in RecordType /\ g \in GuardType /\ p \in ProcessType /\ h \in HistoryType
      /\ remember \in Id /\ boots \in 0 .. MaxBoots /\ g.strikes \in Nat /\ h.deaths \in Nat
      /\ h.badBoots \in Nat
      /\ g.unstable \in Nat /\ disk.unstable \in Nat /\ up \in BOOLEAN
      /\ None \in Id /\ NoStart \in [id : Id, boot : BOOLEAN] /\ NoStart.id = None /\ ~NoStart.boot
      /\ (g.armed => p.phase \in {"Armed", "Done"})
  BY Types DEF GuardType, HistoryType, RecordType, NoStart, Id
<1>w. Written
  BY DEF DiskInv
<1>a. /\ LET s == [id |-> p.boot, boot |-> TRUE] IN s \in [id : Id, boot : BOOLEAN] /\ s.id = p.boot /\ s.boot
      /\ p.boot \in Id /\ p.boot # None /\ p.boot = g.profile /\ ~p.recent /\ ~g.armed
  BY <1>0 DEF BootInv, ProcessType
<1>n. LET a == Arm(g, p.boot) IN /\ a \in GuardType /\ a.armed /\ a.strikes = g.strikes /\ a.profile = g.profile /\ a.open = g.open
             /\ a.unstable = g.unstable /\ a.exit = g.exit
  BY <1>0, <1>a, Arms
<1>g. /\ g' \in GuardType /\ g'.profile = g.profile /\ g'.strikes = g.strikes /\ (g'.armed <=> TRUE)
      /\ (g'.open <=> g.open) /\ g'.unstable = g.unstable /\ g'.exit = g.exit
  BY <1>n DEF Save
<1>p. /\ p' \in ProcessType /\ p'.phase = "Armed" /\ p'.boot = p.boot /\ p'.retry = None
      /\ p'.core = "up" /\ (p'.victim <=> p.victim) /\ p'.coreDeaths = p.coreDeaths /\ (p'.recent <=> p.recent)
      /\ p'.start = [id |-> p.boot, boot |-> TRUE] /\ p'.started = p.started /\ p'.running = p.running /\ (p'.bootTimer <=> p.bootTimer)
      /\ (p'.runTimer <=> p.runTimer) /\ p'.code = p.code /\ (p'.override <=> p.override) /\ (p'.terminating <=> p.terminating)
  BY <1>0, <1>a DEF ProcessType
<1>h. /\ h' \in HistoryType /\ (h'.window <=> TRUE) /\ h'.deaths = h.deaths /\ (h'.stable <=> h.stable)
      /\ h'.badBoots = h.badBoots /\ h'.code = h.code
  BY <1>0 DEF HistoryType
<1>d. disk' \in RecordType /\ Written'
  BY <1>0, <1>w, <1>n, Saves
<1>u. up' = up /\ remember' = remember /\ boots' = boots
  OBVIOUS
<1>1. TypeOK'
  BY <1>0, <1>w, <1>a, <1>g, <1>p, <1>h, <1>d, <1>u
     DEF TypeOK, RecordType, GuardType, ProcessType, HistoryType, Written
<1>2. StrikesAreDeaths'
  BY <1>0, <1>w, <1>a, <1>g, <1>p, <1>h, <1>d, <1>u DEF StrikesAreDeaths
<1>3. CrashLoopEnds'
  BY <1>0, <1>w, <1>a, <1>g, <1>p, <1>h, <1>d, <1>u DEF CrashLoopEnds, BootInv
<1>4. ApiStaysUp'
  BY <1>0, <1>w, <1>a, <1>g, <1>p, <1>h, <1>d, <1>u DEF ApiStaysUp
<1>5. LastExitIsTrue'
  BY <1>0, <1>w, <1>a, <1>g, <1>p, <1>h, <1>d, <1>u DEF LastExitIsTrue
<1>6. DiskInv'
  BY <1>0, <1>w, <1>a, <1>g, <1>p, <1>h, <1>d, <1>u DEF DiskInv, Written
<1>7. WindowInv'
  BY <1>0, <1>w, <1>a, <1>g, <1>p, <1>h, <1>d, <1>u DEF WindowInv, BootInv
<1>8. CountInv'
  BY <1>0, <1>w, <1>a, <1>g, <1>p, <1>h, <1>d, <1>u DEF CountInv
<1>9. BootInv'
  BY <1>0, <1>w, <1>a, <1>g, <1>p, <1>h, <1>d, <1>u DEF BootInv, WindowInv, CrashLoopEnds, NoStart, Terminating
<1>10. RunInv'
  BY <1>0, <1>w, <1>a, <1>g, <1>p, <1>h, <1>d, <1>u DEF RunInv, WindowInv, BootInv
<1>11. ExitInv'
  BY <1>0, <1>w, <1>a, <1>g, <1>p, <1>h, <1>d, <1>u
     DEF ExitInv, Terminating, ExitCode, KeepsArm, Code, Ok, CoreGaveUp, Stuck, Restart, Config, None
<1>12. StableInv'
  BY <1>0, <1>w, <1>a, <1>g, <1>p, <1>h, <1>d, <1>u DEF StableInv
<1> QED BY <1>1, <1>2, <1>3, <1>4, <1>5, <1>6, <1>7, <1>8, <1>9, <1>10, <1>11, <1>12

\* The core comes up, and the boot start is held or finds no profile.
LEMMA BootStartHeld ==
  ASSUME IInv, up,
         ~p.terminating, p.core = "down", p.phase = "Waiting",
         p' = [p EXCEPT !.core = "up", !.phase = "Done"],
         UNCHANGED <<disk, remember, up, g, boots, h>>
  PROVE  IInv'
<1> USE LimitAssumption, BoundAssumption, ProfilesAssumption DEF IInv
<1>0. /\ disk \in RecordType /\ g \in GuardType /\ p \in ProcessType /\ h \in HistoryType
      /\ remember \in Id /\ boots \in 0 .. MaxBoots /\ g.strikes \in Nat /\ h.deaths \in Nat
      /\ h.badBoots \in Nat
      /\ g.unstable \in Nat /\ disk.unstable \in Nat /\ up \in BOOLEAN
      /\ None \in Id /\ NoStart \in [id : Id, boot : BOOLEAN] /\ NoStart.id = None /\ ~NoStart.boot
      /\ (g.armed => p.phase \in {"Armed", "Done"})
  BY Types DEF GuardType, HistoryType, RecordType, NoStart, Id
<1>w. Written
  BY DEF DiskInv
<1>g. /\ g' \in GuardType /\ g'.profile = g.profile /\ g'.strikes = g.strikes /\ (g'.armed <=> g.armed)
      /\ (g'.open <=> g.open) /\ g'.unstable = g.unstable /\ g'.exit = g.exit
  BY <1>0
<1>p. /\ p' \in ProcessType /\ p'.phase = "Done" /\ p'.boot = p.boot /\ p'.retry = p.retry
      /\ p'.core = "up" /\ (p'.victim <=> p.victim) /\ p'.coreDeaths = p.coreDeaths /\ (p'.recent <=> p.recent)
      /\ p'.start = p.start /\ p'.started = p.started /\ p'.running = p.running /\ (p'.bootTimer <=> p.bootTimer)
      /\ (p'.runTimer <=> p.runTimer) /\ p'.code = p.code /\ (p'.override <=> p.override) /\ (p'.terminating <=> p.terminating)
  BY <1>0 DEF ProcessType
<1>h. /\ h' \in HistoryType /\ (h'.window <=> h.window) /\ h'.deaths = h.deaths /\ (h'.stable <=> h.stable)
      /\ h'.badBoots = h.badBoots /\ h'.code = h.code
  BY <1>0
<1>d. disk' \in RecordType /\ Written'
  BY <1>0, <1>w, <1>g DEF Written
<1>u. up' = up /\ remember' = remember /\ boots' = boots
  OBVIOUS
<1>1. TypeOK'
  BY <1>0, <1>w, <1>g, <1>p, <1>h, <1>d, <1>u
     DEF TypeOK, RecordType, GuardType, ProcessType, HistoryType, Written
<1>2. StrikesAreDeaths'
  BY <1>0, <1>w, <1>g, <1>p, <1>h, <1>d, <1>u DEF StrikesAreDeaths
<1>3. CrashLoopEnds'
  BY <1>0, <1>w, <1>g, <1>p, <1>h, <1>d, <1>u DEF CrashLoopEnds, BootInv
<1>4. ApiStaysUp'
  BY <1>0, <1>w, <1>g, <1>p, <1>h, <1>d, <1>u DEF ApiStaysUp
<1>5. LastExitIsTrue'
  BY <1>0, <1>w, <1>g, <1>p, <1>h, <1>d, <1>u DEF LastExitIsTrue
<1>6. DiskInv'
  BY <1>0, <1>w, <1>g, <1>p, <1>h, <1>d, <1>u DEF DiskInv, Written
<1>7. WindowInv'
  BY <1>0, <1>w, <1>g, <1>p, <1>h, <1>d, <1>u DEF WindowInv, BootInv
<1>8. CountInv'
  BY <1>0, <1>w, <1>g, <1>p, <1>h, <1>d, <1>u DEF CountInv
<1>9. BootInv'
  BY <1>0, <1>w, <1>g, <1>p, <1>h, <1>d, <1>u DEF BootInv, WindowInv, CrashLoopEnds, NoStart, Terminating
<1>10. RunInv'
  BY <1>0, <1>w, <1>g, <1>p, <1>h, <1>d, <1>u DEF RunInv, WindowInv, BootInv
<1>11. ExitInv'
  BY <1>0, <1>w, <1>g, <1>p, <1>h, <1>d, <1>u
     DEF ExitInv, Terminating, ExitCode, KeepsArm, Code, Ok, CoreGaveUp, Stuck, Restart, Config, None
<1>12. StableInv'
  BY <1>0, <1>w, <1>g, <1>p, <1>h, <1>d, <1>u DEF StableInv
<1> QED BY <1>1, <1>2, <1>3, <1>4, <1>5, <1>6, <1>7, <1>8, <1>9, <1>10, <1>11, <1>12

\* The core comes up for the started profile, or for none.
LEMMA CoreComesUp ==
  ASSUME IInv, up,
         ~p.terminating, p.core = "down", p.phase # "Waiting", p.start = NoStart,
         p' = [p EXCEPT !.core = "up", !.retry = IF p.started = None THEN @ ELSE None, !.start = [id |-> p.started, boot |-> FALSE]],
         UNCHANGED <<disk, remember, up, g, boots, h>>
  PROVE  IInv'
<1> USE LimitAssumption, BoundAssumption, ProfilesAssumption DEF IInv
<1>0. /\ disk \in RecordType /\ g \in GuardType /\ p \in ProcessType /\ h \in HistoryType
      /\ remember \in Id /\ boots \in 0 .. MaxBoots /\ g.strikes \in Nat /\ h.deaths \in Nat
      /\ h.badBoots \in Nat
      /\ g.unstable \in Nat /\ disk.unstable \in Nat /\ up \in BOOLEAN
      /\ None \in Id /\ NoStart \in [id : Id, boot : BOOLEAN] /\ NoStart.id = None /\ ~NoStart.boot
      /\ (g.armed => p.phase \in {"Armed", "Done"})
  BY Types DEF GuardType, HistoryType, RecordType, NoStart, Id
<1>w. Written
  BY DEF DiskInv
<1>a. LET s == [id |-> p.started, boot |-> FALSE] IN s \in [id : Id, boot : BOOLEAN] /\ s.id = p.started /\ ~s.boot /\ (p.started = None => s = NoStart)
  BY <1>0 DEF ProcessType, NoStart
<1>g. /\ g' \in GuardType /\ g'.profile = g.profile /\ g'.strikes = g.strikes /\ (g'.armed <=> g.armed)
      /\ (g'.open <=> g.open) /\ g'.unstable = g.unstable /\ g'.exit = g.exit
  BY <1>0
<1>p. /\ p' \in ProcessType /\ p'.phase = p.phase /\ p'.boot = p.boot /\ p'.retry = (IF p.started = None THEN p.retry ELSE None)
      /\ p'.core = "up" /\ (p'.victim <=> p.victim) /\ p'.coreDeaths = p.coreDeaths /\ (p'.recent <=> p.recent)
      /\ p'.start = [id |-> p.started, boot |-> FALSE] /\ p'.started = p.started /\ p'.running = p.running /\ (p'.bootTimer <=> p.bootTimer)
      /\ (p'.runTimer <=> p.runTimer) /\ p'.code = p.code /\ (p'.override <=> p.override) /\ (p'.terminating <=> p.terminating)
      /\ p'.start.id = p.started /\ ~p'.start.boot
  BY <1>0, <1>a DEF ProcessType
<1>h. /\ h' \in HistoryType /\ (h'.window <=> h.window) /\ h'.deaths = h.deaths /\ (h'.stable <=> h.stable)
      /\ h'.badBoots = h.badBoots /\ h'.code = h.code
  BY <1>0
<1>d. disk' \in RecordType /\ Written'
  BY <1>0, <1>w, <1>g DEF Written
<1>u. up' = up /\ remember' = remember /\ boots' = boots
  OBVIOUS
<1>1. TypeOK'
  BY <1>0, <1>w, <1>a, <1>g, <1>p, <1>h, <1>d, <1>u
     DEF TypeOK, RecordType, GuardType, ProcessType, HistoryType, Written
<1>2. StrikesAreDeaths'
  BY <1>0, <1>w, <1>a, <1>g, <1>p, <1>h, <1>d, <1>u DEF StrikesAreDeaths
<1>3. CrashLoopEnds'
  BY <1>0, <1>w, <1>a, <1>g, <1>p, <1>h, <1>d, <1>u DEF CrashLoopEnds, BootInv
<1>4. ApiStaysUp'
  BY <1>0, <1>w, <1>a, <1>g, <1>p, <1>h, <1>d, <1>u DEF ApiStaysUp
<1>5. LastExitIsTrue'
  BY <1>0, <1>w, <1>a, <1>g, <1>p, <1>h, <1>d, <1>u DEF LastExitIsTrue
<1>6. DiskInv'
  BY <1>0, <1>w, <1>a, <1>g, <1>p, <1>h, <1>d, <1>u DEF DiskInv, Written
<1>7. WindowInv'
  BY <1>0, <1>w, <1>a, <1>g, <1>p, <1>h, <1>d, <1>u DEF WindowInv, BootInv
<1>8. CountInv'
  BY <1>0, <1>w, <1>a, <1>g, <1>p, <1>h, <1>d, <1>u DEF CountInv
<1>9. BootInv'
  BY <1>0, <1>w, <1>a, <1>g, <1>p, <1>h, <1>d, <1>u DEF BootInv, WindowInv, CrashLoopEnds, NoStart, Terminating
<1>10. RunInv'
  BY <1>0, <1>w, <1>a, <1>g, <1>p, <1>h, <1>d, <1>u DEF RunInv, WindowInv, BootInv
<1>11. ExitInv'
  BY <1>0, <1>w, <1>a, <1>g, <1>p, <1>h, <1>d, <1>u
     DEF ExitInv, Terminating, ExitCode, KeepsArm, Code, Ok, CoreGaveUp, Stuck, Restart, Config, None
<1>12. StableInv'
  BY <1>0, <1>w, <1>a, <1>g, <1>p, <1>h, <1>d, <1>u DEF StableInv
<1> QED BY <1>1, <1>2, <1>3, <1>4, <1>5, <1>6, <1>7, <1>8, <1>9, <1>10, <1>11, <1>12

\* The core dies.
LEMMA CoreDiesStep ==
  ASSUME IInv, CoreDies
         
  PROVE  IInv'
<1> USE LimitAssumption, BoundAssumption, ProfilesAssumption DEF IInv
<1>0. /\ disk \in RecordType /\ g \in GuardType /\ p \in ProcessType /\ h \in HistoryType
      /\ remember \in Id /\ boots \in 0 .. MaxBoots /\ g.strikes \in Nat /\ h.deaths \in Nat
      /\ h.badBoots \in Nat
      /\ g.unstable \in Nat /\ disk.unstable \in Nat /\ up \in BOOLEAN
      /\ None \in Id /\ NoStart \in [id : Id, boot : BOOLEAN] /\ NoStart.id = None /\ ~NoStart.boot
      /\ (g.armed => p.phase \in {"Armed", "Done"})
  BY Types DEF GuardType, HistoryType, RecordType, NoStart, Id
<1>w. up /\ Written
  BY DEF DiskInv, CoreDies
<1>a. p.core = "up" /\ p.coreDeaths + 1 \in 0 .. MaxCoreDeaths
  BY <1>0 DEF CoreDies, ProcessType
<1>g. /\ g' \in GuardType /\ g'.profile = g.profile /\ g'.strikes = g.strikes /\ (g'.armed <=> g.armed)
      /\ (g'.open <=> g.open) /\ g'.unstable = g.unstable /\ g'.exit = g.exit
  BY <1>0 DEF CoreDies
<1>p. /\ p' \in ProcessType /\ p'.phase = p.phase /\ p'.boot = p.boot /\ p'.retry = p.retry
      /\ p'.core = "dead" /\ (p'.victim <=> p.phase = "Armed" \/ (p.boot # None /\ p.running = p.boot)) /\ (p'.recent <=> p.recent) /\ p'.start = p.start
      /\ p'.started = p.started /\ p'.running = None /\ (p'.bootTimer <=> p.bootTimer) /\ (p'.runTimer <=> FALSE)
      /\ p'.code = p.code /\ (p'.override <=> p.override) /\ (p'.terminating <=> p.terminating)
  BY <1>0, <1>a DEF CoreDies, ProcessType
<1>h. /\ h' \in HistoryType /\ (h'.window <=> h.window) /\ h'.deaths = h.deaths /\ (h'.stable <=> h.stable)
      /\ h'.badBoots = h.badBoots /\ h'.code = h.code
  BY <1>0 DEF CoreDies
<1>d. disk' \in RecordType /\ Written'
  BY <1>0, <1>w, <1>g DEF Written, CoreDies
<1>u. up' = up /\ remember' = remember /\ boots' = boots
  BY DEF CoreDies
<1>1. TypeOK'
  BY <1>0, <1>w, <1>a, <1>g, <1>p, <1>h, <1>d, <1>u
     DEF TypeOK, RecordType, GuardType, ProcessType, HistoryType, Written
<1>2. StrikesAreDeaths'
  BY <1>0, <1>w, <1>a, <1>g, <1>p, <1>h, <1>d, <1>u DEF StrikesAreDeaths
<1>3. CrashLoopEnds'
  BY <1>0, <1>w, <1>a, <1>g, <1>p, <1>h, <1>d, <1>u DEF CrashLoopEnds, BootInv
<1>4. ApiStaysUp'
  BY <1>0, <1>w, <1>a, <1>g, <1>p, <1>h, <1>d, <1>u DEF ApiStaysUp
<1>5. LastExitIsTrue'
  BY <1>0, <1>w, <1>a, <1>g, <1>p, <1>h, <1>d, <1>u DEF LastExitIsTrue
<1>6. DiskInv'
  BY <1>0, <1>w, <1>a, <1>g, <1>p, <1>h, <1>d, <1>u DEF DiskInv, Written
<1>7. WindowInv'
  BY <1>0, <1>w, <1>a, <1>g, <1>p, <1>h, <1>d, <1>u DEF WindowInv, BootInv
<1>8. CountInv'
  BY <1>0, <1>w, <1>a, <1>g, <1>p, <1>h, <1>d, <1>u DEF CountInv
<1>9. BootInv'
  BY <1>0, <1>w, <1>a, <1>g, <1>p, <1>h, <1>d, <1>u DEF BootInv, WindowInv, CrashLoopEnds, NoStart, Terminating
<1>10. RunInv'
  BY <1>0, <1>w, <1>a, <1>g, <1>p, <1>h, <1>d, <1>u DEF RunInv, WindowInv, BootInv
<1>11. ExitInv'
  BY <1>0, <1>w, <1>a, <1>g, <1>p, <1>h, <1>d, <1>u
     DEF ExitInv, Terminating, ExitCode, KeepsArm, Code, Ok, CoreGaveUp, Stuck, Restart, Config, None
<1>12. StableInv'
  BY <1>0, <1>w, <1>a, <1>g, <1>p, <1>h, <1>d, <1>u DEF StableInv
<1> QED BY <1>1, <1>2, <1>3, <1>4, <1>5, <1>6, <1>7, <1>8, <1>9, <1>10, <1>11, <1>12

\* The core is tried again.
LEMMA CoreRetriesStep ==
  ASSUME IInv, CoreRetries
         
  PROVE  IInv'
<1> USE LimitAssumption, BoundAssumption, ProfilesAssumption DEF IInv
<1>0. /\ disk \in RecordType /\ g \in GuardType /\ p \in ProcessType /\ h \in HistoryType
      /\ remember \in Id /\ boots \in 0 .. MaxBoots /\ g.strikes \in Nat /\ h.deaths \in Nat
      /\ h.badBoots \in Nat
      /\ g.unstable \in Nat /\ disk.unstable \in Nat /\ up \in BOOLEAN
      /\ None \in Id /\ NoStart \in [id : Id, boot : BOOLEAN] /\ NoStart.id = None /\ ~NoStart.boot
      /\ (g.armed => p.phase \in {"Armed", "Done"})
  BY Types DEF GuardType, HistoryType, RecordType, NoStart, Id
<1>w. up /\ Written
  BY DEF DiskInv, CoreRetries
<1>a. p.core = "gaveup" /\ p.code = None
  BY DEF CoreRetries, Terminating
<1>g. /\ g' \in GuardType /\ g'.profile = g.profile /\ g'.strikes = g.strikes /\ (g'.armed <=> g.armed)
      /\ (g'.open <=> g.open) /\ g'.unstable = g.unstable /\ g'.exit = g.exit
  BY <1>0 DEF CoreRetries
<1>p. /\ p' \in ProcessType /\ p'.phase = (IF p.retry = None THEN p.phase ELSE "Waiting") /\ p'.boot = p.boot /\ p'.retry = p.retry
      /\ p'.core = "down" /\ (p'.victim <=> p.victim) /\ p'.coreDeaths = p.coreDeaths /\ (p'.recent <=> FALSE)
      /\ p'.start = p.start /\ p'.started = p.started /\ p'.running = p.running /\ (p'.bootTimer <=> p.bootTimer)
      /\ (p'.runTimer <=> p.runTimer) /\ p'.code = p.code /\ (p'.override <=> p.override) /\ (p'.terminating <=> p.terminating)
  BY <1>0 DEF CoreRetries, ProcessType
<1>h. /\ h' \in HistoryType /\ (h'.window <=> h.window) /\ h'.deaths = h.deaths /\ (h'.stable <=> h.stable)
      /\ h'.badBoots = h.badBoots /\ h'.code = h.code
  BY <1>0 DEF CoreRetries
<1>d. disk' \in RecordType /\ Written'
  BY <1>0, <1>w, <1>g DEF Written, CoreRetries
<1>u. up' = up /\ remember' = remember /\ boots' = boots
  BY DEF CoreRetries
<1>1. TypeOK'
  BY <1>0, <1>w, <1>a, <1>g, <1>p, <1>h, <1>d, <1>u
     DEF TypeOK, RecordType, GuardType, ProcessType, HistoryType, Written, WindowInv
<1>2. StrikesAreDeaths'
  BY <1>0, <1>w, <1>a, <1>g, <1>p, <1>h, <1>d, <1>u DEF StrikesAreDeaths
<1>3. CrashLoopEnds'
  BY <1>0, <1>w, <1>a, <1>g, <1>p, <1>h, <1>d, <1>u DEF CrashLoopEnds, BootInv
<1>4. ApiStaysUp'
  BY <1>0, <1>w, <1>a, <1>g, <1>p, <1>h, <1>d, <1>u DEF ApiStaysUp
<1>5. LastExitIsTrue'
  BY <1>0, <1>w, <1>a, <1>g, <1>p, <1>h, <1>d, <1>u DEF LastExitIsTrue
<1>6. DiskInv'
  BY <1>0, <1>w, <1>a, <1>g, <1>p, <1>h, <1>d, <1>u DEF DiskInv, Written
<1>7. WindowInv'
  BY <1>0, <1>w, <1>a, <1>g, <1>p, <1>h, <1>d, <1>u DEF WindowInv, BootInv
<1>8. CountInv'
  BY <1>0, <1>w, <1>a, <1>g, <1>p, <1>h, <1>d, <1>u DEF CountInv
<1>9. BootInv'
  BY <1>0, <1>w, <1>a, <1>g, <1>p, <1>h, <1>d, <1>u DEF BootInv, WindowInv, CrashLoopEnds, NoStart, Terminating
<1>10. RunInv'
  BY <1>0, <1>w, <1>a, <1>g, <1>p, <1>h, <1>d, <1>u DEF RunInv, WindowInv, BootInv
<1>11. ExitInv'
  BY <1>0, <1>w, <1>a, <1>g, <1>p, <1>h, <1>d, <1>u
     DEF ExitInv, Terminating, ExitCode, KeepsArm, Code, Ok, CoreGaveUp, Stuck, Restart, Config, None
<1>12. StableInv'
  BY <1>0, <1>w, <1>a, <1>g, <1>p, <1>h, <1>d, <1>u DEF StableInv
<1> QED BY <1>1, <1>2, <1>3, <1>4, <1>5, <1>6, <1>7, <1>8, <1>9, <1>10, <1>11, <1>12

\* A start succeeds.
LEMMA StartSucceedsStep ==
  ASSUME IInv, StartSucceeds
         
  PROVE  IInv'
<1> USE LimitAssumption, BoundAssumption, ProfilesAssumption DEF IInv
<1>0. /\ disk \in RecordType /\ g \in GuardType /\ p \in ProcessType /\ h \in HistoryType
      /\ remember \in Id /\ boots \in 0 .. MaxBoots /\ g.strikes \in Nat /\ h.deaths \in Nat
      /\ h.badBoots \in Nat
      /\ g.unstable \in Nat /\ disk.unstable \in Nat /\ up \in BOOLEAN
      /\ None \in Id /\ NoStart \in [id : Id, boot : BOOLEAN] /\ NoStart.id = None /\ ~NoStart.boot
      /\ (g.armed => p.phase \in {"Armed", "Done"})
  BY Types DEF GuardType, HistoryType, RecordType, NoStart, Id
<1>w. up /\ Written
  BY DEF DiskInv, StartSucceeds
<1>a. p.core = "up" /\ p.start.id \in Id /\ p.start.id # None /\ remember' \in Id /\ ~p.terminating
  BY <1>0 DEF StartSucceeds, ProcessType
<1>g. /\ g' \in GuardType /\ g'.profile = g.profile /\ g'.strikes = g.strikes /\ (g'.armed <=> g.armed)
      /\ (g'.open <=> g.open) /\ g'.unstable = g.unstable /\ g'.exit = g.exit
  BY <1>0, Lifts DEF StartSucceeds
<1>p. /\ p' \in ProcessType /\ p'.phase = (IF p.start.boot /\ ~Terminating THEN "Done" ELSE p.phase) /\ p'.boot = p.boot /\ p'.retry = None
      /\ p'.core = p.core /\ (p'.victim <=> p.victim) /\ p'.coreDeaths = p.coreDeaths /\ (p'.recent <=> p.recent)
      /\ p'.start = NoStart /\ p'.started = p.start.id /\ p'.running = p.start.id /\ (p'.bootTimer <=> p.bootTimer \/ (p.start.boot /\ ~Terminating /\ p.phase = "Armed"))
      /\ (p'.runTimer <=> TRUE) /\ p'.code = p.code /\ (p'.override <=> p.override) /\ (p'.terminating <=> p.terminating)
  BY <1>0, <1>a, ZenonT(60) DEF StartSucceeds, ProcessType
<1>h. /\ h' \in HistoryType /\ (h'.window <=> h.window) /\ h'.deaths = h.deaths /\ (h'.stable <=> h.stable)
      /\ h'.badBoots = h.badBoots /\ h'.code = h.code
  BY <1>0 DEF StartSucceeds
<1>d. disk' \in RecordType /\ Written'
  BY <1>0, <1>w, <1>g DEF Written, StartSucceeds
<1>u. up' = up /\ boots' = boots
  BY DEF StartSucceeds
<1>1. TypeOK'
  BY <1>0, <1>w, <1>a, <1>g, <1>p, <1>h, <1>d, <1>u
     DEF TypeOK, RecordType, GuardType, ProcessType, HistoryType, Written
<1>2. StrikesAreDeaths'
  BY <1>0, <1>w, <1>a, <1>g, <1>p, <1>h, <1>d, <1>u DEF StrikesAreDeaths
<1>3. CrashLoopEnds'
  BY <1>0, <1>w, <1>a, <1>g, <1>p, <1>h, <1>d, <1>u DEF CrashLoopEnds, BootInv
<1>4. ApiStaysUp'
  BY <1>0, <1>w, <1>a, <1>g, <1>p, <1>h, <1>d, <1>u DEF ApiStaysUp
<1>5. LastExitIsTrue'
  BY <1>0, <1>w, <1>a, <1>g, <1>p, <1>h, <1>d, <1>u DEF LastExitIsTrue
<1>6. DiskInv'
  BY <1>0, <1>w, <1>a, <1>g, <1>p, <1>h, <1>d, <1>u DEF DiskInv, Written
<1>7. WindowInv'
  BY <1>0, <1>w, <1>a, <1>g, <1>p, <1>h, <1>d, <1>u DEF WindowInv, BootInv
<1>8. CountInv'
  BY <1>0, <1>w, <1>a, <1>g, <1>p, <1>h, <1>d, <1>u DEF CountInv
<1>9. BootInv'
  BY <1>0, <1>w, <1>a, <1>g, <1>p, <1>h, <1>d, <1>u DEF BootInv, WindowInv, CrashLoopEnds, NoStart, Terminating
<1>10. RunInv'
  BY <1>0, <1>w, <1>a, <1>g, <1>p, <1>h, <1>d, <1>u DEF RunInv, WindowInv, BootInv
<1>11. ExitInv'
  BY <1>0, <1>w, <1>a, <1>g, <1>p, <1>h, <1>d, <1>u
     DEF ExitInv, Terminating, ExitCode, KeepsArm, Code, Ok, CoreGaveUp, Stuck, Restart, Config, None
<1>12. StableInv'
  BY <1>0, <1>w, <1>a, <1>g, <1>p, <1>h, <1>d, <1>u DEF StableInv
<1> QED BY <1>1, <1>2, <1>3, <1>4, <1>5, <1>6, <1>7, <1>8, <1>9, <1>10, <1>11, <1>12

\* The boot start fails.
LEMMA StartFailsBoot ==
  ASSUME IInv, up,
         p.start.id # None, p.start.boot, p.code = None, p.phase = "Armed",
         p' = [p EXCEPT !.start = NoStart, !.phase = "Done"],
         Save(IF p.core = "up" THEN Disarm(g) ELSE Strike(g)), WindowEnds(p.core # "up"),
         UNCHANGED <<remember, up, boots>>
  PROVE  IInv'
<1> USE LimitAssumption, BoundAssumption, ProfilesAssumption DEF IInv
<1>0. /\ disk \in RecordType /\ g \in GuardType /\ p \in ProcessType /\ h \in HistoryType
      /\ remember \in Id /\ boots \in 0 .. MaxBoots /\ g.strikes \in Nat /\ h.deaths \in Nat
      /\ h.badBoots \in Nat
      /\ g.unstable \in Nat /\ disk.unstable \in Nat /\ up \in BOOLEAN
      /\ None \in Id /\ NoStart \in [id : Id, boot : BOOLEAN] /\ NoStart.id = None /\ ~NoStart.boot
      /\ (g.armed => p.phase \in {"Armed", "Done"})
  BY Types DEF GuardType, HistoryType, RecordType, NoStart, Id
<1>w. Written
  BY DEF DiskInv
<1>a. LET r == IF p.core = "up" THEN Disarm(g) ELSE Strike(g)
      IN  /\ r \in GuardType /\ ~r.armed /\ r.profile = g.profile /\ r.open = g.open /\ r.unstable = g.unstable /\ r.exit = g.exit
          /\ r.strikes = (IF p.core # "up" /\ g.armed THEN Min({g.strikes + 1, StrikesToSuppress}) ELSE g.strikes)
  BY <1>0, Disarms, Strikes DEF Strike
<1>g. /\ g' \in GuardType /\ g'.profile = g.profile /\ g'.strikes = (IF p.core # "up" /\ g.armed THEN Min({g.strikes + 1, StrikesToSuppress}) ELSE g.strikes) /\ (g'.armed <=> FALSE)
      /\ (g'.open <=> g.open) /\ g'.unstable = g.unstable /\ g'.exit = g.exit
  BY <1>a DEF Save
<1>p. /\ p' \in ProcessType /\ p'.phase = "Done" /\ p'.boot = p.boot /\ p'.retry = p.retry
      /\ p'.core = p.core /\ (p'.victim <=> p.victim) /\ p'.coreDeaths = p.coreDeaths /\ (p'.recent <=> p.recent)
      /\ p'.start = NoStart /\ p'.started = p.started /\ p'.running = p.running /\ (p'.bootTimer <=> p.bootTimer)
      /\ (p'.runTimer <=> p.runTimer) /\ p'.code = p.code /\ (p'.override <=> p.override) /\ (p'.terminating <=> p.terminating)
  BY <1>0 DEF ProcessType
<1>h. /\ h' \in HistoryType /\ (h'.window <=> FALSE) /\ h'.deaths = (IF h.window /\ p.core # "up" THEN h.deaths + 1 ELSE h.deaths) /\ (h'.stable <=> h.stable)
      /\ h'.badBoots = h.badBoots /\ h'.code = h.code
  <2>1. CASE h.window /\ p.core # "up"
    <3>1. h' = [h EXCEPT !.window = FALSE, !.deaths = h.deaths + 1] /\ h.deaths + 1 \in Nat
      BY <1>0, <2>1 DEF WindowEnds
    <3> QED BY <1>0, <2>1, <3>1 DEF HistoryType
  <2>2. CASE ~(h.window /\ p.core # "up")
    <3>1. h' = [h EXCEPT !.window = FALSE, !.deaths = h.deaths]
      BY <2>2 DEF WindowEnds
    <3> QED BY <1>0, <2>2, <3>1 DEF HistoryType
  <2> QED BY <2>1, <2>2
<1>d. disk' \in RecordType /\ Written'
  BY <1>0, <1>w, <1>a, Saves
<1>u. up' = up /\ remember' = remember /\ boots' = boots
  OBVIOUS
<1>1. TypeOK'
  BY <1>0, <1>w, <1>a, <1>g, <1>p, <1>h, <1>d, <1>u
     DEF TypeOK, RecordType, GuardType, ProcessType, HistoryType, Written
<1>2. StrikesAreDeaths'
  <2>1. g.strikes = Cap(h.deaths)
    BY <1>0, <1>w DEF StrikesAreDeaths, Cap
  <2>2. g'.strikes = (IF p.core # "up" /\ g.armed THEN Cap(g.strikes + 1) ELSE g.strikes)
    BY <1>g DEF Cap
  <2>3. h'.deaths = (IF p.core # "up" /\ g.armed THEN h.deaths + 1 ELSE h.deaths)
    BY <1>h DEF WindowInv
  <2>4. g'.strikes = Cap(h'.deaths)
    BY <1>0, <2>1, <2>2, <2>3, StrikeCounts
  <2> QED BY <2>4 DEF StrikesAreDeaths, Cap
<1>3. CrashLoopEnds'
  BY <1>0, <1>w, <1>a, <1>g, <1>p, <1>h, <1>d, <1>u DEF CrashLoopEnds, BootInv
<1>4. ApiStaysUp'
  BY <1>0, <1>w, <1>a, <1>g, <1>p, <1>h, <1>d, <1>u DEF ApiStaysUp
<1>5. LastExitIsTrue'
  BY <1>0, <1>w, <1>a, <1>g, <1>p, <1>h, <1>d, <1>u DEF LastExitIsTrue
<1>6. DiskInv'
  BY <1>0, <1>w, <1>a, <1>g, <1>p, <1>h, <1>d, <1>u DEF DiskInv, Written
<1>7. WindowInv'
  BY <1>0, <1>w, <1>a, <1>g, <1>p, <1>h, <1>d, <1>u DEF WindowInv, BootInv
<1>8. CountInv'
  BY <1>0, <1>w, <1>a, <1>g, <1>p, <1>h, <1>d, <1>u DEF CountInv
<1>9. BootInv'
  BY <1>0, <1>w, <1>a, <1>g, <1>p, <1>h, <1>d, <1>u DEF BootInv, WindowInv, CrashLoopEnds, NoStart, Terminating
<1>10. RunInv'
  BY <1>0, <1>w, <1>a, <1>g, <1>p, <1>h, <1>d, <1>u DEF RunInv, WindowInv, BootInv
<1>11. ExitInv'
  BY <1>0, <1>w, <1>a, <1>g, <1>p, <1>h, <1>d, <1>u
     DEF ExitInv, Terminating, ExitCode, KeepsArm, Code, Ok, CoreGaveUp, Stuck, Restart, Config, None
<1>12. StableInv'
  BY <1>0, <1>w, <1>a, <1>g, <1>p, <1>h, <1>d, <1>u DEF StableInv
<1> QED BY <1>1, <1>2, <1>3, <1>4, <1>5, <1>6, <1>7, <1>8, <1>9, <1>10, <1>11, <1>12

\* Another start fails, or the boot start while the process exits.
LEMMA StartFailsOther ==
  ASSUME IInv, up,
         p.start.id # None, ~p.start.boot \/ Terminating,
         p' = [p EXCEPT !.start = NoStart],
         UNCHANGED <<disk, remember, up, g, boots, h>>
  PROVE  IInv'
<1> USE LimitAssumption, BoundAssumption, ProfilesAssumption DEF IInv
<1>0. /\ disk \in RecordType /\ g \in GuardType /\ p \in ProcessType /\ h \in HistoryType
      /\ remember \in Id /\ boots \in 0 .. MaxBoots /\ g.strikes \in Nat /\ h.deaths \in Nat
      /\ h.badBoots \in Nat
      /\ g.unstable \in Nat /\ disk.unstable \in Nat /\ up \in BOOLEAN
      /\ None \in Id /\ NoStart \in [id : Id, boot : BOOLEAN] /\ NoStart.id = None /\ ~NoStart.boot
      /\ (g.armed => p.phase \in {"Armed", "Done"})
  BY Types DEF GuardType, HistoryType, RecordType, NoStart, Id
<1>w. Written
  BY DEF DiskInv
<1>g. /\ g' \in GuardType /\ g'.profile = g.profile /\ g'.strikes = g.strikes /\ (g'.armed <=> g.armed)
      /\ (g'.open <=> g.open) /\ g'.unstable = g.unstable /\ g'.exit = g.exit
  BY <1>0
<1>p. /\ p' \in ProcessType /\ p'.phase = p.phase /\ p'.boot = p.boot /\ p'.retry = p.retry
      /\ p'.core = p.core /\ (p'.victim <=> p.victim) /\ p'.coreDeaths = p.coreDeaths /\ (p'.recent <=> p.recent)
      /\ p'.start = NoStart /\ p'.started = p.started /\ p'.running = p.running /\ (p'.bootTimer <=> p.bootTimer)
      /\ (p'.runTimer <=> p.runTimer) /\ p'.code = p.code /\ (p'.override <=> p.override) /\ (p'.terminating <=> p.terminating)
  BY <1>0 DEF ProcessType
<1>h. /\ h' \in HistoryType /\ (h'.window <=> h.window) /\ h'.deaths = h.deaths /\ (h'.stable <=> h.stable)
      /\ h'.badBoots = h.badBoots /\ h'.code = h.code
  BY <1>0
<1>d. disk' \in RecordType /\ Written'
  BY <1>0, <1>w, <1>g DEF Written
<1>u. up' = up /\ remember' = remember /\ boots' = boots
  OBVIOUS
<1>1. TypeOK'
  BY <1>0, <1>w, <1>g, <1>p, <1>h, <1>d, <1>u
     DEF TypeOK, RecordType, GuardType, ProcessType, HistoryType, Written
<1>2. StrikesAreDeaths'
  BY <1>0, <1>w, <1>g, <1>p, <1>h, <1>d, <1>u DEF StrikesAreDeaths
<1>3. CrashLoopEnds'
  BY <1>0, <1>w, <1>g, <1>p, <1>h, <1>d, <1>u DEF CrashLoopEnds, BootInv
<1>4. ApiStaysUp'
  BY <1>0, <1>w, <1>g, <1>p, <1>h, <1>d, <1>u DEF ApiStaysUp
<1>5. LastExitIsTrue'
  BY <1>0, <1>w, <1>g, <1>p, <1>h, <1>d, <1>u DEF LastExitIsTrue
<1>6. DiskInv'
  BY <1>0, <1>w, <1>g, <1>p, <1>h, <1>d, <1>u DEF DiskInv, Written
<1>7. WindowInv'
  BY <1>0, <1>w, <1>g, <1>p, <1>h, <1>d, <1>u DEF WindowInv, BootInv
<1>8. CountInv'
  BY <1>0, <1>w, <1>g, <1>p, <1>h, <1>d, <1>u DEF CountInv
<1>9. BootInv'
  BY <1>0, <1>w, <1>g, <1>p, <1>h, <1>d, <1>u DEF BootInv, WindowInv, CrashLoopEnds, NoStart, Terminating
<1>10. RunInv'
  BY <1>0, <1>w, <1>g, <1>p, <1>h, <1>d, <1>u DEF RunInv, WindowInv, BootInv
<1>11. ExitInv'
  BY <1>0, <1>w, <1>g, <1>p, <1>h, <1>d, <1>u
     DEF ExitInv, Terminating, ExitCode, KeepsArm, Code, Ok, CoreGaveUp, Stuck, Restart, Config, None
<1>12. StableInv'
  BY <1>0, <1>w, <1>g, <1>p, <1>h, <1>d, <1>u DEF StableInv
<1> QED BY <1>1, <1>2, <1>3, <1>4, <1>5, <1>6, <1>7, <1>8, <1>9, <1>10, <1>11, <1>12

\* A start by the API.
LEMMA UserStartsStep ==
  ASSUME IInv, NEW id \in Profiles, UserStarts(id)
         
  PROVE  IInv'
<1> USE LimitAssumption, BoundAssumption, ProfilesAssumption DEF IInv
<1>0. /\ disk \in RecordType /\ g \in GuardType /\ p \in ProcessType /\ h \in HistoryType
      /\ remember \in Id /\ boots \in 0 .. MaxBoots /\ g.strikes \in Nat /\ h.deaths \in Nat
      /\ h.badBoots \in Nat
      /\ g.unstable \in Nat /\ disk.unstable \in Nat /\ up \in BOOLEAN
      /\ None \in Id /\ NoStart \in [id : Id, boot : BOOLEAN] /\ NoStart.id = None /\ ~NoStart.boot
      /\ (g.armed => p.phase \in {"Armed", "Done"})
  BY Types DEF GuardType, HistoryType, RecordType, NoStart, Id
<1>w. up /\ Written
  BY DEF DiskInv, UserStarts
<1>a. p.core = "up" /\ p.code = None /\ p.start.id = None /\ remember' \in Id /\ id \in Id /\ id # None
      /\ LET s == [id |-> id, boot |-> FALSE] IN s \in [id : Id, boot : BOOLEAN] /\ s.id = id /\ ~s.boot
  BY <1>0 DEF UserStarts, Terminating, Id, None
<1>g. /\ g' \in GuardType /\ g'.profile = g.profile /\ g'.strikes = g.strikes /\ (g'.armed <=> g.armed)
      /\ (g'.open <=> g.open) /\ g'.unstable = g.unstable /\ g'.exit = g.exit
  BY <1>0 DEF UserStarts
<1>p. /\ p' \in ProcessType /\ p'.phase = p.phase /\ p'.boot = p.boot /\ p'.retry = None
      /\ p'.core = p.core /\ (p'.victim <=> p.victim) /\ p'.coreDeaths = p.coreDeaths /\ (p'.recent <=> p.recent)
      /\ p'.start = [id |-> id, boot |-> FALSE] /\ p'.started = (IF p.running = None THEN p.started ELSE None) /\ p'.running = None /\ (p'.bootTimer <=> p.bootTimer)
      /\ (p'.runTimer <=> FALSE) /\ p'.code = p.code /\ (p'.override <=> p.override) /\ (p'.terminating <=> p.terminating)
      /\ p'.start.id = id /\ ~p'.start.boot
  BY <1>0, <1>a DEF UserStarts, ProcessType
<1>h. /\ h' \in HistoryType /\ (h'.window <=> h.window) /\ h'.deaths = h.deaths /\ (h'.stable <=> h.stable)
      /\ h'.badBoots = h.badBoots /\ h'.code = h.code
  BY <1>0 DEF UserStarts
<1>d. disk' \in RecordType /\ Written'
  BY <1>0, <1>w, <1>g DEF Written, UserStarts
<1>u. up' = up /\ boots' = boots
  BY DEF UserStarts
<1>1. TypeOK'
  BY <1>0, <1>w, <1>a, <1>g, <1>p, <1>h, <1>d, <1>u
     DEF TypeOK, RecordType, GuardType, ProcessType, HistoryType, Written
<1>2. StrikesAreDeaths'
  BY <1>0, <1>w, <1>a, <1>g, <1>p, <1>h, <1>d, <1>u DEF StrikesAreDeaths
<1>3. CrashLoopEnds'
  BY <1>0, <1>w, <1>a, <1>g, <1>p, <1>h, <1>d, <1>u DEF CrashLoopEnds, BootInv
<1>4. ApiStaysUp'
  BY <1>0, <1>w, <1>a, <1>g, <1>p, <1>h, <1>d, <1>u DEF ApiStaysUp
<1>5. LastExitIsTrue'
  BY <1>0, <1>w, <1>a, <1>g, <1>p, <1>h, <1>d, <1>u DEF LastExitIsTrue
<1>6. DiskInv'
  BY <1>0, <1>w, <1>a, <1>g, <1>p, <1>h, <1>d, <1>u DEF DiskInv, Written
<1>7. WindowInv'
  BY <1>0, <1>w, <1>a, <1>g, <1>p, <1>h, <1>d, <1>u DEF WindowInv, BootInv
<1>8. CountInv'
  BY <1>0, <1>w, <1>a, <1>g, <1>p, <1>h, <1>d, <1>u DEF CountInv
<1>9. BootInv'
  BY <1>0, <1>w, <1>a, <1>g, <1>p, <1>h, <1>d, <1>u DEF BootInv, WindowInv, CrashLoopEnds, NoStart, Terminating
<1>10. RunInv'
  BY <1>0, <1>w, <1>a, <1>g, <1>p, <1>h, <1>d, <1>u DEF RunInv, WindowInv, BootInv
<1>11. ExitInv'
  BY <1>0, <1>w, <1>a, <1>g, <1>p, <1>h, <1>d, <1>u
     DEF ExitInv, Terminating, ExitCode, KeepsArm, Code, Ok, CoreGaveUp, Stuck, Restart, Config, None
<1>12. StableInv'
  BY <1>0, <1>w, <1>a, <1>g, <1>p, <1>h, <1>d, <1>u DEF StableInv
<1> QED BY <1>1, <1>2, <1>3, <1>4, <1>5, <1>6, <1>7, <1>8, <1>9, <1>10, <1>11, <1>12

\* A stop by the API.
LEMMA UserStopsStep ==
  ASSUME IInv, UserStops
         
  PROVE  IInv'
<1> USE LimitAssumption, BoundAssumption, ProfilesAssumption DEF IInv
<1>0. /\ disk \in RecordType /\ g \in GuardType /\ p \in ProcessType /\ h \in HistoryType
      /\ remember \in Id /\ boots \in 0 .. MaxBoots /\ g.strikes \in Nat /\ h.deaths \in Nat
      /\ h.badBoots \in Nat
      /\ g.unstable \in Nat /\ disk.unstable \in Nat /\ up \in BOOLEAN
      /\ None \in Id /\ NoStart \in [id : Id, boot : BOOLEAN] /\ NoStart.id = None /\ ~NoStart.boot
      /\ (g.armed => p.phase \in {"Armed", "Done"})
  BY Types DEF GuardType, HistoryType, RecordType, NoStart, Id
<1>w. up /\ Written
  BY DEF DiskInv, UserStops
<1>a. p.running # None /\ p.code = None /\ remember' \in Id
  BY DEF UserStops, Terminating, Id
<1>g. /\ g' \in GuardType /\ g'.profile = g.profile /\ g'.strikes = g.strikes /\ (g'.armed <=> g.armed)
      /\ (g'.open <=> g.open) /\ g'.unstable = g.unstable /\ g'.exit = g.exit
  BY <1>0 DEF UserStops
<1>p. /\ p' \in ProcessType /\ p'.phase = p.phase /\ p'.boot = p.boot /\ p'.retry = p.retry
      /\ p'.core = p.core /\ (p'.victim <=> p.victim) /\ p'.coreDeaths = p.coreDeaths /\ (p'.recent <=> p.recent)
      /\ p'.start = p.start /\ p'.started = None /\ p'.running = None /\ (p'.bootTimer <=> p.bootTimer)
      /\ (p'.runTimer <=> FALSE) /\ p'.code = p.code /\ (p'.override <=> p.override) /\ (p'.terminating <=> p.terminating)
  BY <1>0, <1>a DEF UserStops, ProcessType
<1>h. /\ h' \in HistoryType /\ (h'.window <=> h.window) /\ h'.deaths = h.deaths /\ (h'.stable <=> h.stable)
      /\ h'.badBoots = h.badBoots /\ h'.code = h.code
  BY <1>0 DEF UserStops
<1>d. disk' \in RecordType /\ Written'
  BY <1>0, <1>w, <1>g DEF Written, UserStops
<1>u. up' = up /\ boots' = boots
  BY DEF UserStops
<1>1. TypeOK'
  BY <1>0, <1>w, <1>a, <1>g, <1>p, <1>h, <1>d, <1>u
     DEF TypeOK, RecordType, GuardType, ProcessType, HistoryType, Written
<1>2. StrikesAreDeaths'
  BY <1>0, <1>w, <1>a, <1>g, <1>p, <1>h, <1>d, <1>u DEF StrikesAreDeaths
<1>3. CrashLoopEnds'
  BY <1>0, <1>w, <1>a, <1>g, <1>p, <1>h, <1>d, <1>u DEF CrashLoopEnds, BootInv
<1>4. ApiStaysUp'
  BY <1>0, <1>w, <1>a, <1>g, <1>p, <1>h, <1>d, <1>u DEF ApiStaysUp
<1>5. LastExitIsTrue'
  BY <1>0, <1>w, <1>a, <1>g, <1>p, <1>h, <1>d, <1>u DEF LastExitIsTrue
<1>6. DiskInv'
  BY <1>0, <1>w, <1>a, <1>g, <1>p, <1>h, <1>d, <1>u DEF DiskInv, Written
<1>7. WindowInv'
  BY <1>0, <1>w, <1>a, <1>g, <1>p, <1>h, <1>d, <1>u DEF WindowInv, BootInv
<1>8. CountInv'
  BY <1>0, <1>w, <1>a, <1>g, <1>p, <1>h, <1>d, <1>u DEF CountInv
<1>9. BootInv'
  BY <1>0, <1>w, <1>a, <1>g, <1>p, <1>h, <1>d, <1>u DEF BootInv, WindowInv, CrashLoopEnds, NoStart, Terminating
<1>10. RunInv'
  BY <1>0, <1>w, <1>a, <1>g, <1>p, <1>h, <1>d, <1>u DEF RunInv, WindowInv, BootInv
<1>11. ExitInv'
  BY <1>0, <1>w, <1>a, <1>g, <1>p, <1>h, <1>d, <1>u
     DEF ExitInv, Terminating, ExitCode, KeepsArm, Code, Ok, CoreGaveUp, Stuck, Restart, Config, None
<1>12. StableInv'
  BY <1>0, <1>w, <1>a, <1>g, <1>p, <1>h, <1>d, <1>u DEF StableInv
<1> QED BY <1>1, <1>2, <1>3, <1>4, <1>5, <1>6, <1>7, <1>8, <1>9, <1>10, <1>11, <1>12

\* The boot start is dropped.
LEMMA BootStartDroppedStep ==
  ASSUME IInv, BootStartDropped
         
  PROVE  IInv'
<1> USE LimitAssumption, BoundAssumption, ProfilesAssumption DEF IInv
<1>0. /\ disk \in RecordType /\ g \in GuardType /\ p \in ProcessType /\ h \in HistoryType
      /\ remember \in Id /\ boots \in 0 .. MaxBoots /\ g.strikes \in Nat /\ h.deaths \in Nat
      /\ h.badBoots \in Nat
      /\ g.unstable \in Nat /\ disk.unstable \in Nat /\ up \in BOOLEAN
      /\ None \in Id /\ NoStart \in [id : Id, boot : BOOLEAN] /\ NoStart.id = None /\ ~NoStart.boot
      /\ (g.armed => p.phase \in {"Armed", "Done"})
  BY Types DEF GuardType, HistoryType, RecordType, NoStart, Id
<1>w. up /\ Written
  BY DEF DiskInv, BootStartDropped
<1>a. p.phase = "Waiting" /\ p.code = None
  BY DEF BootStartDropped, Terminating
<1>g. /\ g' \in GuardType /\ g'.profile = g.profile /\ g'.strikes = g.strikes /\ (g'.armed <=> g.armed)
      /\ (g'.open <=> g.open) /\ g'.unstable = g.unstable /\ g'.exit = g.exit
  BY <1>0 DEF BootStartDropped
<1>p. /\ p' \in ProcessType /\ p'.phase = "Done" /\ p'.boot = p.boot /\ p'.retry = p.retry
      /\ p'.core = p.core /\ (p'.victim <=> p.victim) /\ p'.coreDeaths = p.coreDeaths /\ (p'.recent <=> p.recent)
      /\ p'.start = p.start /\ p'.started = p.started /\ p'.running = p.running /\ (p'.bootTimer <=> p.bootTimer)
      /\ (p'.runTimer <=> p.runTimer) /\ p'.code = p.code /\ (p'.override <=> p.override) /\ (p'.terminating <=> p.terminating)
  BY <1>0 DEF BootStartDropped, ProcessType
<1>h. /\ h' \in HistoryType /\ (h'.window <=> h.window) /\ h'.deaths = h.deaths /\ (h'.stable <=> h.stable)
      /\ h'.badBoots = h.badBoots /\ h'.code = h.code
  BY <1>0 DEF BootStartDropped
<1>d. disk' \in RecordType /\ Written'
  BY <1>0, <1>w, <1>g DEF Written, BootStartDropped
<1>u. up' = up /\ remember' = remember /\ boots' = boots
  BY DEF BootStartDropped
<1>1. TypeOK'
  BY <1>0, <1>w, <1>a, <1>g, <1>p, <1>h, <1>d, <1>u
     DEF TypeOK, RecordType, GuardType, ProcessType, HistoryType, Written
<1>2. StrikesAreDeaths'
  BY <1>0, <1>w, <1>a, <1>g, <1>p, <1>h, <1>d, <1>u DEF StrikesAreDeaths
<1>3. CrashLoopEnds'
  BY <1>0, <1>w, <1>a, <1>g, <1>p, <1>h, <1>d, <1>u DEF CrashLoopEnds, BootInv
<1>4. ApiStaysUp'
  BY <1>0, <1>w, <1>a, <1>g, <1>p, <1>h, <1>d, <1>u DEF ApiStaysUp
<1>5. LastExitIsTrue'
  BY <1>0, <1>w, <1>a, <1>g, <1>p, <1>h, <1>d, <1>u DEF LastExitIsTrue
<1>6. DiskInv'
  BY <1>0, <1>w, <1>a, <1>g, <1>p, <1>h, <1>d, <1>u DEF DiskInv, Written
<1>7. WindowInv'
  BY <1>0, <1>w, <1>a, <1>g, <1>p, <1>h, <1>d, <1>u DEF WindowInv, BootInv
<1>8. CountInv'
  BY <1>0, <1>w, <1>a, <1>g, <1>p, <1>h, <1>d, <1>u DEF CountInv
<1>9. BootInv'
  BY <1>0, <1>w, <1>a, <1>g, <1>p, <1>h, <1>d, <1>u DEF BootInv, WindowInv, CrashLoopEnds, NoStart, Terminating
<1>10. RunInv'
  BY <1>0, <1>w, <1>a, <1>g, <1>p, <1>h, <1>d, <1>u DEF RunInv, WindowInv, BootInv
<1>11. ExitInv'
  BY <1>0, <1>w, <1>a, <1>g, <1>p, <1>h, <1>d, <1>u
     DEF ExitInv, Terminating, ExitCode, KeepsArm, Code, Ok, CoreGaveUp, Stuck, Restart, Config, None
<1>12. StableInv'
  BY <1>0, <1>w, <1>a, <1>g, <1>p, <1>h, <1>d, <1>u DEF StableInv
<1> QED BY <1>1, <1>2, <1>3, <1>4, <1>5, <1>6, <1>7, <1>8, <1>9, <1>10, <1>11, <1>12

\* The core has been up for 60 s.
LEMMA StableStep ==
  ASSUME IInv, Stable
         
  PROVE  IInv'
<1> USE LimitAssumption, BoundAssumption, ProfilesAssumption DEF IInv
<1>0. /\ disk \in RecordType /\ g \in GuardType /\ p \in ProcessType /\ h \in HistoryType
      /\ remember \in Id /\ boots \in 0 .. MaxBoots /\ g.strikes \in Nat /\ h.deaths \in Nat
      /\ h.badBoots \in Nat
      /\ g.unstable \in Nat /\ disk.unstable \in Nat /\ up \in BOOLEAN
      /\ None \in Id /\ NoStart \in [id : Id, boot : BOOLEAN] /\ NoStart.id = None /\ ~NoStart.boot
      /\ (g.armed => p.phase \in {"Armed", "Done"})
  BY Types DEF GuardType, HistoryType, RecordType, NoStart, Id
<1>w. up /\ Written
  BY DEF DiskInv, Stable
<1>a. LET r == MarkStable(g)
      IN  /\ r \in GuardType /\ (r.armed <=> g.armed) /\ r.profile = g.profile /\ ~r.open /\ r.unstable = 0 /\ r.exit = g.exit
          /\ r.strikes = g.strikes
  BY <1>0, Marks
<1>g. /\ g' \in GuardType /\ g'.profile = g.profile /\ g'.strikes = g.strikes /\ (g'.armed <=> g.armed)
      /\ (g'.open <=> FALSE) /\ g'.unstable = 0 /\ g'.exit = g.exit
  BY <1>a DEF Save, Stable
<1>p. /\ p' \in ProcessType /\ p'.phase = p.phase /\ p'.boot = p.boot /\ p'.retry = p.retry
      /\ p'.core = p.core /\ (p'.victim <=> p.victim) /\ p'.coreDeaths = p.coreDeaths /\ (p'.recent <=> p.recent)
      /\ p'.start = p.start /\ p'.started = p.started /\ p'.running = p.running /\ (p'.bootTimer <=> p.bootTimer)
      /\ (p'.runTimer <=> p.runTimer) /\ p'.code = p.code /\ (p'.override <=> p.override) /\ (p'.terminating <=> p.terminating)
  BY <1>0 DEF Stable
<1>h. /\ h' \in HistoryType /\ (h'.window <=> h.window) /\ h'.deaths = h.deaths /\ (h'.stable <=> TRUE)
      /\ h'.badBoots = 0 /\ h'.code = h.code
  BY <1>0 DEF Stable, HistoryType
<1>d. disk' \in RecordType /\ Written'
  BY <1>0, <1>w, <1>a, Saves DEF Stable
<1>u. up' = up /\ remember' = remember /\ boots' = boots
  BY DEF Stable
<1>1. TypeOK'
  BY <1>0, <1>w, <1>a, <1>g, <1>p, <1>h, <1>d, <1>u
     DEF TypeOK, RecordType, GuardType, ProcessType, HistoryType, Written
<1>2. StrikesAreDeaths'
  BY <1>0, <1>w, <1>a, <1>g, <1>p, <1>h, <1>d, <1>u DEF StrikesAreDeaths
<1>3. CrashLoopEnds'
  BY <1>0, <1>w, <1>a, <1>g, <1>p, <1>h, <1>d, <1>u DEF CrashLoopEnds, BootInv
<1>4. ApiStaysUp'
  BY <1>0, <1>w, <1>a, <1>g, <1>p, <1>h, <1>d, <1>u DEF ApiStaysUp
<1>5. LastExitIsTrue'
  BY <1>0, <1>w, <1>a, <1>g, <1>p, <1>h, <1>d, <1>u DEF LastExitIsTrue
<1>6. DiskInv'
  BY <1>0, <1>w, <1>a, <1>g, <1>p, <1>h, <1>d, <1>u DEF DiskInv, Written
<1>7. WindowInv'
  BY <1>0, <1>w, <1>a, <1>g, <1>p, <1>h, <1>d, <1>u DEF WindowInv, BootInv
<1>8. CountInv'
  BY <1>0, <1>w, <1>a, <1>g, <1>p, <1>h, <1>d, <1>u DEF CountInv
<1>9. BootInv'
  BY <1>0, <1>w, <1>a, <1>g, <1>p, <1>h, <1>d, <1>u DEF BootInv, WindowInv, CrashLoopEnds, NoStart, Terminating
<1>10. RunInv'
  BY <1>0, <1>w, <1>a, <1>g, <1>p, <1>h, <1>d, <1>u DEF RunInv, WindowInv, BootInv
<1>11. ExitInv'
  BY <1>0, <1>w, <1>a, <1>g, <1>p, <1>h, <1>d, <1>u
     DEF ExitInv, Terminating, ExitCode, KeepsArm, Code, Ok, CoreGaveUp, Stuck, Restart, Config, None
<1>12. StableInv'
  BY <1>0, <1>w, <1>a, <1>g, <1>p, <1>h, <1>d, <1>u DEF StableInv
<1> QED BY <1>1, <1>2, <1>3, <1>4, <1>5, <1>6, <1>7, <1>8, <1>9, <1>10, <1>11, <1>12

\* A 60 s timer finds nothing armed.
LEMMA TimerNothing ==
  ASSUME IInv, up,
         ~g.armed, p' = [p EXCEPT !.bootTimer = FALSE],
         UNCHANGED <<disk, remember, up, g, boots, h>>
  PROVE  IInv'
<1> USE LimitAssumption, BoundAssumption, ProfilesAssumption DEF IInv
<1>0. /\ disk \in RecordType /\ g \in GuardType /\ p \in ProcessType /\ h \in HistoryType
      /\ remember \in Id /\ boots \in 0 .. MaxBoots /\ g.strikes \in Nat /\ h.deaths \in Nat
      /\ h.badBoots \in Nat
      /\ g.unstable \in Nat /\ disk.unstable \in Nat /\ up \in BOOLEAN
      /\ None \in Id /\ NoStart \in [id : Id, boot : BOOLEAN] /\ NoStart.id = None /\ ~NoStart.boot
      /\ (g.armed => p.phase \in {"Armed", "Done"})
  BY Types DEF GuardType, HistoryType, RecordType, NoStart, Id
<1>w. Written
  BY DEF DiskInv
<1>g. /\ g' \in GuardType /\ g'.profile = g.profile /\ g'.strikes = g.strikes /\ (g'.armed <=> g.armed)
      /\ (g'.open <=> g.open) /\ g'.unstable = g.unstable /\ g'.exit = g.exit
  BY <1>0
<1>p. /\ p' \in ProcessType /\ p'.phase = p.phase /\ p'.boot = p.boot /\ p'.retry = p.retry
      /\ p'.core = p.core /\ (p'.victim <=> p.victim) /\ p'.coreDeaths = p.coreDeaths /\ (p'.recent <=> p.recent)
      /\ p'.start = p.start /\ p'.started = p.started /\ p'.running = p.running /\ (p'.bootTimer <=> FALSE)
      /\ (p'.runTimer <=> p.runTimer) /\ p'.code = p.code /\ (p'.override <=> p.override) /\ (p'.terminating <=> p.terminating)
  BY <1>0 DEF ProcessType
<1>h. /\ h' \in HistoryType /\ (h'.window <=> h.window) /\ h'.deaths = h.deaths /\ (h'.stable <=> h.stable)
      /\ h'.badBoots = h.badBoots /\ h'.code = h.code
  BY <1>0
<1>d. disk' \in RecordType /\ Written'
  BY <1>0, <1>w, <1>g DEF Written
<1>u. up' = up /\ remember' = remember /\ boots' = boots
  OBVIOUS
<1>1. TypeOK'
  BY <1>0, <1>w, <1>g, <1>p, <1>h, <1>d, <1>u
     DEF TypeOK, RecordType, GuardType, ProcessType, HistoryType, Written
<1>2. StrikesAreDeaths'
  BY <1>0, <1>w, <1>g, <1>p, <1>h, <1>d, <1>u DEF StrikesAreDeaths
<1>3. CrashLoopEnds'
  BY <1>0, <1>w, <1>g, <1>p, <1>h, <1>d, <1>u DEF CrashLoopEnds, BootInv
<1>4. ApiStaysUp'
  BY <1>0, <1>w, <1>g, <1>p, <1>h, <1>d, <1>u DEF ApiStaysUp
<1>5. LastExitIsTrue'
  BY <1>0, <1>w, <1>g, <1>p, <1>h, <1>d, <1>u DEF LastExitIsTrue
<1>6. DiskInv'
  BY <1>0, <1>w, <1>g, <1>p, <1>h, <1>d, <1>u DEF DiskInv, Written
<1>7. WindowInv'
  BY <1>0, <1>w, <1>g, <1>p, <1>h, <1>d, <1>u DEF WindowInv, BootInv
<1>8. CountInv'
  BY <1>0, <1>w, <1>g, <1>p, <1>h, <1>d, <1>u DEF CountInv
<1>9. BootInv'
  BY <1>0, <1>w, <1>g, <1>p, <1>h, <1>d, <1>u DEF BootInv, WindowInv, CrashLoopEnds, NoStart, Terminating
<1>10. RunInv'
  BY <1>0, <1>w, <1>g, <1>p, <1>h, <1>d, <1>u DEF RunInv, WindowInv, BootInv
<1>11. ExitInv'
  BY <1>0, <1>w, <1>g, <1>p, <1>h, <1>d, <1>u
     DEF ExitInv, Terminating, ExitCode, KeepsArm, Code, Ok, CoreGaveUp, Stuck, Restart, Config, None
<1>12. StableInv'
  BY <1>0, <1>w, <1>g, <1>p, <1>h, <1>d, <1>u DEF StableInv
<1> QED BY <1>1, <1>2, <1>3, <1>4, <1>5, <1>6, <1>7, <1>8, <1>9, <1>10, <1>11, <1>12

\* The boot profile, or a run of it, survives.
LEMMA BootSurvives ==
  ASSUME IInv, up,
         NEW id, id = g.profile, Save(Survived(g, id)),
         h' = [h EXCEPT !.window = FALSE, !.deaths = 0],
         p' = [p EXCEPT !.bootTimer = FALSE] \/ p' = [p EXCEPT !.runTimer = FALSE],
         UNCHANGED <<remember, up, boots>>
  PROVE  IInv'
<1> USE LimitAssumption, BoundAssumption, ProfilesAssumption DEF IInv
<1>0. /\ disk \in RecordType /\ g \in GuardType /\ p \in ProcessType /\ h \in HistoryType
      /\ remember \in Id /\ boots \in 0 .. MaxBoots /\ g.strikes \in Nat /\ h.deaths \in Nat
      /\ h.badBoots \in Nat
      /\ g.unstable \in Nat /\ disk.unstable \in Nat /\ up \in BOOLEAN
      /\ None \in Id /\ NoStart \in [id : Id, boot : BOOLEAN] /\ NoStart.id = None /\ ~NoStart.boot
      /\ (g.armed => p.phase \in {"Armed", "Done"})
  BY Types DEF GuardType, HistoryType, RecordType, NoStart, Id
<1>w. Written
  BY DEF DiskInv
<1>a. LET r == Survived(g, id)
      IN  /\ r \in GuardType /\ ~r.armed /\ r.profile = g.profile /\ (r.open <=> g.open) /\ r.unstable = g.unstable /\ r.exit = g.exit
          /\ r.strikes = 0
  BY <1>0, Survives
<1>g. /\ g' \in GuardType /\ g'.profile = g.profile /\ g'.strikes = 0 /\ (g'.armed <=> FALSE)
      /\ (g'.open <=> g.open) /\ g'.unstable = g.unstable /\ g'.exit = g.exit
  BY <1>a DEF Save
<1>p. /\ p' \in ProcessType /\ p'.phase = p.phase /\ p'.boot = p.boot /\ p'.retry = p.retry
      /\ p'.core = p.core /\ (p'.victim <=> p.victim) /\ p'.coreDeaths = p.coreDeaths /\ (p'.recent <=> p.recent)
      /\ p'.start = p.start /\ p'.started = p.started /\ p'.running = p.running /\ p'.code = p.code
      /\ (p'.override <=> p.override) /\ (p'.terminating <=> p.terminating)
  <2>1. CASE p' = [p EXCEPT !.bootTimer = FALSE]
    BY <1>0, <2>1 DEF ProcessType
  <2>2. CASE p' = [p EXCEPT !.runTimer = FALSE]
    BY <1>0, <2>2 DEF ProcessType
  <2> QED BY <2>1, <2>2
<1>h. /\ h' \in HistoryType /\ (h'.window <=> FALSE) /\ h'.deaths = 0 /\ (h'.stable <=> h.stable)
      /\ h'.badBoots = h.badBoots /\ h'.code = h.code
  BY <1>0 DEF HistoryType
<1>d. disk' \in RecordType /\ Written'
  BY <1>0, <1>w, <1>a, Saves
<1>u. up' = up /\ remember' = remember /\ boots' = boots
  OBVIOUS
<1>1. TypeOK'
  BY <1>0, <1>w, <1>a, <1>g, <1>p, <1>h, <1>d, <1>u
     DEF TypeOK, RecordType, GuardType, ProcessType, HistoryType, Written
<1>2. StrikesAreDeaths'
  BY <1>0, <1>g, <1>h, StrikeCounts DEF StrikesAreDeaths, Cap
<1>3. CrashLoopEnds'
  BY <1>0, <1>w, <1>a, <1>g, <1>p, <1>h, <1>d, <1>u DEF CrashLoopEnds, BootInv
<1>4. ApiStaysUp'
  BY <1>0, <1>w, <1>a, <1>g, <1>p, <1>h, <1>d, <1>u DEF ApiStaysUp
<1>5. LastExitIsTrue'
  BY <1>0, <1>w, <1>a, <1>g, <1>p, <1>h, <1>d, <1>u DEF LastExitIsTrue
<1>6. DiskInv'
  BY <1>0, <1>w, <1>a, <1>g, <1>p, <1>h, <1>d, <1>u DEF DiskInv, Written
<1>7. WindowInv'
  BY <1>0, <1>w, <1>a, <1>g, <1>p, <1>h, <1>d, <1>u DEF WindowInv, BootInv
<1>8. CountInv'
  BY <1>0, <1>w, <1>a, <1>g, <1>p, <1>h, <1>d, <1>u DEF CountInv
<1>9. BootInv'
  BY <1>0, <1>w, <1>a, <1>g, <1>p, <1>h, <1>d, <1>u DEF BootInv, WindowInv, CrashLoopEnds, NoStart, Terminating
<1>10. RunInv'
  BY <1>0, <1>w, <1>a, <1>g, <1>p, <1>h, <1>d, <1>u DEF RunInv, WindowInv, BootInv
<1>11. ExitInv'
  BY <1>0, <1>w, <1>a, <1>g, <1>p, <1>h, <1>d, <1>u
     DEF ExitInv, Terminating, ExitCode, KeepsArm, Code, Ok, CoreGaveUp, Stuck, Restart, Config, None
<1>12. StableInv'
  BY <1>0, <1>w, <1>a, <1>g, <1>p, <1>h, <1>d, <1>u DEF StableInv
<1> QED BY <1>1, <1>2, <1>3, <1>4, <1>5, <1>6, <1>7, <1>8, <1>9, <1>10, <1>11, <1>12

\* The boot timer finds something else running.
LEMMA TimerDisarms ==
  ASSUME IInv, up,
         g.armed, p' = [p EXCEPT !.bootTimer = FALSE], Save(Disarm(g)), h' = [h EXCEPT !.window = FALSE],
         UNCHANGED <<remember, up, boots>>
  PROVE  IInv'
<1> USE LimitAssumption, BoundAssumption, ProfilesAssumption DEF IInv
<1>0. /\ disk \in RecordType /\ g \in GuardType /\ p \in ProcessType /\ h \in HistoryType
      /\ remember \in Id /\ boots \in 0 .. MaxBoots /\ g.strikes \in Nat /\ h.deaths \in Nat
      /\ h.badBoots \in Nat
      /\ g.unstable \in Nat /\ disk.unstable \in Nat /\ up \in BOOLEAN
      /\ None \in Id /\ NoStart \in [id : Id, boot : BOOLEAN] /\ NoStart.id = None /\ ~NoStart.boot
      /\ (g.armed => p.phase \in {"Armed", "Done"})
  BY Types DEF GuardType, HistoryType, RecordType, NoStart, Id
<1>w. Written
  BY DEF DiskInv
<1>a. LET r == Disarm(g)
      IN  /\ r \in GuardType /\ ~r.armed /\ r.profile = g.profile /\ (r.open <=> g.open) /\ r.unstable = g.unstable /\ r.exit = g.exit
          /\ r.strikes = g.strikes
  BY <1>0, Disarms
<1>g. /\ g' \in GuardType /\ g'.profile = g.profile /\ g'.strikes = g.strikes /\ (g'.armed <=> FALSE)
      /\ (g'.open <=> g.open) /\ g'.unstable = g.unstable /\ g'.exit = g.exit
  BY <1>a DEF Save
<1>p. /\ p' \in ProcessType /\ p'.phase = p.phase /\ p'.boot = p.boot /\ p'.retry = p.retry
      /\ p'.core = p.core /\ (p'.victim <=> p.victim) /\ p'.coreDeaths = p.coreDeaths /\ (p'.recent <=> p.recent)
      /\ p'.start = p.start /\ p'.started = p.started /\ p'.running = p.running /\ (p'.bootTimer <=> FALSE)
      /\ (p'.runTimer <=> p.runTimer) /\ p'.code = p.code /\ (p'.override <=> p.override) /\ (p'.terminating <=> p.terminating)
  BY <1>0 DEF ProcessType
<1>h. /\ h' \in HistoryType /\ (h'.window <=> FALSE) /\ h'.deaths = h.deaths /\ (h'.stable <=> h.stable)
      /\ h'.badBoots = h.badBoots /\ h'.code = h.code
  BY <1>0 DEF HistoryType
<1>d. disk' \in RecordType /\ Written'
  BY <1>0, <1>w, <1>a, Saves
<1>u. up' = up /\ remember' = remember /\ boots' = boots
  OBVIOUS
<1>1. TypeOK'
  BY <1>0, <1>w, <1>a, <1>g, <1>p, <1>h, <1>d, <1>u
     DEF TypeOK, RecordType, GuardType, ProcessType, HistoryType, Written
<1>2. StrikesAreDeaths'
  BY <1>0, <1>w, <1>a, <1>g, <1>p, <1>h, <1>d, <1>u DEF StrikesAreDeaths
<1>3. CrashLoopEnds'
  BY <1>0, <1>w, <1>a, <1>g, <1>p, <1>h, <1>d, <1>u DEF CrashLoopEnds, BootInv
<1>4. ApiStaysUp'
  BY <1>0, <1>w, <1>a, <1>g, <1>p, <1>h, <1>d, <1>u DEF ApiStaysUp
<1>5. LastExitIsTrue'
  BY <1>0, <1>w, <1>a, <1>g, <1>p, <1>h, <1>d, <1>u DEF LastExitIsTrue
<1>6. DiskInv'
  BY <1>0, <1>w, <1>a, <1>g, <1>p, <1>h, <1>d, <1>u DEF DiskInv, Written
<1>7. WindowInv'
  BY <1>0, <1>w, <1>a, <1>g, <1>p, <1>h, <1>d, <1>u DEF WindowInv, BootInv
<1>8. CountInv'
  BY <1>0, <1>w, <1>a, <1>g, <1>p, <1>h, <1>d, <1>u DEF CountInv
<1>9. BootInv'
  BY <1>0, <1>w, <1>a, <1>g, <1>p, <1>h, <1>d, <1>u DEF BootInv, WindowInv, CrashLoopEnds, NoStart, Terminating
<1>10. RunInv'
  BY <1>0, <1>w, <1>a, <1>g, <1>p, <1>h, <1>d, <1>u DEF RunInv, WindowInv, BootInv
<1>11. ExitInv'
  BY <1>0, <1>w, <1>a, <1>g, <1>p, <1>h, <1>d, <1>u
     DEF ExitInv, Terminating, ExitCode, KeepsArm, Code, Ok, CoreGaveUp, Stuck, Restart, Config, None
<1>12. StableInv'
  BY <1>0, <1>w, <1>a, <1>g, <1>p, <1>h, <1>d, <1>u DEF StableInv
<1> QED BY <1>1, <1>2, <1>3, <1>4, <1>5, <1>6, <1>7, <1>8, <1>9, <1>10, <1>11, <1>12

\* A run of another profile survives.
LEMMA OtherSurvives ==
  ASSUME IInv, up,
         NEW id, p' = [p EXCEPT !.runTimer = FALSE], g' = LiftSuppression(g, id),
         UNCHANGED <<disk, h, remember, up, boots>>
  PROVE  IInv'
<1> USE LimitAssumption, BoundAssumption, ProfilesAssumption DEF IInv
<1>0. /\ disk \in RecordType /\ g \in GuardType /\ p \in ProcessType /\ h \in HistoryType
      /\ remember \in Id /\ boots \in 0 .. MaxBoots /\ g.strikes \in Nat /\ h.deaths \in Nat
      /\ h.badBoots \in Nat
      /\ g.unstable \in Nat /\ disk.unstable \in Nat /\ up \in BOOLEAN
      /\ None \in Id /\ NoStart \in [id : Id, boot : BOOLEAN] /\ NoStart.id = None /\ ~NoStart.boot
      /\ (g.armed => p.phase \in {"Armed", "Done"})
  BY Types DEF GuardType, HistoryType, RecordType, NoStart, Id
<1>w. Written
  BY DEF DiskInv
<1>g. /\ g' \in GuardType /\ g'.profile = g.profile /\ g'.strikes = g.strikes /\ (g'.armed <=> g.armed)
      /\ (g'.open <=> g.open) /\ g'.unstable = g.unstable /\ g'.exit = g.exit
  BY <1>0, Lifts
<1>p. /\ p' \in ProcessType /\ p'.phase = p.phase /\ p'.boot = p.boot /\ p'.retry = p.retry
      /\ p'.core = p.core /\ (p'.victim <=> p.victim) /\ p'.coreDeaths = p.coreDeaths /\ (p'.recent <=> p.recent)
      /\ p'.start = p.start /\ p'.started = p.started /\ p'.running = p.running /\ (p'.bootTimer <=> p.bootTimer)
      /\ (p'.runTimer <=> FALSE) /\ p'.code = p.code /\ (p'.override <=> p.override) /\ (p'.terminating <=> p.terminating)
  BY <1>0 DEF ProcessType
<1>h. /\ h' \in HistoryType /\ (h'.window <=> h.window) /\ h'.deaths = h.deaths /\ (h'.stable <=> h.stable)
      /\ h'.badBoots = h.badBoots /\ h'.code = h.code
  BY <1>0
<1>d. disk' \in RecordType /\ Written'
  BY <1>0, <1>w, <1>g DEF Written
<1>u. up' = up /\ remember' = remember /\ boots' = boots
  OBVIOUS
<1>1. TypeOK'
  BY <1>0, <1>w, <1>g, <1>p, <1>h, <1>d, <1>u
     DEF TypeOK, RecordType, GuardType, ProcessType, HistoryType, Written
<1>2. StrikesAreDeaths'
  BY <1>0, <1>w, <1>g, <1>p, <1>h, <1>d, <1>u DEF StrikesAreDeaths
<1>3. CrashLoopEnds'
  BY <1>0, <1>w, <1>g, <1>p, <1>h, <1>d, <1>u DEF CrashLoopEnds, BootInv
<1>4. ApiStaysUp'
  BY <1>0, <1>w, <1>g, <1>p, <1>h, <1>d, <1>u DEF ApiStaysUp
<1>5. LastExitIsTrue'
  BY <1>0, <1>w, <1>g, <1>p, <1>h, <1>d, <1>u DEF LastExitIsTrue
<1>6. DiskInv'
  BY <1>0, <1>w, <1>g, <1>p, <1>h, <1>d, <1>u DEF DiskInv, Written
<1>7. WindowInv'
  BY <1>0, <1>w, <1>g, <1>p, <1>h, <1>d, <1>u DEF WindowInv, BootInv
<1>8. CountInv'
  BY <1>0, <1>w, <1>g, <1>p, <1>h, <1>d, <1>u DEF CountInv
<1>9. BootInv'
  BY <1>0, <1>w, <1>g, <1>p, <1>h, <1>d, <1>u DEF BootInv, WindowInv, CrashLoopEnds, NoStart, Terminating
<1>10. RunInv'
  BY <1>0, <1>w, <1>g, <1>p, <1>h, <1>d, <1>u DEF RunInv, WindowInv, BootInv
<1>11. ExitInv'
  BY <1>0, <1>w, <1>g, <1>p, <1>h, <1>d, <1>u
     DEF ExitInv, Terminating, ExitCode, KeepsArm, Code, Ok, CoreGaveUp, Stuck, Restart, Config, None
<1>12. StableInv'
  BY <1>0, <1>w, <1>g, <1>p, <1>h, <1>d, <1>u DEF StableInv
<1> QED BY <1>1, <1>2, <1>3, <1>4, <1>5, <1>6, <1>7, <1>8, <1>9, <1>10, <1>11, <1>12

\* The exit of a core is handled.
LEMMA CoreExitedStep ==
  ASSUME IInv, NEW tooFrequent \in BOOLEAN, NEW gaveUp \in BOOLEAN, CoreExited(tooFrequent, gaveUp)
         
  PROVE  IInv'
<1> USE LimitAssumption, BoundAssumption, ProfilesAssumption DEF IInv
<1>0. /\ disk \in RecordType /\ g \in GuardType /\ p \in ProcessType /\ h \in HistoryType
      /\ remember \in Id /\ boots \in 0 .. MaxBoots /\ g.strikes \in Nat /\ h.deaths \in Nat
      /\ h.badBoots \in Nat
      /\ g.unstable \in Nat /\ disk.unstable \in Nat /\ up \in BOOLEAN
      /\ None \in Id /\ NoStart \in [id : Id, boot : BOOLEAN] /\ NoStart.id = None /\ ~NoStart.boot
      /\ (g.armed => p.phase \in {"Armed", "Done"})
  BY Types DEF GuardType, HistoryType, RecordType, NoStart, Id
<1> DEFINE startedId == IF tooFrequent THEN None ELSE p.started
           unavailable == gaveUp /\ p.phase = "Waiting" /\ ~Terminating
           r == IF BlamesBoot(startedId) THEN Strike(g) ELSE Disarm(g)
<1>w. up /\ Written /\ ~p.terminating /\ p.core \in {"dead", "down"} /\ (tooFrequent => p.recent)
  BY DEF DiskInv, CoreExited
<1>a. startedId \in Id /\ p.boot \in Id /\ (g.armed => (BlamesBoot(startedId) <=> p.victim))
  <2>1. startedId \in Id /\ p.boot \in Id
    BY <1>0 DEF ProcessType
  <2>2. g.armed => startedId = p.started /\ p.boot # None
    BY <1>w DEF WindowInv
  <2>3. g.armed => (p.victim <=> p.phase = "Armed" \/ p.started = p.boot)
    BY <1>w DEF RunInv
  <2> QED BY <2>1, <2>2, <2>3 DEF BlamesBoot
<1>n. /\ r \in GuardType /\ ~r.armed /\ r.profile = g.profile /\ (r.open <=> g.open) /\ r.unstable = g.unstable /\ r.exit = g.exit
      /\ r.strikes = (IF g.armed /\ p.victim THEN Min({g.strikes + 1, StrikesToSuppress}) ELSE g.strikes)
  <2>1. CASE g.armed /\ BlamesBoot(startedId)
    BY <1>0, <1>a, <2>1, Strikes DEF Strike
  <2>2. CASE ~BlamesBoot(startedId)
    BY <1>0, <1>a, <2>2, Disarms
  <2>3. CASE ~g.armed /\ BlamesBoot(startedId)
    BY <1>0, <2>3 DEF Strike
  <2> QED BY <2>1, <2>2, <2>3
<1>s. Save(r)
  BY DEF CoreExited
<1> HIDE DEF r
<1>g. /\ g' \in GuardType /\ g'.profile = g.profile /\ g'.strikes = (IF g.armed /\ p.victim THEN Min({g.strikes + 1, StrikesToSuppress}) ELSE g.strikes) /\ (g'.armed <=> FALSE)
      /\ (g'.open <=> g.open) /\ g'.unstable = g.unstable /\ g'.exit = g.exit
  BY <1>n, <1>s DEF Save
<1>p. /\ p' \in ProcessType /\ p'.phase = (IF unavailable THEN "Done" ELSE p.phase) /\ p'.boot = p.boot /\ p'.retry = (IF unavailable THEN p.boot ELSE p.retry)
      /\ p'.core = (IF gaveUp THEN "gaveup" ELSE "down") /\ (p'.victim <=> FALSE) /\ p'.coreDeaths = p.coreDeaths /\ (p'.recent <=> (IF p.core = "dead" THEN ~tooFrequent ELSE p.recent))
      /\ p'.start = p.start /\ p'.started = (IF gaveUp THEN None ELSE startedId) /\ p'.running = p.running /\ (p'.bootTimer <=> p.bootTimer)
      /\ (p'.runTimer <=> p.runTimer) /\ p'.code = (IF gaveUp /\ ~Terminating /\ ~StayUp(g) THEN CoreGaveUp ELSE p.code) /\ (p'.override <=> p.override) /\ (p'.terminating <=> p.terminating)
  <2>1. p' = [p EXCEPT !.core = IF gaveUp THEN "gaveup" ELSE "down", !.victim = FALSE,
                       !.recent = IF p.core = "dead" THEN ~tooFrequent ELSE @,
                       !.started = IF gaveUp THEN None ELSE startedId,
                       !.phase = IF unavailable THEN "Done" ELSE @,
                       !.retry = IF unavailable THEN p.boot ELSE @,
                       !.code = IF gaveUp /\ ~Terminating /\ ~StayUp(g) THEN CoreGaveUp ELSE @]
    BY DEF CoreExited
  <2> DEFINE core == IF gaveUp THEN "gaveup" ELSE "down"
             recent == IF p.core = "dead" THEN ~tooFrequent ELSE p.recent
             started == IF gaveUp THEN None ELSE startedId
             phase == IF unavailable THEN "Done" ELSE p.phase
             retry == IF unavailable THEN p.boot ELSE p.retry
             code == IF gaveUp /\ ~Terminating /\ ~StayUp(g) THEN CoreGaveUp ELSE p.code
  <2>2. /\ core \in {"gaveup", "down"} /\ started \in Id /\ phase \in {"None", "Waiting", "Armed", "Done"}
        /\ retry \in Id /\ code \in Code
    BY <1>0, <1>a DEF ProcessType, Code
  <2>3. recent \in BOOLEAN
    <3>1. p.recent \in BOOLEAN
      BY <1>0 DEF ProcessType
    <3> QED BY <3>1
  <2>4. p' = [p EXCEPT !.core = core, !.victim = FALSE, !.recent = recent, !.started = started,
                       !.phase = phase, !.retry = retry, !.code = code]
    BY <2>1
  <2> HIDE DEF core, recent, started, phase, retry, code, startedId, unavailable
  <2>5. /\ p' \in ProcessType /\ p'.core = core /\ (p'.victim <=> FALSE) /\ (p'.recent <=> recent)
        /\ p'.started = started /\ p'.phase = phase /\ p'.retry = retry /\ p'.code = code
        /\ p'.boot = p.boot /\ p'.coreDeaths = p.coreDeaths /\ p'.start = p.start /\ p'.running = p.running
        /\ (p'.bootTimer <=> p.bootTimer) /\ (p'.runTimer <=> p.runTimer) /\ (p'.override <=> p.override)
        /\ (p'.terminating <=> p.terminating)
    BY <1>0, <2>2, <2>3, <2>4, ZenonT(60) DEF ProcessType
  <2> QED BY <2>5 DEF core, recent, started, phase, retry, code
<1>h. /\ h' \in HistoryType /\ (h'.window <=> FALSE) /\ h'.deaths = (IF g.armed /\ p.victim THEN h.deaths + 1 ELSE h.deaths) /\ (h'.stable <=> h.stable)
      /\ h'.badBoots = h.badBoots /\ h'.code = h.code
  <2>1. h' = [h EXCEPT !.window = FALSE, !.deaths = IF h.window /\ p.victim THEN @ + 1 ELSE @]
    BY DEF CoreExited, WindowEnds
  <2>2. (h.window /\ p.victim) <=> (g.armed /\ p.victim)
    BY DEF WindowInv
  <2>3. CASE h.window /\ p.victim
    <3>1. h' = [h EXCEPT !.window = FALSE, !.deaths = h.deaths + 1] /\ h.deaths + 1 \in Nat
      BY <1>0, <2>1, <2>3
    <3> QED BY <1>0, <2>2, <2>3, <3>1 DEF HistoryType
  <2>4. CASE ~(h.window /\ p.victim)
    <3>1. h' = [h EXCEPT !.window = FALSE, !.deaths = h.deaths]
      BY <2>1, <2>4
    <3> QED BY <1>0, <2>2, <2>4, <3>1 DEF HistoryType
  <2> QED BY <2>3, <2>4
<1>d. disk' \in RecordType /\ Written'
  BY <1>0, <1>w, <1>n, <1>s, Saves
<1>u. up' = up /\ remember' = remember /\ boots' = boots
  BY DEF CoreExited
<1>1. TypeOK'
  BY <1>0, <1>w, <1>a, <1>g, <1>p, <1>h, <1>d, <1>u
     DEF TypeOK, RecordType, GuardType, ProcessType, HistoryType, Written, StayUp
<1>2. StrikesAreDeaths'
  <2>1. g.strikes = Cap(h.deaths)
    BY <1>0, <1>w DEF StrikesAreDeaths, Cap
  <2>2. g'.strikes = (IF g.armed /\ p.victim THEN Cap(g.strikes + 1) ELSE g.strikes)
    BY <1>g DEF Cap
  <2>3. h'.deaths = (IF g.armed /\ p.victim THEN h.deaths + 1 ELSE h.deaths)
    BY <1>h DEF WindowInv
  <2>4. g'.strikes = Cap(h'.deaths)
    BY <1>0, <2>1, <2>2, <2>3, StrikeCounts
  <2> QED BY <2>4 DEF StrikesAreDeaths, Cap
<1>3. CrashLoopEnds'
  BY <1>0, <1>w, <1>a, <1>g, <1>p, <1>h, <1>d, <1>u DEF CrashLoopEnds, BootInv, StayUp
<1>4. ApiStaysUp'
  BY <1>0, <1>w, <1>a, <1>g, <1>p, <1>h, <1>d, <1>u DEF ApiStaysUp, StayUp
<1>5. LastExitIsTrue'
  BY <1>0, <1>w, <1>a, <1>g, <1>p, <1>h, <1>d, <1>u DEF LastExitIsTrue, StayUp
<1>6. DiskInv'
  BY <1>0, <1>w, <1>a, <1>g, <1>p, <1>h, <1>d, <1>u DEF DiskInv, Written, StayUp
<1>7. WindowInv'
  BY <1>0, <1>w, <1>a, <1>g, <1>p, <1>h, <1>d, <1>u DEF WindowInv, BootInv, StayUp
<1>8. CountInv'
  BY <1>0, <1>w, <1>a, <1>g, <1>p, <1>h, <1>d, <1>u DEF CountInv, StayUp
<1>9. BootInv'
  BY <1>0, <1>w, <1>a, <1>g, <1>p, <1>h, <1>d, <1>u
     DEF BootInv, WindowInv, CrashLoopEnds, NoStart, Terminating, StayUp
<1>10. RunInv'
  BY <1>0, <1>w, <1>a, <1>g, <1>p, <1>h, <1>d, <1>u DEF RunInv, WindowInv, BootInv, StayUp
<1>11. ExitInv'
  BY <1>0, <1>w, <1>a, <1>g, <1>p, <1>h, <1>d, <1>u
     DEF ExitInv, Terminating, ExitCode, KeepsArm, Code, Ok, CoreGaveUp, Stuck, Restart, Config, None, StayUp
<1>12. StableInv'
  BY <1>0, <1>w, <1>a, <1>g, <1>p, <1>h, <1>d, <1>u DEF StableInv, StayUp
<1> QED BY <1>1, <1>2, <1>3, <1>4, <1>5, <1>6, <1>7, <1>8, <1>9, <1>10, <1>11, <1>12

\* The process ends in order, or dies.
LEMMA EndStep ==
  ASSUME IInv, up, NEW code \in Code, End(code), code = None \/ (p.terminating /\ code = ExitCode)
  PROVE  IInv'
<1> USE LimitAssumption, BoundAssumption, ProfilesAssumption DEF IInv
<1>0. /\ disk \in RecordType /\ g \in GuardType /\ p \in ProcessType /\ h \in HistoryType
      /\ remember \in Id /\ boots \in 0 .. MaxBoots /\ g.strikes \in Nat /\ h.deaths \in Nat
      /\ h.badBoots \in Nat
      /\ g.unstable \in Nat /\ disk.unstable \in Nat /\ Written
  BY Types DEF GuardType, HistoryType, RecordType, DiskInv
<1>1. up' = FALSE /\ g' = NewGuard /\ p' = NewProcess /\ disk' = disk /\ remember' = remember /\ boots' = boots
  BY DEF End
<1>2. /\ h' \in HistoryType /\ h'.code = code /\ ~h'.window /\ (h'.stable <=> h.stable)
      /\ h'.deaths = (IF h.window THEN h.deaths + 1 ELSE h.deaths)
      /\ h'.badBoots = (IF code \notin {CoreGaveUp, Stuck} \/ h.stable THEN h.badBoots ELSE h.badBoots + 1)
  <2> DEFINE deaths == IF h.window THEN h.deaths + 1 ELSE h.deaths
             bad == IF code \notin {CoreGaveUp, Stuck} \/ h.stable THEN h.badBoots ELSE h.badBoots + 1
  <2>1. deaths \in Nat /\ bad \in Nat
    BY <1>0
  <2>2. h' = [h EXCEPT !.code = code, !.window = FALSE, !.deaths = deaths, !.badBoots = bad]
    BY DEF End
  <2> HIDE DEF deaths, bad
  <2>3. h' \in HistoryType /\ h'.code = code /\ ~h'.window /\ (h'.stable <=> h.stable) /\ h'.deaths = deaths /\ h'.badBoots = bad
    BY <1>0, <2>1, <2>2 DEF HistoryType
  <2> QED BY <2>3 DEF deaths, bad
<1>3. /\ NewGuard \in GuardType /\ ~NewGuard.armed /\ NewGuard.strikes = 0 /\ NewGuard.profile = None
      /\ NewGuard.unstable = 0
  BY DEF NewGuard, GuardType, Id, Code
<1>4. /\ NewProcess \in ProcessType /\ NewProcess.phase = "None" /\ NewProcess.boot = None
      /\ NewProcess.retry = None
      /\ NewProcess.start = NoStart /\ NewProcess.start.id = None /\ ~NewProcess.start.boot
      /\ NewProcess.running = None
      /\ ~NewProcess.terminating /\ ~NewProcess.override /\ NewProcess.code = None
  <2>1. NoStart \in [id : Id, boot : BOOLEAN] /\ NoStart.id = None /\ ~NoStart.boot /\ None \in Id /\ None \in Code /\ 0 \in 0 .. MaxCoreDeaths
    BY DEF NoStart, Id, Code
  <2> QED BY <2>1 DEF NewProcess, ProcessType
<1>5. TypeOK'
  BY <1>0, <1>1, <1>2, <1>3, <1>4, ZenonT(60) DEF TypeOK, RecordType, GuardType, ProcessType, HistoryType
<1>6. StrikesAreDeaths' /\ CrashLoopEnds'
  BY <1>1, <1>4 DEF StrikesAreDeaths, CrashLoopEnds
<1>7. ApiStaysUp'
  <2>1. CASE code \in {CoreGaveUp, Stuck} /\ ~h.stable
    <3>1. KeepsArm(p.code)
      BY <2>1 DEF KeepsArm, ExitCode, CoreGaveUp, Stuck, None, Ok
    <3>2. h.badBoots <= g.unstable /\ g.unstable < UnstableBootsToStayUp
      BY <3>1 DEF ExitInv, StableInv
    <3> QED BY <1>0, <1>2, <2>1, <3>2 DEF ApiStaysUp
  <2>2. CASE ~(code \in {CoreGaveUp, Stuck} /\ ~h.stable)
    BY <1>2, <2>2 DEF ApiStaysUp
  <2> QED BY <2>1, <2>2
<1>8. LastExitIsTrue'
  BY <1>0, <1>1, <1>2 DEF LastExitIsTrue, Written, ExitInv
<1>9. DiskInv'
  BY <1>0, <1>1, <1>3 DEF DiskInv, Written
<1>10. WindowInv' /\ BootInv' /\ RunInv' /\ ExitInv'
  BY <1>1, <1>2, <1>3, <1>4 DEF WindowInv, BootInv, RunInv, ExitInv, KeepsArm, None, CoreGaveUp, Stuck
<1>11. CountInv'
  <2>1. g.strikes = Cap(h.deaths) /\ disk.strikes = g.strikes /\ (disk.armed <=> h.window)
    BY <1>0 DEF StrikesAreDeaths, Written, WindowInv, Cap
  <2>2. Cap(h'.deaths) = Cap(disk.strikes + (IF disk.armed THEN 1 ELSE 0))
    <3>1. CASE h.window
      <4>1. h'.deaths = h.deaths + 1
        BY <1>2, <3>1
      <4>2. Cap(disk.strikes + 1) = Cap(h.deaths + 1)
        BY <1>0, <2>1, StrikeCounts
      <4> QED BY <2>1, <3>1, <4>1, <4>2
    <3>2. CASE ~h.window
      <4>1. h'.deaths = h.deaths /\ disk.strikes + 0 = disk.strikes
        BY <1>0, <1>2, <2>1, <3>2
      <4>2. Cap(disk.strikes) = Cap(h.deaths)
        BY <1>0, <2>1, StrikeCounts
      <4> QED BY <2>1, <3>2, <4>1, <4>2
    <3> QED BY <3>1, <3>2
  <2> QED BY <1>1, <2>2 DEF CountInv, Cap
<1>12. StableInv'
  BY <1>0, <1>1, <1>2 DEF StableInv, Written
<1> QED BY <1>5, <1>6, <1>7, <1>8, <1>9, <1>10, <1>11, <1>12

\* A boot: the record is read and settled, and another profile starts a new one.
LEMMA BootStep ==
  ASSUME IInv, NEW resume \in BOOLEAN, Boot(resume)
  PROVE  IInv'
<1> USE LimitAssumption, BoundAssumption, ProfilesAssumption DEF IInv
<1> DEFINE s == SettlePrevious(Loaded)
           r == IF resume THEN Decide(s, remember) ELSE s
           id == IF resume /\ ~r.suppressed THEN remember ELSE None
<1>0. /\ disk \in RecordType /\ h \in HistoryType /\ remember \in Id /\ boots \in 0 .. MaxBoots
      /\ h.deaths \in Nat /\ h.badBoots \in Nat /\ disk.unstable \in Nat
      /\ disk.strikes \in 0 .. StrikesToSuppress
      /\ ~up /\ boots < MaxBoots /\ disk.unstable <= boots /\ p = NewProcess
  BY Types DEF HistoryType, RecordType, DiskInv, Boot
<1>1. /\ Loaded \in GuardType /\ Loaded.profile = disk.profile /\ Loaded.strikes = disk.strikes
      /\ (Loaded.armed <=> disk.armed) /\ (Loaded.open <=> disk.open) /\ Loaded.unstable = disk.unstable
      /\ Loaded.exit = None /\ ~Loaded.suppressed
  <2>1. None \in Code
    BY DEF Code
  <2> QED BY <1>0, <2>1 DEF Loaded, GuardType, RecordType
<1>2. Loaded.unstable < MaxBoots
  BY <1>0, <1>1
<1>3. /\ s \in GuardType /\ ~s.armed /\ s.open /\ s.exit = None /\ s.profile = disk.profile
      /\ s.unstable = (IF disk.open THEN disk.unstable + 1 ELSE disk.unstable) /\ ~s.suppressed
      /\ s.strikes = (IF disk.armed THEN Min({disk.strikes + 1, StrikesToSuppress}) ELSE disk.strikes)
  BY <1>1, <1>2, Settles
<1>4. s.strikes = Cap(h.deaths) /\ s.strikes \in 0 .. StrikesToSuppress
  <2>1. Cap(h.deaths) = Cap(disk.strikes + (IF disk.armed THEN 1 ELSE 0))
    BY <1>0 DEF CountInv, Cap
  <2>2. s.strikes = IF disk.armed THEN Cap(disk.strikes + 1) ELSE disk.strikes
    BY <1>3 DEF Cap
  <2>3. Cap(disk.strikes) = disk.strikes /\ disk.strikes + 0 = disk.strikes
    BY <1>0, StrikeCounts
  <2> HIDE DEF s
  <2> QED BY <1>0, <2>1, <2>2, <2>3, StrikeCounts
<1>5. s.profile = None => s.strikes = 0
  BY <1>3 DEF DiskInv
<1> HIDE DEF s
<1>6. /\ r \in GuardType /\ ~r.armed /\ r.open /\ r.exit = None /\ r.unstable = s.unstable
      /\ r.strikes = (IF r.profile = s.profile THEN s.strikes ELSE 0)
      /\ resume => r.profile = remember /\ (~r.suppressed => r.strikes < StrikesToSuppress)
      /\ ~resume => r = s
  <2>1. CASE resume
    <3>1. r = Decide(s, remember)
      BY <2>1
    <3>2. LET d == Decide(s, remember)
          IN  /\ d \in GuardType /\ ~d.armed /\ (d.open <=> s.open) /\ d.exit = s.exit /\ d.unstable = s.unstable /\ d.profile = remember
              /\ d.strikes = (IF remember = s.profile THEN s.strikes ELSE 0)
              /\ (d.suppressed <=> remember = s.profile /\ s.strikes >= StrikesToSuppress)
      BY <1>0, <1>3, Decides
    <3> HIDE DEF r
    <3> QED BY <1>3, <1>4, <2>1, <3>1, <3>2
  <2>2. CASE ~resume
    BY <1>3, <2>2
  <2> QED BY <2>1, <2>2
<1>7. /\ up' = TRUE /\ boots' = boots + 1 /\ remember' = remember /\ g' = r
      /\ disk' = Persisted(IF s.profile = None THEN s ELSE r) /\ (resume => remember # None)
      /\ p' = [NewProcess EXCEPT !.boot = id, !.phase = IF id = None THEN "Done" ELSE "Waiting"]
      /\ h' = [h EXCEPT !.window = FALSE, !.stable = FALSE, !.deaths = IF r.profile = s.profile THEN @ ELSE 0]
  BY DEF Boot, s
<1>8. id \in Id /\ (id # None => resume /\ id = r.profile /\ r.strikes < StrikesToSuppress)
  BY <1>0, <1>6 DEF Id
<1> HIDE DEF r, id
<1>9. /\ disk' \in RecordType /\ Written'
      /\ disk'.profile = None => disk'.strikes = 0 /\ ~disk'.armed
  <2>1. CASE s.profile = None
    <3>1. disk' = Persisted(s)
      BY <1>7, <2>1
    <3>2. /\ disk' \in RecordType /\ disk'.strikes = 0 /\ (disk'.armed <=> s.armed) /\ (disk'.open <=> s.open)
          /\ disk'.unstable = s.unstable /\ disk'.exit = s.exit /\ disk'.profile = None
      BY <1>3, <1>5, <2>1, <3>1, Persists
    <3>3. r.strikes = 0
      BY <1>5, <1>6, <2>1
    <3> QED BY <1>3, <1>6, <1>7, <3>2, <3>3 DEF Written
  <2>2. CASE s.profile # None
    <3>1. disk' = Persisted(r)
      BY <1>7, <2>2
    <3>2. /\ disk' \in RecordType /\ disk'.strikes = r.strikes /\ (disk'.armed <=> r.armed) /\ (disk'.open <=> r.open)
          /\ disk'.unstable = r.unstable /\ disk'.exit = r.exit /\ disk'.profile = r.profile
      BY <1>6, <3>1, Persists
    <3>3. r.profile # None
      BY <1>6, <1>7, <2>2
    <3> QED BY <1>7, <3>2, <3>3 DEF Written
  <2> QED BY <2>1, <2>2
<1>10. r.profile = None => r.strikes = 0
  BY <1>5, <1>6
<1>11. /\ p' \in ProcessType /\ p'.phase = (IF id = None THEN "Done" ELSE "Waiting") /\ p'.boot = id /\ p'.retry = None
       /\ p'.start = NoStart /\ p'.start.id = None /\ ~p'.start.boot /\ p'.running = None /\ ~p'.recent
       /\ p'.core = "down"
       /\ ~p'.terminating /\ ~p'.override /\ p'.code = None
  <2>1. NoStart \in [id : Id, boot : BOOLEAN] /\ NoStart.id = None /\ ~NoStart.boot /\ None \in Id /\ None \in Code /\ 0 \in 0 .. MaxCoreDeaths
    BY DEF NoStart, Id, Code
  <2> QED BY <1>7, <1>8, <2>1 DEF NewProcess, ProcessType
<1>12. /\ h' \in HistoryType /\ ~h'.window /\ ~h'.stable /\ h'.badBoots = h.badBoots /\ h'.code = h.code
       /\ h'.deaths = (IF r.profile = s.profile THEN h.deaths ELSE 0)
  BY <1>0, <1>7 DEF HistoryType
<1>13. TypeOK'
  BY <1>0, <1>6, <1>7, <1>9, <1>11, <1>12 DEF TypeOK, RecordType, GuardType, ProcessType, HistoryType
<1>14. StrikesAreDeaths'
  <2>1. g'.strikes = Cap(h'.deaths)
    BY <1>4, <1>6, <1>7, <1>12, StrikeCounts
  <2> QED BY <2>1 DEF StrikesAreDeaths, Cap
<1>15. CrashLoopEnds'
  <2> SUFFICES ASSUME id # None PROVE h'.deaths < StrikesToSuppress
    BY <1>11 DEF CrashLoopEnds
  <2>1. r.strikes < StrikesToSuppress
    BY <1>8
  <2>2. CASE r.profile = s.profile
    BY <1>0, <1>4, <1>6, <1>12, <2>1, <2>2, StrikeCounts
  <2>3. CASE r.profile # s.profile
    BY <1>12, <2>3
  <2> QED BY <2>2, <2>3
<1>16. ApiStaysUp' /\ LastExitIsTrue' /\ CountInv'
  BY <1>7, <1>12 DEF ApiStaysUp, LastExitIsTrue, CountInv
<1>17. DiskInv'
  <2>1. s.unstable <= boots + 1
    BY <1>0, <1>3
  <2>2. disk'.unstable = s.unstable
    BY <1>6, <1>7, <1>9 DEF Written
  <2> QED BY <1>6, <1>7, <1>9, <1>10, <2>1, <2>2 DEF DiskInv
<1>18. WindowInv' /\ BootInv' /\ RunInv' /\ ExitInv'
  BY <1>6, <1>7, <1>8, <1>11, <1>12 DEF WindowInv, BootInv, RunInv, ExitInv, KeepsArm, None, CoreGaveUp, Stuck
<1>19. StableInv'
  BY <1>0, <1>3, <1>6, <1>7, <1>12 DEF StableInv
<1> QED BY <1>13, <1>14, <1>15, <1>16, <1>17, <1>18, <1>19

\* Every step keeps the invariant.
LEMMA NextIInv == IInv /\ [Next]_vars => IInv'
<1> SUFFICES ASSUME IInv, [Next]_vars PROVE IInv' OBVIOUS
<1>1. ASSUME NEW resume \in BOOLEAN, Boot(resume) PROVE IInv'
  BY <1>1, BootStep
<1>2. CASE ProcessDies \/ ProcessExits
  <2>1. None \in Code /\ (p.terminating => ExitCode \in Code)
    BY DEF IInv, TypeOK, ExitCode, Code
  <2> QED BY <1>2, <2>1, EndStep DEF ProcessDies, ProcessExits
<1>3. CASE RunTerminate
  BY <1>3, RunTerminateStep
<1>4. CASE Watchdog
  BY <1>4, FirstExit DEF Watchdog, Terminating
<1>5. CASE WatchdogResets
  BY <1>5, WatchdogResetsStep
<1>6. ASSUME NEW code \in {Ok, Restart, Config}, Terminate(code) PROVE IInv'
  <2>1. code \notin {CoreGaveUp, Stuck}
    BY DEF Ok, Restart, Config, CoreGaveUp, Stuck
  <2> QED BY <1>6, <2>1, FirstExit, StopWins, StopWinsLate DEF Terminate, Overridden
<1>7. CASE CoreStarts
  BY <1>7, BootStartTaken, BootStartHeld, CoreComesUp DEF CoreStarts
<1>8. CASE CoreDies \/ CoreRetries
  BY <1>8, CoreDiesStep, CoreRetriesStep
<1>9. ASSUME NEW tooFrequent \in BOOLEAN, NEW gaveUp \in BOOLEAN, CoreExited(tooFrequent, gaveUp) PROVE IInv'
  BY <1>9, CoreExitedStep
<1>10. CASE StartSucceeds \/ UserStops \/ BootStartDropped \/ Stable
  BY <1>10, StartSucceedsStep, UserStopsStep, BootStartDroppedStep, StableStep
<1>11. CASE StartFails
  <2>1. CASE p.start.boot /\ ~Terminating
    <3>1. p.phase = "Armed"
      BY <2>1 DEF IInv, BootInv
    <3> QED BY <1>11, <2>1, <3>1, StartFailsBoot DEF StartFails, Terminating
  <2>2. CASE ~(p.start.boot /\ ~Terminating)
    <3>1. p' = [p EXCEPT !.start = NoStart]
      <4>1. p' = [p EXCEPT !.start = NoStart, !.phase = p.phase]
        BY <1>11, <2>2 DEF StartFails
      <4>2. p \in ProcessType
        BY Types DEF IInv
      <4> QED BY <4>1, <4>2 DEF ProcessType
    <3> QED BY <1>11, <2>2, <3>1, StartFailsOther DEF StartFails
  <2> QED BY <2>1, <2>2
<1>12. ASSUME NEW id \in Profiles, UserStarts(id) PROVE IInv'
  BY <1>12, UserStartsStep
<1>13. CASE BootTimer
  <2>1. g.armed => p.boot = g.profile
    BY DEF IInv, BootInv, WindowInv
  <2>2. CASE ~g.armed
    BY <1>13, <2>2, TimerNothing DEF BootTimer
  <2>3. CASE g.armed /\ p.running = p.boot
    BY <1>13, <2>1, <2>3, BootSurvives DEF BootTimer, NoteSurvived
  <2>4. CASE g.armed /\ p.running # p.boot
    BY <1>13, <2>4, TimerDisarms DEF BootTimer
  <2> QED BY <2>2, <2>3, <2>4
<1>14. CASE RunTimer
  BY <1>14, BootSurvives, OtherSurvives DEF RunTimer, NoteSurvived
<1>15. CASE UNCHANGED vars
  BY <1>15 DEF vars, IInv, TypeOK, StrikesAreDeaths, CrashLoopEnds, ApiStaysUp, LastExitIsTrue, DiskInv,
     Written, WindowInv,
     CountInv, BootInv, Terminating, RunInv, ExitInv, ExitCode, StableInv
<1> QED BY <1>1, <1>2, <1>3, <1>4, <1>5, <1>6, <1>7, <1>8, <1>9, <1>10, <1>11, <1>12, <1>13, <1>14, <1>15
           DEF Next

\* The strikes of the record are the deaths it stands for, and the last exit on disk is how the process
\* ended: wherever the process or its core dies, and for every limit, set of profiles and number of boots.
THEOREM RecordTellsTheTruth == Spec => []RecordIsTrue
<1>1. IInv => RecordIsTrue
  BY DEF IInv, RecordIsTrue
<1> QED BY <1>1, InitIInv, NextIInv, PTL DEF Spec

\* A profile that failed StrikesToSuppress boots in a row is not resumed again, and no more than
\* UnstableBootsToStayUp boots in a row exit 70 or 71.
THEOREM NoLoopGoesOn == Spec => []LoopsEnd
<1>1. IInv => LoopsEnd
  BY DEF IInv, LoopsEnd
<1> QED BY <1>1, InitIInv, NextIInv, PTL DEF Spec

=============================================================================
