----------------------- MODULE CoreLifecycle_proofs -----------------------
(***************************************************************************)
(* Proofs for CoreLifecycle: the safety properties of Start and Stop hold  *)
(* for every number of Start requests.                                     *)
(***************************************************************************)
EXTENDS CoreLifecycle, TLAPS

StopPc  == {"release", "unpublish", "closebox", "stopextra", "stopkill", "stopclear", "stopclose"}
StartPc == Pc \ (StopPc \cup {"idle"})

\* The request at work is about the last Start, and so is what is published, unless a Start
\* has just been refused; what later Starts will create does not exist.
WorkInv ==
  /\ pc \in StartPc => starts # 0
  /\ pc \in StopPc => victim = starts /\ starts # 0
  /\ pc # "failed" => boxInstance \in {0, starts}
  /\ pc \in {"apply", "watch"} => boxInstance = starts
  /\ pc \in StopPc \ {"release", "unpublish"} => boxInstance = 0
  /\ xray <= starts /\ fullGates <= starts /\ doomed.xray <= starts /\ doomed.full <= starts
  /\ \A n \in Start : n > starts => /\ box[n] = "none" /\ sidecar[n] = "none"
                                    /\ fulls[n] = "none" /\ process[n] = "none"

\* What closeXray has taken out of the slots is in none of them, and the sidecars of the last Start
\* that run are in a slot or about to be closed.
SlotInv ==
  /\ PublishedXrayIsLive
  /\ pc \in {"close", "stopclose"} => xray = 0 /\ fullGates = 0
  /\ pc \notin {"close", "stopclose"} => doomed = NoneDoomed
  /\ starts # 0 /\ sidecar[starts] = "up" => starts \in {xray, doomed.xray}
  /\ starts # 0 /\ fulls[starts] = "up" => starts \in {fullGates, doomed.full}

\* A process is killed after its stopped flag is set, and reported only after it was waited for.
ExtraInv ==
  /\ pc = "extra" => process[starts] = "none"
  /\ starts # 0 /\ process[starts] = "up" => extraProcess = starts
  /\ \A n \in Start : process[n] = "killed" => n \in stopped
  /\ \A n \in Start : process[n] # "closed" => n \notin notice
  /\ pc \in {"kill", "stopkill"} /\ extraProcess # 0 => extraProcess \in stopped
  /\ pc \in {"stopclear", "stopclose"} => extraProcess = 0

\* Which box runs and which is closed at which stage, and that the resolver is put back before a box
\* closes.
BoxInv ==
  /\ pc \in {"publish", "apply", "watch"} => box[starts] = "up"
  /\ pc \in {"stopextra", "stopkill", "stopclear", "stopclose"} => box[victim] = "closed" /\ victim \notin rules
  /\ pc \in {"dying"} \cup (StopPc \ {"release"}) => ~dns
  /\ pc \in StopPc => watch = 0
  /\ ResolverHasAListener

\* How the mark follows the rules of the Tun it stands for.
MarkInv ==
  /\ pc \in {"full", "dns", "create"} /\ mark => Redirects
  /\ pc \in {"publish", "apply", "watch"} /\ mark => starts \in rules
  /\ MarkGoesWithTheTun

\* The inductive invariant.
IInv ==
  /\ TypeOK
  /\ WorkInv
  /\ SlotInv
  /\ ExtraInv
  /\ BoxInv
  /\ MarkInv

-----------------------------------------------------------------------------
\* A core that has just started satisfies the invariant.
LEMMA InitIInv == Init => IInv
<1> SUFFICES ASSUME Init PROVE IInv OBVIOUS
<1> USE LifecycleAssumption DEF Init, Fresh, NoneDoomed, Start, Slot
<1>1. TypeOK
  <2>1. doomed \in [xray : Slot, full : Slot] /\ process \in [Start -> {"none", "up", "exited", "killed", "closed"}]
    OBVIOUS
  <2>2. mark \in BOOLEAN /\ dns \in BOOLEAN
    BY Zenon
  <2> QED BY <2>1, <2>2 DEF TypeOK, Pc, Life
<1>2. WorkInv
  BY DEF WorkInv, StartPc, StopPc
<1>3. SlotInv
  BY DEF SlotInv, PublishedXrayIsLive
<1>4. ExtraInv
  BY DEF ExtraInv
<1>5. BoxInv
  BY DEF BoxInv, StopPc, ResolverHasAListener
<1>6. MarkInv
  BY DEF MarkInv, MarkGoesWithTheTun
<1> QED BY <1>1, <1>2, <1>3, <1>4, <1>5, <1>6 DEF IInv

\* A Start is admitted or refused.
LEMMA StartBeginsStep ==
  ASSUME IInv, NEW features \in SUBSET Feature, StartBegins(features)
  PROVE  IInv'
<1> USE LifecycleAssumption DEF IInv, TypeOK, Start, Slot, StartBegins, boxVars, xrayVars, extraVars, hostVars
<1>1. TypeOK'
  BY DEF Pc, Life
<1>2. WorkInv'
  BY DEF WorkInv, Pc, StartPc, StopPc
<1>3. SlotInv'
  BY DEF WorkInv, SlotInv, PublishedXrayIsLive, NoneDoomed
<1>4. ExtraInv'
  BY DEF WorkInv, ExtraInv, StartPc, StopPc, Pc
<1>5. BoxInv'
  BY DEF WorkInv, BoxInv, StartPc, StopPc, Pc, ResolverHasAListener
<1>6. MarkInv'
  BY DEF WorkInv, MarkInv, MarkGoesWithTheTun, Redirects, StartPc, StopPc, Pc
<1> QED BY <1>1, <1>2, <1>3, <1>4, <1>5, <1>6

\* The extra process is started.
LEMMA StartExtraStep ==
  ASSUME IInv, StartExtra
  PROVE  IInv'
<1> USE LifecycleAssumption DEF IInv, TypeOK, Start, Slot, StartExtra, Goto, boxVars, xrayVars, extraVars, hostVars
<1>1. TypeOK'
  BY DEF Pc, Life
<1>2. WorkInv'
  BY DEF WorkInv, Pc, StartPc, StopPc
<1>3. SlotInv'
  BY DEF WorkInv, SlotInv, PublishedXrayIsLive, NoneDoomed
<1>4. ExtraInv'
  BY DEF WorkInv, ExtraInv, StartPc, StopPc, Pc
<1>5. BoxInv'
  BY DEF WorkInv, BoxInv, StartPc, StopPc, Pc, ResolverHasAListener
<1>6. MarkInv'
  BY DEF WorkInv, MarkInv, MarkGoesWithTheTun, Redirects, StartPc, StopPc, Pc
<1> QED BY <1>1, <1>2, <1>3, <1>4, <1>5, <1>6

\* The mark and the Xray sidecar.
LEMMA StartXrayStep ==
  ASSUME IInv, StartXray
  PROVE  IInv'
<1> USE LifecycleAssumption DEF IInv, TypeOK, Start, Slot, StartXray, Goto, Redirects, boxVars, extraVars
<1>1. TypeOK'
  BY DEF Pc, Life
<1>2. WorkInv'
  BY DEF WorkInv, Pc, StartPc, StopPc
<1>3. SlotInv'
  BY DEF WorkInv, SlotInv, PublishedXrayIsLive, NoneDoomed
<1>4. ExtraInv'
  BY DEF WorkInv, ExtraInv, StartPc, StopPc, Pc
<1>5. BoxInv'
  BY DEF WorkInv, BoxInv, StartPc, StopPc, Pc, ResolverHasAListener
<1>6. MarkInv'
  BY DEF WorkInv, MarkInv, MarkGoesWithTheTun, Redirects, StartPc, StopPc, Pc
<1> QED BY <1>1, <1>2, <1>3, <1>4, <1>5, <1>6

\* The gates of full configs.
LEMMA StartFullStep ==
  ASSUME IInv, StartFull
  PROVE  IInv'
<1> USE LifecycleAssumption DEF IInv, TypeOK, Start, Slot, StartFull, Goto, boxVars, extraVars, hostVars
<1>1. TypeOK'
  BY DEF Pc, Life
<1>2. WorkInv'
  BY DEF WorkInv, Pc, StartPc, StopPc
<1>3. SlotInv'
  BY DEF WorkInv, SlotInv, PublishedXrayIsLive, NoneDoomed
<1>4. ExtraInv'
  BY DEF WorkInv, ExtraInv, StartPc, StopPc, Pc
<1>5. BoxInv'
  BY DEF WorkInv, BoxInv, StartPc, StopPc, Pc, ResolverHasAListener
<1>6. MarkInv'
  BY DEF WorkInv, MarkInv, MarkGoesWithTheTun, Redirects, StartPc, StopPc, Pc
<1> QED BY <1>1, <1>2, <1>3, <1>4, <1>5, <1>6

\* sysdns.Prepare.
LEMMA StartDnsStep ==
  ASSUME IInv, StartDns
  PROVE  IInv'
<1> USE LifecycleAssumption DEF IInv, TypeOK, Start, Slot, StartDns, Goto, boxVars, xrayVars, extraVars, hostVars
<1>1. TypeOK'
  BY DEF Pc, Life
<1>2. WorkInv'
  BY DEF WorkInv, Pc, StartPc, StopPc
<1>3. SlotInv'
  BY DEF WorkInv, SlotInv, PublishedXrayIsLive, NoneDoomed
<1>4. ExtraInv'
  BY DEF WorkInv, ExtraInv, StartPc, StopPc, Pc
<1>5. BoxInv'
  BY DEF WorkInv, BoxInv, StartPc, StopPc, Pc, ResolverHasAListener
<1>6. MarkInv'
  BY DEF WorkInv, MarkInv, MarkGoesWithTheTun, Redirects, StartPc, StopPc, Pc
<1> QED BY <1>1, <1>2, <1>3, <1>4, <1>5, <1>6

\* boxmain.Create.
LEMMA StartCreateStep ==
  ASSUME IInv, StartCreate
  PROVE  IInv'
<1> USE LifecycleAssumption DEF IInv, TypeOK, Start, Slot, StartCreate, Goto, xrayVars, extraVars, hostVars
<1>1. TypeOK'
  <2>1. dns' \in BOOLEAN /\ mark' \in BOOLEAN
    BY Zenon
  <2>2. starts \in Start
    BY DEF WorkInv, StartPc, StopPc, Pc
  <2>3. box' \in [Start -> Life] /\ rules' \subseteq Start
    BY <2>2 DEF Life
  <2> QED BY <2>1, <2>3 DEF Pc
<1>2. WorkInv'
  BY DEF WorkInv, Pc, StartPc, StopPc
<1>3. SlotInv'
  BY DEF WorkInv, SlotInv, PublishedXrayIsLive, NoneDoomed
<1>4. ExtraInv'
  BY DEF WorkInv, ExtraInv, StartPc, StopPc, Pc
<1>5. BoxInv'
  BY DEF WorkInv, BoxInv, StartPc, StopPc, Pc, ResolverHasAListener
<1>6. MarkInv'
  BY DEF WorkInv, MarkInv, MarkGoesWithTheTun, Redirects, StartPc, StopPc, Pc
<1> QED BY <1>1, <1>2, <1>3, <1>4, <1>5, <1>6

\* The box is published.
LEMMA StartPublishStep ==
  ASSUME IInv, StartPublish
  PROVE  IInv'
<1> USE LifecycleAssumption DEF IInv, TypeOK, Start, Slot, StartPublish, Goto, xrayVars, extraVars, hostVars
<1>1. TypeOK'
  BY DEF Pc, Life
<1>2. WorkInv'
  BY DEF WorkInv, Pc, StartPc, StopPc
<1>3. SlotInv'
  BY DEF WorkInv, SlotInv, PublishedXrayIsLive, NoneDoomed
<1>4. ExtraInv'
  BY DEF WorkInv, ExtraInv, StartPc, StopPc, Pc
<1>5. BoxInv'
  BY DEF WorkInv, BoxInv, StartPc, StopPc, Pc, ResolverHasAListener
<1>6. MarkInv'
  BY DEF WorkInv, MarkInv, MarkGoesWithTheTun, Redirects, StartPc, StopPc, Pc
<1> QED BY <1>1, <1>2, <1>3, <1>4, <1>5, <1>6

\* sysdns.Apply.
LEMMA StartApplyStep ==
  ASSUME IInv, StartApply
  PROVE  IInv'
<1> USE LifecycleAssumption DEF IInv, TypeOK, Start, Slot, StartApply, Goto, xrayVars, extraVars
<1>1. TypeOK'
  BY DEF Pc, Life
<1>2. WorkInv'
  BY DEF WorkInv, Pc, StartPc, StopPc
<1>3. SlotInv'
  BY DEF WorkInv, SlotInv, PublishedXrayIsLive, NoneDoomed
<1>4. ExtraInv'
  BY DEF WorkInv, ExtraInv, StartPc, StopPc, Pc
<1>5. BoxInv'
  BY DEF WorkInv, BoxInv, StartPc, StopPc, Pc, ResolverHasAListener
<1>6. MarkInv'
  BY DEF WorkInv, MarkInv, MarkGoesWithTheTun, Redirects, StartPc, StopPc, Pc
<1> QED BY <1>1, <1>2, <1>3, <1>4, <1>5, <1>6

\* The box of a failed Apply closes.
LEMMA StartDyingStep ==
  ASSUME IInv, StartDying
  PROVE  IInv'
<1> USE LifecycleAssumption DEF IInv, TypeOK, Start, Slot, StartDying, BoxCloses, Goto, xrayVars, extraVars, hostVars
<1>1. TypeOK'
  BY DEF Pc, Life
<1>2. WorkInv'
  BY DEF WorkInv, Pc, StartPc, StopPc
<1>3. SlotInv'
  BY DEF WorkInv, SlotInv, PublishedXrayIsLive, NoneDoomed
<1>4. ExtraInv'
  BY DEF WorkInv, ExtraInv, StartPc, StopPc, Pc
<1>5. BoxInv'
  BY DEF WorkInv, BoxInv, StartPc, StopPc, Pc, ResolverHasAListener
<1>6. MarkInv'
  BY DEF WorkInv, MarkInv, MarkGoesWithTheTun, Redirects, StartPc, StopPc, Pc
<1> QED BY <1>1, <1>2, <1>3, <1>4, <1>5, <1>6

\* Start answers.
LEMMA StartWatchStep ==
  ASSUME IInv, StartWatch
  PROVE  IInv'
<1> USE LifecycleAssumption DEF IInv, TypeOK, Start, Slot, StartWatch, Goto, boxVars, xrayVars, extraVars
<1>1. TypeOK'
  BY DEF Pc, Life
<1>2. WorkInv'
  BY DEF WorkInv, Pc, StartPc, StopPc
<1>3. SlotInv'
  BY DEF WorkInv, SlotInv, PublishedXrayIsLive, NoneDoomed
<1>4. ExtraInv'
  BY DEF WorkInv, ExtraInv, StartPc, StopPc, Pc
<1>5. BoxInv'
  BY DEF WorkInv, BoxInv, StartPc, StopPc, Pc, ResolverHasAListener
<1>6. MarkInv'
  BY DEF WorkInv, MarkInv, MarkGoesWithTheTun, Redirects, StartPc, StopPc, Pc
<1> QED BY <1>1, <1>2, <1>3, <1>4, <1>5, <1>6

\* stopSidecars begins.
LEMMA StopSidecarsStep ==
  ASSUME IInv, StopSidecars
  PROVE  IInv'
<1> USE LifecycleAssumption DEF IInv, TypeOK, Start, Slot, StopSidecars, StoreStopped, Goto, boxVars, xrayVars
<1>1. TypeOK'
  <2>1. dns' \in BOOLEAN /\ mark' \in BOOLEAN
    BY Zenon
  <2> QED BY <2>1 DEF Pc, Life
<1>2. WorkInv'
  BY DEF WorkInv, Pc, StartPc, StopPc
<1>3. SlotInv'
  BY DEF WorkInv, SlotInv, PublishedXrayIsLive, NoneDoomed
<1>4. ExtraInv'
  BY DEF WorkInv, ExtraInv, StartPc, StopPc, Pc
<1>5. BoxInv'
  BY DEF WorkInv, BoxInv, StartPc, StopPc, Pc, ResolverHasAListener
<1>6. MarkInv'
  BY DEF WorkInv, MarkInv, MarkGoesWithTheTun, Redirects, StartPc, StopPc, Pc
<1> QED BY <1>1, <1>2, <1>3, <1>4, <1>5, <1>6

\* Process.Stop in a failed Start.
LEMMA StartKillsStep ==
  ASSUME IInv, StartKills
  PROVE  IInv'
<1> USE LifecycleAssumption DEF IInv, TypeOK, Start, Slot, StartKills, Kill, Goto, boxVars, xrayVars, hostVars
<1>1. TypeOK'
  BY DEF Pc, Life
<1>2. WorkInv'
  BY DEF WorkInv, Pc, StartPc, StopPc
<1>3. SlotInv'
  BY DEF WorkInv, SlotInv, PublishedXrayIsLive, NoneDoomed
<1>4. ExtraInv'
  BY DEF WorkInv, ExtraInv, StartPc, StopPc, Pc
<1>5. BoxInv'
  BY DEF WorkInv, BoxInv, StartPc, StopPc, Pc, ResolverHasAListener
<1>6. MarkInv'
  BY DEF WorkInv, MarkInv, MarkGoesWithTheTun, Redirects, StartPc, StopPc, Pc
<1> QED BY <1>1, <1>2, <1>3, <1>4, <1>5, <1>6

\* closeXray in a failed Start, under stateMu.
LEMMA StartClearsStep ==
  ASSUME IInv, StartClears
  PROVE  IInv'
<1> USE LifecycleAssumption DEF IInv, TypeOK, Start, Slot, StartClears, ClearSlots, Goto, boxVars, extraVars, hostVars
<1>1. TypeOK'
  BY DEF Pc, Life
<1>2. WorkInv'
  BY DEF WorkInv, Pc, StartPc, StopPc
<1>3. SlotInv'
  BY DEF WorkInv, SlotInv, PublishedXrayIsLive, NoneDoomed
<1>4. ExtraInv'
  BY DEF WorkInv, ExtraInv, StartPc, StopPc, Pc
<1>5. BoxInv'
  BY DEF WorkInv, BoxInv, StartPc, StopPc, Pc, ResolverHasAListener
<1>6. MarkInv'
  BY DEF WorkInv, MarkInv, MarkGoesWithTheTun, Redirects, StartPc, StopPc, Pc
<1> QED BY <1>1, <1>2, <1>3, <1>4, <1>5, <1>6

\* closeXray in a failed Start, after it.
LEMMA StartClosesStep ==
  ASSUME IInv, StartCloses
  PROVE  IInv'
<1> USE LifecycleAssumption DEF IInv, TypeOK, Start, Slot, StartCloses, CloseDoomed, Goto, boxVars, extraVars, hostVars
<1>1. TypeOK'
  BY DEF Pc, Life, NoneDoomed
<1>2. WorkInv'
  BY DEF WorkInv, Pc, StartPc, StopPc, NoneDoomed
<1>3. SlotInv'
  BY DEF WorkInv, SlotInv, PublishedXrayIsLive, NoneDoomed
<1>4. ExtraInv'
  BY DEF WorkInv, ExtraInv, StartPc, StopPc, Pc
<1>5. BoxInv'
  BY DEF WorkInv, BoxInv, StartPc, StopPc, Pc, ResolverHasAListener
<1>6. MarkInv'
  BY DEF WorkInv, MarkInv, MarkGoesWithTheTun, Redirects, StartPc, StopPc, Pc
<1> QED BY <1>1, <1>2, <1>3, <1>4, <1>5, <1>6

\* The deferred function of a failed Start.
LEMMA StartFailedStep ==
  ASSUME IInv, StartFailed
  PROVE  IInv'
<1> USE LifecycleAssumption DEF IInv, TypeOK, Start, Slot, StartFailed, Goto, xrayVars, extraVars
<1>1. TypeOK'
  <2>1. dns' \in BOOLEAN /\ mark' \in BOOLEAN
    BY Zenon
  <2> QED BY <2>1 DEF Pc, Life
<1>2. WorkInv'
  BY DEF WorkInv, Pc, StartPc, StopPc
<1>3. SlotInv'
  BY DEF WorkInv, SlotInv, PublishedXrayIsLive, NoneDoomed
<1>4. ExtraInv'
  BY DEF WorkInv, ExtraInv, StartPc, StopPc, Pc
<1>5. BoxInv'
  BY DEF WorkInv, BoxInv, StartPc, StopPc, Pc, ResolverHasAListener
<1>6. MarkInv'
  BY DEF WorkInv, MarkInv, MarkGoesWithTheTun, Redirects, StartPc, StopPc, Pc
<1> QED BY <1>1, <1>2, <1>3, <1>4, <1>5, <1>6

\* Stop is admitted.
LEMMA StopBeginsStep ==
  ASSUME IInv, StopBegins
  PROVE  IInv'
<1> USE LifecycleAssumption DEF IInv, TypeOK, Start, Slot, StopBegins, boxVars, xrayVars, extraVars
<1>1. TypeOK'
  BY DEF Pc, Life
<1>2. WorkInv'
  BY DEF WorkInv, Pc, StartPc, StopPc
<1>3. SlotInv'
  BY DEF WorkInv, SlotInv, PublishedXrayIsLive, NoneDoomed
<1>4. ExtraInv'
  BY DEF WorkInv, ExtraInv, StartPc, StopPc, Pc
<1>5. BoxInv'
  BY DEF WorkInv, BoxInv, StartPc, StopPc, Pc, ResolverHasAListener
<1>6. MarkInv'
  BY DEF WorkInv, MarkInv, MarkGoesWithTheTun, Redirects, StartPc, StopPc, Pc
<1> QED BY <1>1, <1>2, <1>3, <1>4, <1>5, <1>6

\* Stop puts the resolver back.
LEMMA StopReleasesStep ==
  ASSUME IInv, StopReleases
  PROVE  IInv'
<1> USE LifecycleAssumption DEF IInv, TypeOK, Start, Slot, StopReleases, Goto, boxVars, xrayVars, extraVars
<1>1. TypeOK'
  BY DEF Pc, Life
<1>2. WorkInv'
  BY DEF WorkInv, Pc, StartPc, StopPc
<1>3. SlotInv'
  BY DEF WorkInv, SlotInv, PublishedXrayIsLive, NoneDoomed
<1>4. ExtraInv'
  BY DEF WorkInv, ExtraInv, StartPc, StopPc, Pc
<1>5. BoxInv'
  BY DEF WorkInv, BoxInv, StartPc, StopPc, Pc, ResolverHasAListener
<1>6. MarkInv'
  BY DEF WorkInv, MarkInv, MarkGoesWithTheTun, Redirects, StartPc, StopPc, Pc
<1> QED BY <1>1, <1>2, <1>3, <1>4, <1>5, <1>6

\* Stop unpublishes the box.
LEMMA StopUnpublishesStep ==
  ASSUME IInv, StopUnpublishes
  PROVE  IInv'
<1> USE LifecycleAssumption DEF IInv, TypeOK, Start, Slot, StopUnpublishes, Goto, xrayVars, extraVars, hostVars
<1>1. TypeOK'
  <2>1. dns' \in BOOLEAN /\ mark' \in BOOLEAN
    BY Zenon
  <2>2. box' \in [Start -> Life]
    BY DEF Life
  <2> QED BY <2>1, <2>2 DEF Pc
<1>2. WorkInv'
  BY DEF WorkInv, Pc, StartPc, StopPc
<1>3. SlotInv'
  BY DEF WorkInv, SlotInv, PublishedXrayIsLive, NoneDoomed
<1>4. ExtraInv'
  BY DEF WorkInv, ExtraInv, StartPc, StopPc, Pc
<1>5. BoxInv'
  BY DEF WorkInv, BoxInv, StartPc, StopPc, Pc, ResolverHasAListener
<1>6. MarkInv'
  BY DEF WorkInv, MarkInv, MarkGoesWithTheTun, Redirects, StartPc, StopPc, Pc
<1> QED BY <1>1, <1>2, <1>3, <1>4, <1>5, <1>6

\* Stop closes the box.
LEMMA StopClosesStep ==
  ASSUME IInv, StopCloses
  PROVE  IInv'
<1> USE LifecycleAssumption DEF IInv, TypeOK, Start, Slot, StopCloses, BoxCloses, Goto, xrayVars, extraVars, hostVars
<1>1. TypeOK'
  BY DEF Pc, Life
<1>2. WorkInv'
  BY DEF WorkInv, Pc, StartPc, StopPc
<1>3. SlotInv'
  BY DEF WorkInv, SlotInv, PublishedXrayIsLive, NoneDoomed
<1>4. ExtraInv'
  BY DEF WorkInv, ExtraInv, StartPc, StopPc, Pc
<1>5. BoxInv'
  BY DEF WorkInv, BoxInv, StartPc, StopPc, Pc, ResolverHasAListener
<1>6. MarkInv'
  BY DEF WorkInv, MarkInv, MarkGoesWithTheTun, Redirects, StartPc, StopPc, Pc
<1> QED BY <1>1, <1>2, <1>3, <1>4, <1>5, <1>6

\* Process.Stop in Stop, first.
LEMMA StopStopsExtraStep ==
  ASSUME IInv, StopStopsExtra
  PROVE  IInv'
<1> USE LifecycleAssumption DEF IInv, TypeOK, Start, Slot, StopStopsExtra, StoreStopped, Goto, boxVars, xrayVars, hostVars
<1>1. TypeOK'
  BY DEF Pc, Life
<1>2. WorkInv'
  BY DEF WorkInv, Pc, StartPc, StopPc
<1>3. SlotInv'
  BY DEF WorkInv, SlotInv, PublishedXrayIsLive, NoneDoomed
<1>4. ExtraInv'
  BY DEF WorkInv, ExtraInv, StartPc, StopPc, Pc
<1>5. BoxInv'
  BY DEF WorkInv, BoxInv, StartPc, StopPc, Pc, ResolverHasAListener
<1>6. MarkInv'
  BY DEF WorkInv, MarkInv, MarkGoesWithTheTun, Redirects, StartPc, StopPc, Pc
<1> QED BY <1>1, <1>2, <1>3, <1>4, <1>5, <1>6

\* Process.Stop in Stop, then.
LEMMA StopKillsStep ==
  ASSUME IInv, StopKills
  PROVE  IInv'
<1> USE LifecycleAssumption DEF IInv, TypeOK, Start, Slot, StopKills, Kill, Goto, boxVars, xrayVars, hostVars
<1>1. TypeOK'
  BY DEF Pc, Life
<1>2. WorkInv'
  BY DEF WorkInv, Pc, StartPc, StopPc
<1>3. SlotInv'
  BY DEF WorkInv, SlotInv, PublishedXrayIsLive, NoneDoomed
<1>4. ExtraInv'
  BY DEF WorkInv, ExtraInv, StartPc, StopPc, Pc
<1>5. BoxInv'
  BY DEF WorkInv, BoxInv, StartPc, StopPc, Pc, ResolverHasAListener
<1>6. MarkInv'
  BY DEF WorkInv, MarkInv, MarkGoesWithTheTun, Redirects, StartPc, StopPc, Pc
<1> QED BY <1>1, <1>2, <1>3, <1>4, <1>5, <1>6

\* closeXray in Stop, under stateMu.
LEMMA StopClearsStep ==
  ASSUME IInv, StopClears
  PROVE  IInv'
<1> USE LifecycleAssumption DEF IInv, TypeOK, Start, Slot, StopClears, ClearSlots, Goto, boxVars, extraVars, hostVars
<1>1. TypeOK'
  BY DEF Pc, Life
<1>2. WorkInv'
  BY DEF WorkInv, Pc, StartPc, StopPc
<1>3. SlotInv'
  BY DEF WorkInv, SlotInv, PublishedXrayIsLive, NoneDoomed
<1>4. ExtraInv'
  BY DEF WorkInv, ExtraInv, StartPc, StopPc, Pc
<1>5. BoxInv'
  BY DEF WorkInv, BoxInv, StartPc, StopPc, Pc, ResolverHasAListener
<1>6. MarkInv'
  BY DEF WorkInv, MarkInv, MarkGoesWithTheTun, Redirects, StartPc, StopPc, Pc
<1> QED BY <1>1, <1>2, <1>3, <1>4, <1>5, <1>6

\* Stop closes the sidecars and answers.
LEMMA StopEndsStep ==
  ASSUME IInv, StopEnds
  PROVE  IInv'
<1> USE LifecycleAssumption DEF IInv, TypeOK, Start, Slot, StopEnds, CloseDoomed, Goto, boxVars, extraVars
<1>1. TypeOK'
  <2>1. dns' \in BOOLEAN /\ mark' \in BOOLEAN
    BY Zenon
  <2> QED BY <2>1 DEF Pc, Life, NoneDoomed
<1>2. WorkInv'
  BY DEF WorkInv, Pc, StartPc, StopPc, NoneDoomed
<1>3. SlotInv'
  BY DEF WorkInv, SlotInv, PublishedXrayIsLive, NoneDoomed
<1>4. ExtraInv'
  BY DEF WorkInv, ExtraInv, StartPc, StopPc, Pc
<1>5. BoxInv'
  BY DEF WorkInv, BoxInv, StartPc, StopPc, Pc, ResolverHasAListener
<1>6. MarkInv'
  BY DEF WorkInv, MarkInv, MarkGoesWithTheTun, Redirects, StartPc, StopPc, Pc
<1> QED BY <1>1, <1>2, <1>3, <1>4, <1>5, <1>6

\* An extra process exits.
LEMMA ExtraExitsStep ==
  ASSUME IInv, NEW n \in Start, ExtraExits(n)
  PROVE  IInv'
<1> USE LifecycleAssumption DEF IInv, TypeOK, Start, Slot, ExtraExits, requestVars, boxVars, xrayVars, hostVars
<1>1. TypeOK'
  BY DEF Pc, Life
<1>2. WorkInv'
  BY DEF WorkInv, Pc, StartPc, StopPc
<1>3. SlotInv'
  BY DEF WorkInv, SlotInv, PublishedXrayIsLive, NoneDoomed
<1>4. ExtraInv'
  BY DEF WorkInv, ExtraInv, StartPc, StopPc, Pc
<1>5. BoxInv'
  BY DEF WorkInv, BoxInv, StartPc, StopPc, Pc, ResolverHasAListener
<1>6. MarkInv'
  BY DEF WorkInv, MarkInv, MarkGoesWithTheTun, Redirects, StartPc, StopPc, Pc
<1> QED BY <1>1, <1>2, <1>3, <1>4, <1>5, <1>6

\* The goroutine that waits for a process.
LEMMA WaitReturnsStep ==
  ASSUME IInv, NEW n \in Start, WaitReturns(n)
  PROVE  IInv'
<1> USE LifecycleAssumption DEF IInv, TypeOK, Start, Slot, WaitReturns, requestVars, boxVars, xrayVars, hostVars
<1>1. TypeOK'
  BY DEF Pc, Life
<1>2. WorkInv'
  BY DEF WorkInv, Pc, StartPc, StopPc
<1>3. SlotInv'
  BY DEF WorkInv, SlotInv, PublishedXrayIsLive, NoneDoomed
<1>4. ExtraInv'
  BY DEF WorkInv, ExtraInv, StartPc, StopPc, Pc
<1>5. BoxInv'
  BY DEF WorkInv, BoxInv, StartPc, StopPc, Pc, ResolverHasAListener
<1>6. MarkInv'
  BY DEF WorkInv, MarkInv, MarkGoesWithTheTun, Redirects, StartPc, StopPc, Pc
<1> QED BY <1>1, <1>2, <1>3, <1>4, <1>5, <1>6

-----------------------------------------------------------------------------
\* Every step keeps the invariant.
LEMMA NextIInv == IInv /\ [Next]_vars => IInv'
<1> SUFFICES ASSUME IInv, [Next]_vars PROVE IInv' OBVIOUS
<1>1. CASE \E features \in SUBSET Feature : StartBegins(features)
  BY <1>1, StartBeginsStep
<1>2. CASE StartExtra \/ StartXray \/ StartFull \/ StartDns \/ StartCreate \/ StartPublish
  BY <1>2, StartExtraStep, StartXrayStep, StartFullStep, StartDnsStep, StartCreateStep,
     StartPublishStep
<1>3. CASE StartApply \/ StartDying \/ StartWatch \/ StopSidecars \/ StartKills \/ StartClears
  BY <1>3, StartApplyStep, StartDyingStep, StartWatchStep, StopSidecarsStep, StartKillsStep,
     StartClearsStep
<1>4. CASE StartCloses \/ StartFailed \/ StopBegins \/ StopReleases \/ StopUnpublishes
  BY <1>4, StartClosesStep, StartFailedStep, StopBeginsStep, StopReleasesStep, StopUnpublishesStep
<1>5. CASE StopCloses \/ StopStopsExtra \/ StopKills \/ StopClears \/ StopEnds
  BY <1>5, StopClosesStep, StopStopsExtraStep, StopKillsStep, StopClearsStep, StopEndsStep
<1>6. CASE \E n \in Start : ExtraExits(n) \/ WaitReturns(n)
  BY <1>6, ExtraExitsStep, WaitReturnsStep
<1>7. CASE UNCHANGED vars
  BY <1>7 DEF vars, requestVars, boxVars, xrayVars, extraVars, hostVars, IInv, TypeOK, WorkInv, SlotInv,
     PublishedXrayIsLive, ExtraInv, BoxInv, ResolverHasAListener, MarkInv, MarkGoesWithTheTun, Redirects
<1> QED BY <1>1, <1>2, <1>3, <1>4, <1>5, <1>6, <1>7 DEF Next

\* The invariant holds in every reachable state.
LEMMA LifecycleInvariant == Spec => []IInv
  BY InitIInv, NextIInv, PTL DEF Spec

\* What others see of a profile stands for something that runs, however many Starts are
\* refused, fail or follow each other.
THEOREM ShowsOnlyLive == Spec => []WhatShowsIsLive
<1>1. IInv => WhatShowsIsLive
  BY DEF IInv, SlotInv, BoxInv, MarkInv, WhatShowsIsLive
<1> QED BY <1>1, LifecycleInvariant, PTL

\* A process that Process.Stop kills is never reported to have exited unexpectedly.
THEOREM KillsAreSilent == Spec => KillIsSilent
<1> DEFINE Silent == \A n \in Start : process[n] = "killed" /\ process'[n] = "closed" => n \notin notice'
<1>1. IInv /\ [Next]_vars => [Silent]_vars
  <2> SUFFICES ASSUME IInv, [Next]_vars, NEW n \in Start, process[n] = "killed", process'[n] = "closed"
               PROVE  n \notin notice'
    BY DEF IInv
  <2>1. n \in stopped /\ n \notin notice
    BY DEF IInv, ExtraInv
  <2>2. ASSUME NEW m \in Start, WaitReturns(m) PROVE n \notin notice'
    BY <2>1, <2>2 DEF WaitReturns, IInv, TypeOK
  <2>3. \/ UNCHANGED notice
        \/ \E m \in Start : WaitReturns(m)
    BY DEF Next, vars, StartBegins, StartExtra, StartXray, StartFull, StartDns, StartCreate, StartPublish,
       StartApply, StartDying, StartWatch, StopSidecars, StartKills, StartClears, StartCloses,
       StartFailed, StopBegins, StopReleases, StopUnpublishes, StopCloses, StopStopsExtra, StopKills,
       StopClears, StopEnds, ExtraExits, Kill, extraVars
  <2> QED BY <2>1, <2>2, <2>3
<1> QED BY <1>1, LifecycleInvariant, PTL DEF Spec, KillIsSilent

\* When Stop answers, nothing of the profile it found published is left.
THEOREM StopLeavesNothing == Spec => StopStopsEverything
<1> DEFINE Gone == /\ boxInstance' = 0 /\ box'[victim] = "closed" /\ victim \notin rules'
                   /\ sidecar'[victim] # "up" /\ fulls'[victim] # "up" /\ process'[victim] # "up"
                   /\ ~dns' /\ ~mark' /\ watch' = 0
<1>1. IInv /\ [Next]_vars => [pc = "stopclose" /\ pc' = "idle" => Gone]_vars
  <2> SUFFICES ASSUME IInv, [Next]_vars, pc = "stopclose", pc' = "idle" PROVE Gone
    BY DEF IInv
  <2>1. StopEnds
    BY DEF Next, vars, requestVars, StartBegins, StartExtra, StartXray, StartFull, StartDns, StartCreate,
       StartPublish, StartApply, StartDying, StartWatch, StopSidecars, StartKills, StartClears,
       StartCloses, StartFailed, StopBegins, StopReleases, StopUnpublishes, StopCloses,
       StopStopsExtra, StopKills, StopClears, ExtraExits, WaitReturns
  <2>2. victim = starts /\ starts \in Start
    BY LifecycleAssumption DEF IInv, TypeOK, WorkInv, StopPc, Start
  <2>3. boxInstance' = 0 /\ box'[victim] = "closed" /\ victim \notin rules' /\ ~dns' /\ ~mark' /\ watch' = 0
    BY <2>1 DEF StopEnds, boxVars, IInv, WorkInv, BoxInv, StopPc
  <2>4. sidecar'[victim] # "up" /\ fulls'[victim] # "up"
    BY <2>1, <2>2 DEF StopEnds, CloseDoomed, IInv, TypeOK, SlotInv, Start
  <2>5. process'[victim] # "up"
    BY <2>1, <2>2 DEF StopEnds, extraVars, IInv, TypeOK, ExtraInv, Start
  <2> QED BY <2>3, <2>4, <2>5
<1> QED BY <1>1, LifecycleInvariant, PTL DEF Spec, StopStopsEverything
=============================================================================
