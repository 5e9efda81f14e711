---------------------------- MODULE CoreLifecycle ----------------------------
(***************************************************************************)
(* The core's Start and Stop requests: core/internal/rpc/lifecycle.go,     *)
(* state.go and xray.go (closeXray), with the extra process of             *)
(* core/internal/process/process.go.                                       *)
(*                                                                         *)
(* Every request has a goroutine of its own; lifecycleMu admits one Start  *)
(* or Stop at a time, in any order.  Other requests read the published     *)
(* pointers meanwhile, under stateMu, and an extra process may exit at any *)
(* time.  What a Start creates is named by the number of the Start.        *)
(***************************************************************************)
EXTENDS Naturals

CONSTANT MaxStarts   \* bound: the Start requests

ASSUME LifecycleAssumption == MaxStarts \in Nat \ {0}

VARIABLES
  os,            \* runtime.GOOS
  starts,        \* the Start requests so far; the last is the one at work
  pc,            \* where the request that holds lifecycleMu is
  req,           \* what the Start at work asks for
  victim,        \* the box the Stop at work is about
  boxInstance,   \* the published box, by the number of its Start; 0 is nil
  box,           \* the box of each Start
  rules,         \* the Starts whose Tun has its auto_redirect rules in the kernel
  xray,          \* xrayInstance or xrayGate
  sidecar,       \* the Xray instance or gate of each Start
  fullGates,     \* xrayFullGates
  fulls,         \* the gates of full configs of each Start
  doomed,        \* what closeXray has taken out of the slots
  extraProcess,  \* extraProcess
  process,       \* the extra process of each Start, and the goroutine that waits for it
  stopped,       \* the Starts whose Process.stopped is set
  notice,        \* those whose process was reported to have exited unexpectedly
  watch,         \* stopEgressForwardingWatch
  mark,          \* autoRedirectMark is not 0
  dns            \* the system resolver points at the core: sysdns.Apply

requestVars == <<starts, pc, req, victim>>
boxVars     == <<boxInstance, box, rules>>
xrayVars    == <<xray, sidecar, fullGates, fulls, doomed>>
extraVars   == <<extraProcess, process, stopped, notice>>
hostVars    == <<watch, mark, dns>>
vars == <<os, requestVars, boxVars, xrayVars, extraVars, hostVars>>

Start   == 1..MaxStarts
Slot    == 0..MaxStarts
OS      == {"linux", "darwin", "windows"}
Feature == {"extra", "xray", "full", "tun", "redirect"}
Life    == {"none", "up", "closing", "closed"}

\* The stages of Start, what ends a failed one, and the stages of Stop.
Pc == {"idle", "extra", "xray", "full", "dns", "create", "publish", "apply", "dying", "watch"}
      \cup {"sidecars", "kill", "clear", "close", "failed"}
      \cup {"release", "unpublish", "closebox", "stopextra", "stopkill", "stopclear", "stopclose"}

\* The published pointers and the things they point at are of the kinds lifecycle.go gives them.
TypeOK ==
  /\ os \in OS
  /\ starts \in 0..MaxStarts /\ pc \in Pc /\ req \in SUBSET Feature /\ victim \in Slot
  /\ boxInstance \in Slot /\ box \in [Start -> Life] /\ rules \in SUBSET Start
  /\ xray \in Slot /\ sidecar \in [Start -> Life]
  /\ fullGates \in Slot /\ fulls \in [Start -> Life]
  /\ doomed \in [xray : Slot, full : Slot]
  /\ extraProcess \in Slot
  /\ process \in [Start -> {"none", "up", "exited", "killed", "closed"}]
  /\ stopped \in SUBSET Start /\ notice \in SUBSET Start
  /\ watch \in Slot /\ mark \in BOOLEAN /\ dns \in BOOLEAN

Fresh      == [n \in Start |-> "none"]
NoneDoomed == [xray |-> 0, full |-> 0]

Init ==
  /\ os \in OS
  /\ starts = 0 /\ pc = "idle" /\ req = {} /\ victim = 0
  /\ boxInstance = 0 /\ box = Fresh /\ rules = {}
  /\ xray = 0 /\ sidecar = Fresh /\ fullGates = 0 /\ fulls = Fresh /\ doomed = NoneDoomed
  /\ extraProcess = 0 /\ process = Fresh /\ stopped = {} /\ notice = {}
  /\ watch = 0 /\ mark = FALSE /\ dns = FALSE

-----------------------------------------------------------------------------
Redirects == os = "linux" /\ "redirect" \in req   \* autoRedirectMarkFor
SystemDns == os = "darwin" /\ "tun" \in req

\* The request at work goes on; what it knows goes with it.
Goto(to) ==
  /\ pc' = to
  /\ req' = IF to = "idle" THEN {} ELSE req
  /\ victim' = IF to = "idle" THEN 0 ELSE victim
  /\ UNCHANGED starts

\* Mutant of StoreStopped: the process is killed without a word to the goroutine that waits.
StoreNothing == UNCHANGED stopped

\* Process.Stop, first: the exit to come is expected.
StoreStopped == stopped' = stopped \cup ({extraProcess} \ {0})

\* Process.Stop, then: Kill, if it ever ran; the pointer is dropped.
Kill ==
  /\ process' = [n \in Start |-> IF n = extraProcess /\ process[n] = "up" THEN "killed"
                                 ELSE process[n]]
  /\ extraProcess' = 0
  /\ UNCHANGED <<stopped, notice>>

\* closeXray, under stateMu: the slots are emptied.
ClearSlots ==
  /\ doomed' = [xray |-> xray, full |-> fullGates]
  /\ xray' = 0
  /\ fullGates' = 0
  /\ UNCHANGED <<sidecar, fulls>>

\* closeXray, after it: what was in them is closed.
CloseDoomed ==
  /\ sidecar' = [n \in Start |-> IF n = doomed.xray THEN "closed" ELSE sidecar[n]]
  /\ fulls' = [n \in Start |-> IF n = doomed.full THEN "closed" ELSE fulls[n]]
  /\ doomed' = NoneDoomed
  /\ UNCHANGED <<xray, fullGates>>

\* Box.CloseWithTimeout, blocking: the Tun and its rules go with the box.
BoxCloses(n) ==
  /\ box' = [box EXCEPT ![n] = "closed"]
  /\ rules' = rules \ {n}
  /\ UNCHANGED boxInstance

-----------------------------------------------------------------------------
(* Start.  Each stage may fail. *)

\* A published box refuses the request.  auto_redirect is an option of a Tun.
StartBegins(features) ==
  /\ pc = "idle" /\ starts < MaxStarts
  /\ "redirect" \in features => "tun" \in features /\ os = "linux"
  /\ starts' = starts + 1
  /\ req' = features
  /\ pc' = IF boxInstance # 0 THEN "failed" ELSE "extra"
  /\ UNCHANGED <<os, victim, boxVars, xrayVars, extraVars, hostVars>>

\* Bad arguments or no config file leave no process; a child that cannot be started leaves an idle one.
StartExtra ==
  /\ pc = "extra"
  /\ \/ /\ "extra" \notin req
        /\ Goto("xray")
        /\ UNCHANGED extraVars
     \/ /\ "extra" \in req
        /\ extraProcess' \in {extraProcess, starts}
        /\ Goto("failed")
        /\ UNCHANGED <<process, stopped, notice>>
     \/ /\ "extra" \in req
        /\ extraProcess' = starts
        /\ process' = [process EXCEPT ![starts] = "up"]
        /\ Goto("xray")
        /\ UNCHANGED <<stopped, notice>>
  /\ UNCHANGED <<os, boxVars, xrayVars, hostVars>>

\* The mark, then the Xray sidecar: eager, or behind a gate.
StartXray ==
  /\ pc = "xray"
  /\ mark' = Redirects
  /\ \/ /\ "xray" \notin req
        /\ Goto("full")
        /\ UNCHANGED <<xray, sidecar>>
     \/ /\ "xray" \in req
        /\ xray' = starts
        /\ sidecar' = [sidecar EXCEPT ![starts] = "up"]
        /\ Goto("full")
     \/ /\ "xray" \in req
        /\ Goto("failed")
        /\ UNCHANGED <<xray, sidecar>>
  /\ UNCHANGED <<os, boxVars, fullGates, fulls, doomed, extraVars, watch, dns>>

\* startXrayFullGates closes what it opened if it fails, and closeXray follows.
StartFull ==
  /\ pc = "full"
  /\ \/ /\ "full" \notin req
        /\ Goto("dns")
        /\ UNCHANGED <<fullGates, fulls>>
     \/ /\ "full" \in req
        /\ fullGates' = starts
        /\ fulls' = [fulls EXCEPT ![starts] = "up"]
        /\ Goto("dns")
     \/ /\ "full" \in req
        /\ Goto("clear")
        /\ UNCHANGED <<fullGates, fulls>>
  /\ UNCHANGED <<os, boxVars, xray, sidecar, doomed, extraVars, hostVars>>

\* sysdns.Prepare.
StartDns ==
  /\ pc = "dns"
  /\ \/ Goto("create")
     \/ SystemDns /\ Goto("sidecars")
  /\ UNCHANGED <<os, boxVars, xrayVars, extraVars, hostVars>>

\* boxmain.Create: the box runs once it returns.
StartCreate ==
  /\ pc = "create"
  /\ \/ /\ box' = [box EXCEPT ![starts] = "up"]
        /\ rules' = IF Redirects THEN rules \cup {starts} ELSE rules
        /\ Goto("publish")
     \/ /\ Goto("sidecars")
        /\ UNCHANGED <<box, rules>>
  /\ UNCHANGED <<os, boxInstance, xrayVars, extraVars, hostVars>>

StartPublish ==
  /\ pc = "publish"
  /\ boxInstance' = starts
  /\ Goto("apply")
  /\ UNCHANGED <<os, box, rules, xrayVars, extraVars, hostVars>>

\* sysdns.Apply; on failure Release, and the box begins to close.
StartApply ==
  /\ pc = "apply"
  /\ \/ /\ dns' = (dns \/ SystemDns)
        /\ Goto("watch")
        /\ UNCHANGED box
     \/ /\ SystemDns
        /\ dns' = FALSE
        /\ box' = [box EXCEPT ![starts] = "closing"]
        /\ Goto("dying")
  /\ UNCHANGED <<os, boxInstance, rules, xrayVars, extraVars, watch, mark>>

StartDying ==
  /\ pc = "dying"
  /\ BoxCloses(starts)
  /\ Goto("sidecars")
  /\ UNCHANGED <<os, xrayVars, extraVars, hostVars>>

\* watchEgressForwarding has something to watch on Windows only; then the answer.
StartWatch ==
  /\ pc = "watch"
  /\ \/ "tun" \notin req /\ UNCHANGED watch
     \/ "tun" \in req /\ watch' = 0
     \/ "tun" \in req /\ os = "windows" /\ watch' = starts
  /\ Goto("idle")
  /\ UNCHANGED <<os, boxVars, xrayVars, extraVars, mark, dns>>

\* stopSidecars: Release, Process.Stop, closeXray.
StopSidecars ==
  /\ pc = "sidecars"
  /\ dns' = FALSE
  /\ StoreStopped
  /\ Goto("kill")
  /\ UNCHANGED <<os, boxVars, xrayVars, extraProcess, process, notice, watch, mark>>

StartKills ==
  /\ pc = "kill"
  /\ Kill
  /\ Goto("clear")
  /\ UNCHANGED <<os, boxVars, xrayVars, hostVars>>

StartClears ==
  /\ pc = "clear"
  /\ ClearSlots
  /\ Goto("close")
  /\ UNCHANGED <<os, boxVars, extraVars, hostVars>>

StartCloses ==
  /\ pc = "close"
  /\ CloseDoomed
  /\ Goto("failed")
  /\ UNCHANGED <<os, boxVars, extraVars, hostVars>>

\* Mutant of StartFailed: the mark stays.
StartFailedKeepsMark ==
  /\ pc = "failed"
  /\ boxInstance' = 0
  /\ Goto("idle")
  /\ UNCHANGED <<os, box, rules, xrayVars, extraVars, hostVars>>

\* The deferred function of a Start that failed, wherever it did.
StartFailed ==
  /\ pc = "failed"
  /\ boxInstance' = 0
  /\ mark' = FALSE
  /\ Goto("idle")
  /\ UNCHANGED <<os, box, rules, xrayVars, extraVars, watch, dns>>

-----------------------------------------------------------------------------
(* Stop. *)

\* Without a box there is nothing to do.
StopBegins ==
  /\ pc = "idle"
  /\ victim' = boxInstance
  /\ pc' = IF boxInstance = 0 THEN "idle" ELSE "release"
  /\ watch' = IF boxInstance = 0 THEN watch ELSE 0
  /\ UNCHANGED <<os, starts, req, boxVars, xrayVars, extraVars, mark, dns>>

StopReleases ==
  /\ pc = "release"
  /\ dns' = FALSE
  /\ Goto("unpublish")
  /\ UNCHANGED <<os, boxVars, xrayVars, extraVars, watch, mark>>

\* Unpublished, then closed.
StopUnpublishes ==
  /\ pc = "unpublish"
  /\ boxInstance' = 0
  /\ box' = [box EXCEPT ![victim] = "closing"]
  /\ Goto("closebox")
  /\ UNCHANGED <<os, rules, xrayVars, extraVars, hostVars>>

StopCloses ==
  /\ pc = "closebox"
  /\ BoxCloses(victim)
  /\ Goto("stopextra")
  /\ UNCHANGED <<os, xrayVars, extraVars, hostVars>>

StopStopsExtra ==
  /\ pc = "stopextra"
  /\ StoreStopped
  /\ Goto("stopkill")
  /\ UNCHANGED <<os, boxVars, xrayVars, extraProcess, process, notice, hostVars>>

\* Mutant of StopKills: the pointer is dropped and nothing is killed.
StopDropsExtra ==
  /\ pc = "stopkill"
  /\ extraProcess' = 0
  /\ Goto("stopclear")
  /\ UNCHANGED <<os, boxVars, xrayVars, process, stopped, notice, hostVars>>

StopKills ==
  /\ pc = "stopkill"
  /\ Kill
  /\ Goto("stopclear")
  /\ UNCHANGED <<os, boxVars, xrayVars, hostVars>>

StopClears ==
  /\ pc = "stopclear"
  /\ ClearSlots
  /\ Goto("stopclose")
  /\ UNCHANGED <<os, boxVars, extraVars, hostVars>>

\* The sidecars are closed and the mark is cleared.
StopEnds ==
  /\ pc = "stopclose"
  /\ CloseDoomed
  /\ mark' = FALSE
  /\ Goto("idle")
  /\ UNCHANGED <<os, boxVars, extraVars, watch, dns>>

-----------------------------------------------------------------------------
(* The extra process and the goroutine that waits for it. *)

ExtraExits(n) ==
  /\ process[n] = "up"
  /\ process' = [process EXCEPT ![n] = "exited"]
  /\ UNCHANGED <<os, requestVars, boxVars, xrayVars, extraProcess, stopped, notice, hostVars>>

\* Wait returns; the GUI stops the running profile when it reads the notice.
WaitReturns(n) ==
  /\ process[n] \in {"exited", "killed"}
  /\ process' = [process EXCEPT ![n] = "closed"]
  /\ notice' = IF n \in stopped THEN notice ELSE notice \cup {n}
  /\ UNCHANGED <<os, requestVars, boxVars, xrayVars, extraProcess, stopped, hostVars>>

Next ==
  \/ \E features \in SUBSET Feature : StartBegins(features)
  \/ StartExtra \/ StartXray \/ StartFull \/ StartDns \/ StartCreate \/ StartPublish
  \/ StartApply \/ StartDying \/ StartWatch
  \/ StopSidecars \/ StartKills \/ StartClears \/ StartCloses \/ StartFailed
  \/ StopBegins \/ StopReleases \/ StopUnpublishes \/ StopCloses \/ StopStopsExtra
  \/ StopKills \/ StopClears \/ StopEnds
  \/ \E n \in Start : ExtraExits(n) \/ WaitReturns(n)

Spec == Init /\ [][Next]_vars

-----------------------------------------------------------------------------
(* Properties *)

\* While it is published, an Xray instance or gate runs: closeXray empties the slots before it closes
\* what was in them, so that no reader under stateMu picks up a pointer that is going away.
PublishedXrayIsLive ==
  /\ xray # 0 => sidecar[xray] = "up"
  /\ fullGates # 0 => fulls[fullGates] = "up"

\* The system resolver never points at a listener that is already gone: Stop and a failed Start put it
\* back before the box closes.
ResolverHasAListener == dns => \E n \in Start : box[n] = "up"

\* Between requests the mark is set only while the published box has its auto_redirect rules in the
\* kernel: no way out of Start or Stop lets test instances carry the mark of a Tun that is gone.
MarkGoesWithTheTun == pc = "idle" /\ mark => boxInstance \in rules

\* What others see of a profile stands for something that runs: the slots they read, the resolver the
\* system asks and the mark that test instances carry.
WhatShowsIsLive == TypeOK /\ PublishedXrayIsLive /\ ResolverHasAListener /\ MarkGoesWithTheTun

\* An extra process that Process.Stop kills is never reported to have exited unexpectedly, which
\* would make the GUI stop the profile that runs by then.
KillIsSilent ==
  [][\A n \in Start : process[n] = "killed" /\ process'[n] = "closed" => n \notin notice']_vars

\* When Stop answers, nothing of the profile it found published is left: box, Tun rules, Xray
\* sidecar, full gates, extra process, resolver and forwarding watch.
StopStopsEverything ==
  [][pc = "stopclose" /\ pc' = "idle" =>
       /\ boxInstance' = 0 /\ box'[victim] = "closed" /\ victim \notin rules'
       /\ sidecar'[victim] # "up" /\ fulls'[victim] # "up" /\ process'[victim] # "up"
       /\ ~dns' /\ ~mark' /\ watch' = 0]_vars

=============================================================================
