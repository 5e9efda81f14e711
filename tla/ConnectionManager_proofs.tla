----------------------- MODULE ConnectionManager_proofs -----------------------
(***************************************************************************)
(* Proofs for ConnectionManager, for every set of profiles and any number  *)
(* of requests, deaths and changes of the kill switch: the guard of a      *)
(* switch covers it (IInv), an armed kill switch runs no profile without   *)
(* the guard identity (IdentityInv), what the engine shows at rest is what *)
(* it runs (ShownInv) and what the core runs (LoadedInv), and a request is *)
(* answered at most once (ReqInv).                                         *)
(***************************************************************************)
EXTENDS ConnectionManager, SequenceTheorems, TLAPS

\* The types.  ReqInv, below, bounds the answers by one.
MainType ==
  [issued : 0 .. MaxRequests, answers : [1 .. MaxRequests -> Nat],
   coreReq : StartRequest, killReq : StartRequest, boot : 0 .. MaxRequests,
   guard : BOOLEAN, connecting : BOOLEAN, disconnecting : BOOLEAN,
   shown : {"Idle", "Connecting", "Stopping", "Running"},
   geo : ProfileOrNone, geoRetried : ProfileOrNone,
   ks : {"Disabled", "Arming", "Armed", "Failed"},
   st : {"new", "listenFailed", "starting", "probing", "up", "dead", "gaveUp"},
   identity : BOOLEAN, startWhenUp : ProfileOrNone, restart : {"no", "plain", "guard"}]
CoreType == [loaded : ProfileOrNone, filter : BOOLEAN, late : BOOLEAN,
             stray : BOOLEAN, owed : SUBSET OwedStart, overdue : BOOLEAN]
StarterType ==
  [req : StartRequest, guard : {"no", "asked", "held"}, late : BOOLEAN,
   pc : {"begin", "guard", "look", "stop", "wait", "rpc", "accepted", "recorded", "release"}]
StopperType == [pc : {"none", "rpc", "clear", "posted", "ui"}, crash : BOOLEAN, manual : BOOLEAN]
PostType ==
  [op : {"finish", "connected", "disconnecting", "cancel", "teardown"}, req : StartRequest, started : BOOLEAN]
CoresType == {"idle", "died", "diedStop", "report", "restartStop"}

TypeInv ==
  /\ m \in MainType /\ core \in CoreType /\ cores \in CoresType /\ starters \subseteq StarterType
  /\ stopper \in StopperType /\ running \in ProfileOrNone /\ startedId \in ProfileOrNone
  /\ posts \in Seq(PostType) /\ ranking \subseteq StartRequest
  /\ exiting \in BOOLEAN /\ stopped \in BOOLEAN /\ setup \in Setup

\* mu_starting admits one start worker.
SoleStarter == \A v, w \in starters : v = w
\* A worker holds the filter only past InstallGuard.
HeldInv == \A w \in starters : w.guard = "held" => w.pc \notin {"begin", "guard"}

\* The inductive invariant.
IInv == TypeInv /\ SoleStarter /\ HeldInv /\ FilterIsOwned /\ SwitchIsCovered

-----------------------------------------------------------------------------
(* The operators. *)

\* The requests of the engine itself, and the absent ones.
LEMMA OwnOk ==
  /\ None \in ProfileOrNone /\ NoRequest \in StartRequest /\ NoStop \in StopperType /\ NoCore \in CoreType
  /\ NoCore.filter = FALSE
  /\ \A p \in ProfileOrNone : Own(p) \in StartRequest
<1>1. None \in ProfileOrNone /\ 0 \in 0 .. MaxRequests
  BY BoundAssumption DEF ProfileOrNone
<1>2. \A p \in ProfileOrNone : Own(p) \in StartRequest
  BY <1>1 DEF Own, StartRequest
<1>3. NoRequest \in StartRequest
  BY <1>1, <1>2 DEF NoRequest
<1> QED BY <1>1, <1>2, <1>3 DEF NoStop, NoCore, StopperType, CoreType

\* An answer changes the count of its request only.
LEMMA FinishOk ==
  ASSUME NEW s \in MainType, NEW r \in StartRequest
  PROVE  Finish(s, r) \in MainType
<1>1. r.serial \in 0 .. MaxRequests /\ MaxRequests \in Nat
  BY BoundAssumption DEF StartRequest
<1>2. CASE r.serial = 0
  BY <1>2 DEF Finish
<1>3. CASE r.serial # 0
  <2> DEFINE b == s.answers
             a == [b EXCEPT ![r.serial] = b[r.serial] + 1]
  <2>1. b \in [1 .. MaxRequests -> Nat] /\ r.serial \in 1 .. MaxRequests
    BY <1>1, <1>3 DEF MainType
  <2> HIDE DEF b
  <2>2. a \in [1 .. MaxRequests -> Nat]
    <3>1. b[r.serial] + 1 \in Nat
      BY <2>1
    <3> QED BY <2>1, <3>1
  <2> USE DEF b
  <2>3. Finish(s, r) = [s EXCEPT !.answers = a]
    BY <1>3 DEF Finish, MainType
  <2> HIDE DEF a
  <2> QED BY <2>2, <2>3 DEF MainType
<1> QED BY <1>2, <1>3

\* The state that is shown.
LEMMA SyncStateOk ==
  ASSUME NEW s \in MainType
  PROVE  SyncState(s) \in MainType
<1>1. ConnectionState(s) \in {"Idle", "Connecting", "Stopping", "Running"}
  BY DEF ConnectionState
<1> QED BY <1>1 DEF SyncState, MainType

\* The request that waits for the core.
LEMMA DeferOk ==
  ASSUME NEW s \in MainType, NEW r \in StartRequest
  PROVE  DeferStartToCore(s, r) \in MainType
<1> DEFINE f == Finish(s, s.coreReq)
<1>1. s.coreReq \in StartRequest
  BY DEF MainType
<1>2. f \in MainType
  BY <1>1, FinishOk
<1> HIDE DEF f
<1>3. [f EXCEPT !.coreReq = r] \in MainType
  BY <1>2 DEF MainType
<1> QED BY <1>3 DEF DeferStartToCore, f

\* The restart of a core that runs without the guard identity.
LEMMA GuardRestartOk ==
  ASSUME NEW s \in MainType, NEW r \in StartRequest
  PROVE  RestartCoreForGuard(s, r) \in MainType
<1> DEFINE d == DeferStartToCore(s, r)
<1>1. d \in MainType /\ Finish(s, r) \in MainType /\ r.id \in ProfileOrNone
  BY DeferOk, FinishOk DEF StartRequest
<1> HIDE DEF d
<1>2. d.restart \in {"no", "plain", "guard"}
  BY <1>1 DEF MainType
<1> DEFINE x == IF s.guard THEN d.restart ELSE "guard"
<1>3. x \in {"no", "plain", "guard"}
  BY <1>2
<1> HIDE DEF x
<1>4. [d EXCEPT !.startWhenUp = r.id, !.guard = TRUE, !.restart = x] \in MainType
  BY <1>1, <1>3 DEF MainType
<1>5. RestartCoreForGuard(s, r) \in
        {Finish(s, r), [d EXCEPT !.startWhenUp = r.id, !.guard = TRUE, !.restart = x]}
  BY DEF RestartCoreForGuard, d, x
<1> QED BY <1>1, <1>4, <1>5

\* The start that a core gives up.
LEMMA GivenUpOk ==
  ASSUME NEW s \in MainType
  PROVE  GivenUp(s) \in MainType
<1> DEFINE f == Finish(s, s.coreReq)
<1>1. f \in MainType /\ NoRequest \in StartRequest /\ None \in ProfileOrNone
  BY FinishOk, OwnOk DEF MainType
<1> HIDE DEF f
<1>2. [f EXCEPT !.coreReq = NoRequest, !.guard = FALSE, !.st = "gaveUp", !.startWhenUp = None] \in MainType
  BY <1>1 DEF MainType
<1> QED BY <1>2 DEF GivenUp, f

\* The start that a core adopts.
LEMMA AdoptedOk ==
  ASSUME NEW s \in MainType
  PROVE  Adopted(s) \in MainType
<1> DEFINE f == IF s.coreReq.id # m.startWhenUp THEN Finish(s, s.coreReq) ELSE s
<1>1. s.coreReq \in StartRequest
  BY DEF MainType
<1>2. f \in MainType /\ NoRequest \in StartRequest
  BY <1>1, FinishOk, OwnOk
<1> HIDE DEF f
<1>3. [f EXCEPT !.coreReq = NoRequest] \in MainType
  BY <1>2 DEF MainType
<1> QED BY <1>3 DEF Adopted, f

\* What arming carries over.
LEMMA ArmedRestartOk ==
  ASSUME NEW s \in MainType, startedId \in ProfileOrNone
  PROVE  ArmedRestart(s) \in MainType
<1>1. s.coreReq \in StartRequest /\ s.startWhenUp \in ProfileOrNone /\ NoRequest \in StartRequest
  BY OwnOk DEF MainType
<1>2. Own(s.startWhenUp) \in StartRequest /\ Own(startedId) \in StartRequest
  BY <1>1, OwnOk
<1>3. [s EXCEPT !.coreReq = NoRequest] \in MainType
  BY <1>1 DEF MainType
<1>4. /\ RestartCoreForGuard([s EXCEPT !.coreReq = NoRequest], s.coreReq) \in MainType
      /\ RestartCoreForGuard(s, Own(s.startWhenUp)) \in MainType
      /\ RestartCoreForGuard(s, Own(startedId)) \in MainType
  BY <1>1, <1>2, <1>3, GuardRestartOk
<1> QED BY <1>4 DEF ArmedRestart

\* A queue of closures that grows.
LEMMA PostOk ==
  ASSUME NEW q \in Seq(PostType), NEW o \in {"finish", "connected", "disconnecting", "cancel", "teardown"},
         NEW r \in StartRequest, NEW b \in BOOLEAN
  PROVE  q \o Post(o, r, b) \in Seq(PostType)
<1>1. [op |-> o, req |-> r, started |-> b] \in PostType
  BY DEF PostType
<1>2. Post(o, r, b) \in Seq(PostType)
  BY <1>1 DEF Post
<1> QED BY <1>2, ConcatProperties

-----------------------------------------------------------------------------
(* start(). *)

\* At most one start worker is launched, when there is none.
Launches ==
  \/ starters' = starters
  \/ starters = {} /\ \E r \in StartRequest : starters' = {NewStarter(r)}

\* A new worker holds nothing.
LEMMA NewStarterOk ==
  ASSUME NEW r \in StartRequest
  PROVE  NewStarter(r) \in StarterType /\ NewStarter(r).guard = "no" /\ NewStarter(r).pc = "begin"
  BY DEF NewStarter, StarterType

\* A step of the main thread, which leaves the filter alone, keeps the invariant.
LEMMA MainKeeps ==
  ASSUME IInv, TypeInv', core'.filter = core.filter, Launches
  PROVE  IInv'
<1>1. CASE starters' = starters
  BY <1>1 DEF IInv, SoleStarter, HeldInv, FilterIsOwned, SwitchIsCovered
<1>2. ASSUME starters = {}, NEW r \in StartRequest, starters' = {NewStarter(r)} PROVE IInv'
  <2> DEFINE v == NewStarter(r)
  <2>1. v.guard = "no" /\ v.pc = "begin"
    BY NewStarterOk
  <2> HIDE DEF v
  <2>2. core.filter = FALSE
    BY <1>2 DEF IInv, FilterIsOwned, TypeInv, CoreType
  <2> QED BY <1>2, <2>1, <2>2 DEF IInv, SoleStarter, HeldInv, FilterIsOwned, SwitchIsCovered, v
<1> QED BY <1>1, <1>2 DEF Launches

\* From the locks on.
LEMMA LaunchOk ==
  ASSUME IInv, NEW s \in MainType, NEW r \in StartRequest, Launch(s, r)
  PROVE  m' \in MainType /\ Launches
<1>1. r.id \in ProfileOrNone /\ Finish(s, r) \in MainType
  BY FinishOk DEF StartRequest
<1> DEFINE d == DeferStartToCore(s, r)
           c == [s EXCEPT !.connecting = TRUE]
<1>2. d \in MainType /\ c \in MainType
  BY DeferOk DEF MainType
<1> HIDE DEF d
<1> DEFINE e == [d EXCEPT !.startWhenUp = r.id]
<1>a. e \in MainType
  BY <1>1, <1>2 DEF MainType
<1> HIDE DEF e
<1>b. [e EXCEPT !.restart = "plain"] \in MainType
  BY <1>a DEF MainType
<1>3. /\ [d EXCEPT !.startWhenUp = r.id] \in MainType
      /\ [d EXCEPT !.startWhenUp = r.id, !.restart = "plain"] \in MainType
  BY <1>a, <1>b, Zenon DEF e
<1> HIDE DEF c
<1>4. SyncState(c) \in MainType
  BY <1>2, SyncStateOk
<1>5. ~mu_starting => starters = {}
  BY DEF mu_starting, StartingLockedIn, IInv, TypeInv, StarterType
<1>6. \/ m' = Finish(s, r) /\ starters' = starters
      \/ m' = [d EXCEPT !.startWhenUp = r.id] /\ starters' = starters
      \/ m' = [d EXCEPT !.startWhenUp = r.id, !.restart = "plain"] /\ starters' = starters
      \/ m' = SyncState(c) /\ starters' = starters \union {NewStarter(r)} /\ ~mu_starting
  BY DEF Launch, d, c
<1> QED BY <1>1, <1>3, <1>4, <1>5, <1>6 DEF Launches

\* The whole of start().
LEMMA StartOk ==
  ASSUME IInv, NEW s0 \in MainType, NEW r \in StartRequest, NEW b \in BOOLEAN, Start(s0, r, b)
  PROVE  m' \in MainType /\ ranking' \subseteq StartRequest /\ Launches
<1> DEFINE s == [s0 EXCEPT !.geo = None]
           held == HeldAfter(r, b)
<1>1. s \in MainType
  BY OwnOk DEF MainType
<1>2. held \subseteq StartRequest
  BY DEF HeldAfter, IInv, TypeInv
<1> HIDE DEF s, held
<1>3. Finish(s, r) \in MainType /\ RestartCoreForGuard(s, r) \in MainType
  BY <1>1, FinishOk, GuardRestartOk
<1> DEFINE k == Finish(s, s.killReq)
<1>4. s.killReq \in StartRequest
  BY <1>1 DEF MainType
<1>5. k \in MainType
  BY <1>1, <1>4, FinishOk
<1> HIDE DEF k
<1>6. [k EXCEPT !.killReq = r] \in MainType
  BY <1>5 DEF MainType
<1>7. \/ m' = Finish(s, r) /\ ranking' = held /\ starters' = starters
      \/ m' = [k EXCEPT !.killReq = r] /\ ranking' = held /\ starters' = starters
      \/ m' = RestartCoreForGuard(s, r) /\ ranking' = held /\ starters' = starters
      \/ m' = s /\ ranking' = {r} /\ starters' = starters
      \/ Launch(s, r) /\ ranking' = held
  BY DEF Start, s, held, k
<1>8. CASE Launch(s, r) /\ ranking' = held
  BY <1>1, <1>2, <1>8, LaunchOk
<1> QED BY <1>1, <1>2, <1>3, <1>6, <1>7, <1>8 DEF Launches

-----------------------------------------------------------------------------
(* The start worker. *)

\* The worker that holds the filter, and only it, keeps it until it hands it back.
LEMMA StarterKeeps ==
  ASSUME IInv, TypeInv', NEW w \in starters, NEW v \in StarterType, Step(w, v),
         v.guard = "held" => v.pc \notin {"begin", "guard"} /\ (w.guard = "held" \/ core'.filter),
         core'.filter <=> core.filter \/ (v.guard = "held" /\ w.guard # "held"),
         w.guard = "held" => v.guard = "held",
         v.guard = "held" /\ w.pc = "release" => v.pc = "release"
  PROVE  IInv'
<1>1. starters = {w} /\ starters' = {v}
  BY DEF IInv, SoleStarter, Step
<1>2. core.filter => w.guard = "held" /\ w.pc \notin {"begin", "guard"}
  BY <1>1 DEF IInv, FilterIsOwned
<1>3. w.guard = "held" => w.pc \notin {"begin", "guard"}
  BY DEF IInv, HeldInv
<1>4. w.guard = "held" /\ w.pc # "release" => core.filter
  BY <1>3 DEF IInv, SwitchIsCovered, TypeInv, StarterType
<1>5. core'.filter => v.guard = "held" /\ v.pc \notin {"begin", "guard"}
  BY <1>2
<1>6. v.guard = "held" /\ v.pc # "release" => core'.filter
  BY <1>4
<1>7. SoleStarter' /\ HeldInv' /\ FilterIsOwned'
  BY <1>1, <1>5 DEF SoleStarter, HeldInv, FilterIsOwned
<1>8. SwitchIsCovered'
  BY <1>1, <1>6 DEF SwitchIsCovered
<1> QED BY <1>7, <1>8 DEF IInv

\* A worker that goes on without touching the filter.
LEMMA ToKeeps ==
  ASSUME IInv, NEW w \in starters,
         NEW c \in {"look", "stop", "wait", "rpc", "accepted", "recorded", "release"},
         To(w, c), w.pc # "release",
         starters' \subseteq StarterType => TypeInv', core'.filter = core.filter
  PROVE  IInv'
<1> DEFINE v == [w EXCEPT !.pc = c]
<1>1. w \in StarterType /\ starters \subseteq StarterType
  BY DEF IInv, TypeInv
<1>2. v \in StarterType /\ v.pc = c /\ v.guard = w.guard
  BY <1>1 DEF StarterType
<1>3. Step(w, v)
  BY DEF To
<1> HIDE DEF v
<1>4. TypeInv'
  BY <1>1, <1>2, <1>3 DEF Step
<1> QED BY <1>2, <1>3, <1>4, StarterKeeps

\* The worker begins.
LEMMA BeginsKeeps == ASSUME IInv, NEW w \in starters, StarterBegins(w) PROVE IInv'
<1>1. /\ w.pc = "begin" /\ w \in StarterType /\ starters \subseteq StarterType
      /\ UNCHANGED <<m, core, cores, stopper, running, startedId, posts, ranking, exiting, stopped, setup>>
  BY DEF StarterBegins, IInv, TypeInv
<1>2. starters' \subseteq StarterType => TypeInv'
  BY <1>1 DEF IInv, TypeInv
<1>3. CASE Step(w, [w EXCEPT !.pc = "guard", !.guard = "asked"])
  <2> DEFINE v == [w EXCEPT !.pc = "guard", !.guard = "asked"]
  <2>1. v \in StarterType /\ v.pc = "guard" /\ v.guard = "asked" /\ Step(w, v)
    BY <1>1, <1>3 DEF StarterType
  <2> HIDE DEF v
  <2>2. w.guard # "held"
    BY <1>1 DEF IInv, HeldInv
  <2>3. TypeInv'
    BY <1>1, <1>2, <2>1 DEF Step
  <2> QED BY <1>1, <2>1, <2>2, <2>3, StarterKeeps
<1>4. CASE To(w, "stop") \/ To(w, "rpc")
  BY <1>1, <1>2, <1>4, ToKeeps
<1> QED BY <1>3, <1>4 DEF StarterBegins

\* The filter is installed, or not.
LEMMA InstallKeeps == ASSUME IInv, NEW w \in starters, InstallGuard(w) PROVE IInv'
<1>1. /\ w.pc = "guard" /\ w \in StarterType /\ starters \subseteq StarterType /\ core \in CoreType
      /\ UNCHANGED <<m, cores, stopper, running, startedId, posts, ranking, exiting, stopped, setup>>
  BY DEF InstallGuard, IInv, TypeInv
<1>2. starters' \subseteq StarterType /\ core' \in CoreType => TypeInv'
  BY <1>1 DEF IInv, TypeInv
<1>3. CASE core' = [core EXCEPT !.filter = TRUE] /\ Step(w, [w EXCEPT !.pc = "look", !.guard = "held"])
  <2> DEFINE v == [w EXCEPT !.pc = "look", !.guard = "held"]
  <2>1. v \in StarterType /\ v.pc = "look" /\ v.guard = "held" /\ Step(w, v)
    BY <1>1, <1>3 DEF StarterType
  <2> HIDE DEF v
  <2>2. w.guard # "held"
    BY <1>1 DEF IInv, HeldInv
  <2>3. core' \in CoreType /\ core'.filter = TRUE
    BY <1>1, <1>3 DEF CoreType
  <2>4. TypeInv'
    BY <1>1, <1>2, <2>1, <2>3 DEF Step
  <2> QED BY <1>1, <2>1, <2>2, <2>3, <2>4, StarterKeeps
<1>4. CASE To(w, "look") /\ core' = core
  BY <1>1, <1>2, <1>4, ToKeeps
<1> QED BY <1>3, <1>4 DEF InstallGuard

\* The worker looks whether there is a profile to stop, and waits for the stop.
LEMMA LooksKeeps == ASSUME IInv, NEW w \in starters, StarterLooks(w) \/ StarterWaits(w) PROVE IInv'
<1>1. /\ w.pc \in {"look", "wait"} /\ (To(w, "stop") \/ To(w, "rpc"))
      /\ UNCHANGED <<m, core, cores, stopper, running, startedId, posts, ranking, exiting, stopped, setup>>
  BY DEF StarterLooks, StarterWaits
<1>2. starters' \subseteq StarterType => TypeInv'
  BY <1>1 DEF IInv, TypeInv
<1> QED BY <1>1, <1>2, ToKeeps

\* A stop that begins.
LEMMA BeginStopOk ==
  ASSUME NEW c \in BOOLEAN, NEW d \in BOOLEAN, BeginStop(c, d)
  PROVE  stopper' \in StopperType
  BY DEF BeginStop, StopperType

\* The worker stops the old profile.
LEMMA StopsKeeps == ASSUME IInv, NEW w \in starters, StarterStops(w) PROVE IInv'
<1>1. /\ w.pc = "stop" /\ To(w, "wait") /\ m' = [m EXCEPT !.geo = None]
      /\ UNCHANGED <<core, cores, running, startedId, ranking, exiting, stopped, setup>>
  BY DEF StarterStops
<1>2. m' \in MainType
  BY <1>1, OwnOk DEF IInv, TypeInv, MainType
<1>3. posts \in Seq(PostType) /\ stopper \in StopperType /\ NoRequest \in StartRequest
  BY OwnOk DEF IInv, TypeInv
<1>4. /\ posts \o Post("cancel", NoRequest, FALSE) \in Seq(PostType)
      /\ posts \o Post("disconnecting", NoRequest, FALSE) \in Seq(PostType)
  BY <1>3, PostOk
<1>5. \/ posts' = posts \o Post("cancel", NoRequest, FALSE) /\ stopper' = stopper
      \/ posts' = posts /\ stopper' = stopper
      \/ posts' = posts \o Post("disconnecting", NoRequest, FALSE) /\ BeginStop(FALSE, TRUE)
  BY DEF StarterStops
<1>6. posts' \in Seq(PostType) /\ stopper' \in StopperType
  BY <1>3, <1>4, <1>5, BeginStopOk
<1>7. starters' \subseteq StarterType => TypeInv'
  BY <1>1, <1>2, <1>6 DEF IInv, TypeInv
<1> QED BY <1>1, <1>7, ToKeeps

\* The closures that a worker leaves at its end.
LEMMA EndedOk ==
  ASSUME IInv, NEW w \in starters, NEW b \in BOOLEAN
  PROVE  Ended(w, b) \in Seq(PostType)
<1>1. posts \in Seq(PostType) /\ w.req \in StartRequest /\ NoRequest \in StartRequest
  BY OwnOk DEF IInv, TypeInv, StarterType
<1>2. posts \o Post("finish", w.req, b) \in Seq(PostType)
  BY <1>1, PostOk
<1> QED BY <1>1, <1>2, PostOk DEF Ended

\* The clean-up of a Start that is refused.
LEMMA UnpublishedIs ==
  ASSUME NEW c \in CoreType
  PROVE  /\ Unpublished(c) \in CoreType /\ Unpublished(c).loaded = None /\ Unpublished(c).filter = c.filter
         /\ Unpublished(c).late = c.late /\ Unpublished(c).owed = c.owed /\ Unpublished(c).stray = TRUE
         /\ Unpublished(c).overdue = c.overdue
<1> SUFFICES ASSUME NEW u, u = [c EXCEPT !.loaded = None, !.stray = TRUE]
             PROVE  /\ u \in CoreType /\ u.loaded = None /\ u.filter = c.filter
                    /\ u.late = c.late /\ u.owed = c.owed /\ u.stray = TRUE /\ u.overdue = c.overdue
  BY DEF Unpublished
<1>1. u \in CoreType
  BY OwnOk DEF CoreType
<1> QED BY <1>1 DEF CoreType

\* The Start RPC answers.
LEMMA AnsweredKeeps == ASSUME IInv, NEW w \in starters, StartAnswered(w) PROVE IInv'
<1>1. /\ w.pc = "rpc"
      /\ UNCHANGED <<cores, stopper, running, startedId, ranking, exiting, stopped, setup>>
  BY DEF StartAnswered
<1>2. w.req.id \in ProfileOrNone /\ w.late \in BOOLEAN /\ core \in CoreType /\ m \in MainType
  BY DEF IInv, TypeInv, StarterType, StartRequest
<1>3. CASE core' = Accepted(w) /\ To(w, "accepted") /\ UNCHANGED <<m, posts>>
  <2>1. core' \in CoreType /\ core'.filter = core.filter
    BY <1>2, <1>3 DEF Accepted, CoreType
  <2>2. starters' \subseteq StarterType => TypeInv'
    BY <1>1, <1>3, <2>1 DEF IInv, TypeInv
  <2> QED BY <1>1, <1>3, <2>1, <2>2, ToKeeps
<1>4. CASE /\ To(w, "release") /\ posts' = Ended(w, FALSE)
           /\ core' = core \/ core' = Unpublished(core)
           /\ m' = m \/ m' = [m EXCEPT !.geo = w.req.id]
  <2>1. m' \in MainType
    BY <1>2, <1>4 DEF MainType
  <2>2. core' \in CoreType /\ core'.filter = core.filter
    BY <1>2, <1>4, UnpublishedIs
  <2>3. posts' \in Seq(PostType)
    BY <1>4, EndedOk
  <2>4. starters' \subseteq StarterType => TypeInv'
    BY <1>1, <2>1, <2>2, <2>3 DEF IInv, TypeInv
  <2> QED BY <1>1, <1>4, <2>2, <2>4, ToKeeps
<1> QED BY <1>3, <1>4 DEF StartAnswered

\* The Start RPC times out: the Start is owed from now on.
LEMMA TimedOutIs ==
  ASSUME core \in CoreType, setup \in Setup, NEW w \in StarterType, StartTimesOut(w)
  PROVE  /\ core' \in CoreType /\ setup' \in Setup /\ core'.filter = core.filter
         /\ core'.loaded = core.loaded /\ core'.late = core.late /\ core'.stray = core.stray
         /\ core'.overdue = core.overdue
         /\ \A s \in core'.owed : s \in core.owed \/ s.late = w.late
<1> DEFINE s == [nr |-> setup.slow, id |-> w.req.id, late |-> w.late]
           a == core.owed \union {s}
           n == setup.slow - 1
<1>1. setup.slow \in Nat /\ setup.slow > 0 /\ w.req.id \in ProfileOrNone /\ w.late \in BOOLEAN
  BY DEF StartTimesOut, Setup, StarterType, StartRequest
<1>2. s \in OwedStart /\ s.late = w.late
  BY <1>1 DEF OwedStart
<1>3. n \in Nat
  BY <1>1
<1>4. core' = [core EXCEPT !.owed = a] /\ setup' = [setup EXCEPT !.slow = n]
  BY DEF StartTimesOut
<1> HIDE DEF s, n
<1>5. a \in SUBSET OwedStart /\ \A x \in a : x \in core.owed \/ x.late = w.late
  BY <1>2 DEF CoreType
<1> HIDE DEF a
<1>6. setup' \in Setup
  BY <1>3, <1>4 DEF Setup
<1>7. core' \in CoreType /\ core'.owed = a
  BY <1>4, <1>5 DEF CoreType
<1>8. core'.filter = core.filter /\ core'.loaded = core.loaded /\ core'.late = core.late
  BY <1>4 DEF CoreType
<1>9. core'.stray = core.stray /\ core'.overdue = core.overdue
  BY <1>4 DEF CoreType
<1> QED BY <1>5, <1>6, <1>7, <1>8, <1>9

LEMMA TimesOutKeeps == ASSUME IInv, NEW w \in starters, StartTimesOut(w) PROVE IInv'
<1>1. /\ w.pc = "rpc" /\ To(w, "release") /\ posts' = Ended(w, FALSE)
      /\ UNCHANGED <<m, cores, stopper, running, startedId, ranking, exiting, stopped>>
  BY DEF StartTimesOut
<1>2. core' \in CoreType /\ setup' \in Setup /\ core'.filter = core.filter
  BY TimedOutIs DEF IInv, TypeInv
<1>3. posts' \in Seq(PostType)
  BY <1>1, EndedOk
<1>4. starters' \subseteq StarterType => TypeInv'
  BY <1>1, <1>2, <1>3 DEF IInv, TypeInv
<1> QED BY <1>1, <1>2, <1>4, ToKeeps

\* An owed Start: it fails, it loads its profile, or it unpublishes another.
LEMMA OwedRunsIs ==
  ASSUME core \in CoreType, OwedStartRuns
  PROVE  /\ core' \in CoreType /\ core'.filter = core.filter /\ core'.owed \subseteq core.owed
         /\ \/ core'.loaded = core.loaded /\ core'.late = core.late
               /\ core'.stray = core.stray /\ core'.overdue = core.overdue
            \/ /\ CoreRunning(m) /\ core'.overdue /\ core.loaded = None
               /\ \E s \in core.owed : core'.loaded = s.id /\ core'.late = s.late
            \/ core'.overdue /\ core'.loaded = None
<1>1. PICK s \in core.owed :
        \/ ~Refuses /\ core' = [core EXCEPT !.owed = core.owed \ {s}]
        \/ ~Refuses /\ core' = [[core EXCEPT !.owed = core.owed \ {s}] EXCEPT !.loaded = s.id, !.late = s.late, !.overdue = TRUE]
        \/ core' = [Unpublished([core EXCEPT !.owed = core.owed \ {s}]) EXCEPT !.overdue = TRUE]
  BY DEF OwedStartRuns
<1> DEFINE a == core.owed \ {s}
           c == [core EXCEPT !.owed = a]
<1>2. a \in SUBSET OwedStart /\ a \subseteq core.owed /\ s.id \in ProfileOrNone /\ s.late \in BOOLEAN
      /\ None \in ProfileOrNone /\ core.owed \in SUBSET OwedStart
  BY OwnOk DEF CoreType, OwedStart
<1>3. \/ ~Refuses /\ core' = c
      \/ ~Refuses /\ core' = [c EXCEPT !.loaded = s.id, !.late = s.late, !.overdue = TRUE]
      \/ core' = [Unpublished(c) EXCEPT !.overdue = TRUE]
  BY <1>1
<1> HIDE DEF a
<1>4. /\ c \in CoreType /\ c.owed = a /\ c.filter = core.filter /\ c.loaded = core.loaded
      /\ c.late = core.late /\ c.stray = core.stray /\ c.overdue = core.overdue
  BY <1>2 DEF CoreType
<1> HIDE DEF c
<1>5. CASE ~Refuses /\ core' = c
  BY <1>2, <1>4, <1>5
<1>6. CASE ~Refuses /\ core' = [c EXCEPT !.loaded = s.id, !.late = s.late, !.overdue = TRUE]
  <2>1. core' \in CoreType /\ core'.owed = a
    BY <1>2, <1>4, <1>6 DEF CoreType
  <2>2. core'.filter = core.filter /\ core'.loaded = s.id /\ core'.late = s.late /\ core'.overdue = TRUE
    BY <1>4, <1>6 DEF CoreType
  <2>3. CoreRunning(m) /\ core.loaded = None
    BY <1>6 DEF OwedStartRuns, Refuses
  <2> QED BY <1>2, <2>1, <2>2, <2>3
<1>7. CASE core' = [Unpublished(c) EXCEPT !.overdue = TRUE]
  <2> DEFINE u == Unpublished(c)
  <2>1. u \in CoreType /\ u.owed = a /\ u.filter = core.filter /\ u.loaded = None
    BY <1>4, UnpublishedIs
  <2>2. core' = [u EXCEPT !.overdue = TRUE]
    BY <1>7
  <2> HIDE DEF u
  <2>3. core' \in CoreType /\ core'.owed = a /\ core'.filter = core.filter /\ core'.loaded = None /\ core'.overdue = TRUE
    BY <2>1, <2>2 DEF CoreType
  <2> QED BY <1>2, <2>3
<1> QED BY <1>3, <1>5, <1>6, <1>7

LEMMA OwedKeeps == ASSUME IInv, OwedStartRuns PROVE IInv'
<1>1. core' \in CoreType /\ core'.filter = core.filter
  BY OwedRunsIs DEF IInv, TypeInv
<1>2. UNCHANGED <<m, cores, starters, stopper, running, startedId, posts, ranking, exiting, stopped, setup>>
  BY DEF OwedStartRuns
<1>3. TypeInv'
  BY <1>1, <1>2 DEF IInv, TypeInv
<1> QED BY <1>1, <1>2, <1>3 DEF IInv, SoleStarter, HeldInv, FilterIsOwned, SwitchIsCovered

\* The HOTP counter.
LEMMA OtpKeeps == ASSUME IInv, NEW w \in starters, CommitOtp(w) PROVE IInv'
<1>1. /\ w.pc = "accepted"
      /\ UNCHANGED <<m, cores, stopper, running, ranking, exiting, stopped, setup>>
  BY DEF CommitOtp
<1>2. w.req.id \in ProfileOrNone /\ core \in CoreType /\ None \in ProfileOrNone
  BY OwnOk DEF IInv, TypeInv, StarterType, StartRequest
<1>3. CASE To(w, "recorded") /\ startedId' = w.req.id /\ UNCHANGED <<core, posts>>
  <2>1. starters' \subseteq StarterType => TypeInv'
    BY <1>1, <1>2, <1>3 DEF IInv, TypeInv
  <2> QED BY <1>1, <1>3, <2>1, ToKeeps
<1>4. CASE To(w, "release") /\ posts' = Ended(w, FALSE) /\ core' = [core EXCEPT !.loaded = None] /\ UNCHANGED startedId
  <2>1. core' \in CoreType /\ core'.filter = core.filter /\ posts' \in Seq(PostType)
    BY <1>2, <1>4, EndedOk DEF CoreType
  <2>2. starters' \subseteq StarterType => TypeInv'
    BY <1>1, <1>4, <2>1 DEF IInv, TypeInv
  <2> QED BY <1>1, <1>4, <2>1, <2>2, ToKeeps
<1> QED BY <1>3, <1>4 DEF CommitOtp

\* The profile runs.
LEMMA RecordsKeeps == ASSUME IInv, NEW w \in starters, StarterRecords(w) PROVE IInv'
<1>1. /\ w.pc = "recorded" /\ running' = w.req.id /\ To(w, "release") /\ posts' = Ended(w, TRUE)
      /\ UNCHANGED <<m, core, cores, stopper, startedId, ranking, exiting, stopped, setup>>
  BY DEF StarterRecords
<1>2. w.req.id \in ProfileOrNone /\ posts' \in Seq(PostType)
  BY <1>1, EndedOk DEF IInv, TypeInv, StarterType, StartRequest
<1>3. starters' \subseteq StarterType => TypeInv'
  BY <1>1, <1>2 DEF IInv, TypeInv
<1> QED BY <1>1, <1>3, ToKeeps

\* The worker hands the filter back and is gone.
LEMMA ReleaseKeeps == ASSUME IInv, NEW w \in starters, ReleaseGuard(w) PROVE IInv'
<1>1. /\ starters' = starters \ {w}
      /\ core' = IF w.guard # "no" THEN [core EXCEPT !.filter = FALSE] ELSE core
      /\ UNCHANGED <<m, cores, stopper, running, startedId, posts, ranking, exiting, stopped, setup>>
  BY DEF ReleaseGuard
<1>2. starters = {w} /\ starters' = {}
  BY <1>1 DEF IInv, SoleStarter
<1>3. core \in CoreType /\ (w.guard = "no" => core.filter = FALSE)
  BY <1>2 DEF IInv, TypeInv, CoreType, FilterIsOwned
<1>4. core' \in CoreType /\ core'.filter = FALSE
  <2>1. CASE w.guard = "no"
    BY <1>1, <1>3, <2>1
  <2>2. CASE core' = [core EXCEPT !.filter = FALSE]
    BY <1>3, <2>2 DEF CoreType
  <2> QED BY <1>1, <2>1, <2>2
<1>5. TypeInv'
  BY <1>1, <1>2, <1>4 DEF IInv, TypeInv
<1> QED BY <1>2, <1>4, <1>5 DEF IInv, SoleStarter, HeldInv, FilterIsOwned, SwitchIsCovered

-----------------------------------------------------------------------------
(* The requests, the stop worker and the posted closures. *)

\* A start that is asked.
LEMMA StartAskedKeeps == ASSUME IInv, NEW p \in setup.profiles, StartAsked(p) PROVE IInv'
<1> DEFINE s == [m EXCEPT !.issued = @ + 1]
           r == [serial |-> m.issued + 1, id |-> p]
<1>1. /\ m.issued < MaxRequests /\ Start(s, r, FALSE) /\ stopped' = FALSE
      /\ UNCHANGED <<core, cores, stopper, running, startedId, posts, exiting, setup>>
  BY DEF StartAsked
<1>2. m \in MainType /\ m.issued \in 0 .. MaxRequests /\ MaxRequests \in Nat /\ p \in ProfileOrNone
  BY BoundAssumption DEF IInv, TypeInv, MainType, Setup, ProfileOrNone
<1>3. m.issued + 1 \in 0 .. MaxRequests
  BY <1>1, <1>2
<1>4. s \in MainType
  BY <1>2, <1>3 DEF MainType
<1>5. r \in StartRequest
  BY <1>2, <1>3 DEF StartRequest
<1> HIDE DEF s, r
<1>6. m' \in MainType /\ ranking' \subseteq StartRequest /\ Launches
  BY <1>1, <1>4, <1>5, StartOk
<1>7. starters' \subseteq StarterType
  BY <1>6, NewStarterOk DEF Launches, IInv, TypeInv
<1>8. TypeInv'
  BY <1>1, <1>6, <1>7 DEF IInv, TypeInv
<1> QED BY <1>1, <1>6, <1>8, MainKeeps

\* start() again, by the engine itself.
LEMMA StartsKeeps ==
  ASSUME IInv, NEW s \in MainType, NEW r \in StartRequest, NEW b \in BOOLEAN, Start(s, r, b), setup' \in Setup,
         UNCHANGED <<core, cores, stopper, running, startedId, posts, exiting, stopped>>
  PROVE  IInv'
<1>1. m' \in MainType /\ ranking' \subseteq StartRequest /\ Launches
  BY StartOk
<1>2. starters' \subseteq StarterType
  BY <1>1, NewStarterOk DEF Launches, IInv, TypeInv
<1>3. TypeInv'
  BY <1>1, <1>2 DEF IInv, TypeInv
<1> QED BY <1>1, <1>3, MainKeeps

\* The sweep hands a request back.
LEMMA StartRankedKeeps == ASSUME IInv, StartRanked PROVE IInv'
<1>1. PICK r \in ranking : Start(m, r, TRUE)
  BY DEF StartRanked
<1>2. r \in StartRequest /\ m \in MainType /\ setup \in Setup
  BY DEF IInv, TypeInv
<1>3. UNCHANGED <<core, cores, stopper, running, startedId, posts, exiting, stopped, setup>>
  BY DEF StartRanked
<1> QED BY <1>1, <1>2, <1>3, StartsKeeps

\* Whatever leaves the workers and the core alone.
LEMMA AsideKeeps == ASSUME IInv, TypeInv', UNCHANGED <<core, starters>> PROVE IInv'
  BY MainKeeps DEF Launches

\* The start that failed for missing geo assets.
LEMMA RetryKeeps == ASSUME IInv, RetryAfterGeoFetch PROVE IInv'
<1> DEFINE s == [m EXCEPT !.geoRetried = m.geo, !.geo = None]
<1>1. UNCHANGED <<core, cores, stopper, running, startedId, posts, exiting, stopped, setup>>
  BY DEF RetryAfterGeoFetch
<1>2. m \in MainType /\ m.geo \in ProfileOrNone /\ setup \in Setup
  BY DEF IInv, TypeInv, MainType
<1>3. s \in MainType /\ Own(m.geo) \in StartRequest
  BY <1>2, OwnOk DEF MainType
<1>4. (m' = s /\ UNCHANGED <<starters, ranking>>) \/ Start(s, Own(m.geo), FALSE)
  BY DEF RetryAfterGeoFetch
<1> HIDE DEF s
<1>5. CASE m' = s /\ UNCHANGED <<starters, ranking>>
  <2>1. TypeInv'
    BY <1>1, <1>3, <1>5 DEF IInv, TypeInv
  <2> QED BY <1>1, <1>5, <2>1, AsideKeeps
<1>6. CASE Start(s, Own(m.geo), FALSE)
  BY <1>1, <1>2, <1>3, <1>6, StartsKeeps
<1> QED BY <1>4, <1>5, <1>6

\* A stop that is asked.
LEMMA StopAskedKeeps == ASSUME IInv, NEW manual \in BOOLEAN, StopAsked(manual) PROVE IInv'
<1> DEFINE s == IF manual THEN [m EXCEPT !.geo = None] ELSE m
<1>1. /\ setup.stops > 0 /\ setup' = [setup EXCEPT !.stops = @ - 1]
      /\ stopped' = (manual /\ running = None /\ ~Asked)
      /\ UNCHANGED <<core, cores, starters, running, posts, ranking, exiting>>
  BY DEF StopAsked
<1>2. m \in MainType /\ None \in ProfileOrNone /\ setup \in Setup /\ startedId \in ProfileOrNone /\ stopper \in StopperType
  BY OwnOk DEF IInv, TypeInv
<1>3. s \in MainType
  <2>1. [m EXCEPT !.geo = None] \in MainType
    BY <1>2 DEF MainType
  <2> QED BY <1>2, <2>1
<1> HIDE DEF s
<1>4. setup' \in Setup
  BY <1>1, <1>2 DEF Setup
<1>5. CancelResume(s) \in MainType /\ [s EXCEPT !.disconnecting = TRUE] \in MainType
  BY <1>2, <1>3 DEF CancelResume, MainType
<1>6. SyncState([s EXCEPT !.disconnecting = TRUE]) \in MainType
  BY <1>5, SyncStateOk
<1>7. \/ m' \in {CancelResume(s), s} /\ startedId' \in {None, startedId} /\ stopper' = stopper
      \/ m' = SyncState([s EXCEPT !.disconnecting = TRUE]) /\ BeginStop(FALSE, manual) /\ startedId' = startedId
  BY DEF StopAsked, s
<1>8. m' \in MainType /\ startedId' \in ProfileOrNone /\ stopper' \in StopperType
  BY <1>2, <1>3, <1>5, <1>6, <1>7, BeginStopOk
<1>9. TypeInv'
  BY <1>1, <1>4, <1>8 DEF IInv, TypeInv
<1> QED BY <1>1, <1>9, AsideKeeps

\* The Stop RPC.
LEMMA StopRpcKeeps == ASSUME IInv, StopRpc PROVE IInv'
<1>1. /\ stopper' = [stopper EXCEPT !.pc = "clear"]
      /\ core' = core \/ core' = [core EXCEPT !.loaded = None]
      /\ UNCHANGED <<m, cores, starters, running, startedId, posts, ranking, exiting, stopped, setup>>
  BY DEF StopRpc
<1>2. stopper' \in StopperType
  BY <1>1 DEF IInv, TypeInv, StopperType
<1>3. core' \in CoreType /\ core'.filter = core.filter
  BY <1>1, OwnOk DEF IInv, TypeInv, CoreType
<1>4. TypeInv'
  BY <1>1, <1>2, <1>3 DEF IInv, TypeInv
<1> QED BY <1>1, <1>3, <1>4, MainKeeps DEF Launches

\* The stop worker clears what runs.
LEMMA StopClearsKeeps == ASSUME IInv, StopClears PROVE IInv'
<1>1. /\ stopper' = [stopper EXCEPT !.pc = "posted"]
      /\ startedId' \in {None, startedId} /\ running' = None
      /\ posts' = posts \o Post("teardown", NoRequest, FALSE)
      /\ UNCHANGED <<m, core, cores, starters, ranking, exiting, stopped, setup>>
  BY DEF StopClears
<1>2. stopper' \in StopperType
  BY <1>1 DEF IInv, TypeInv, StopperType
<1>3. posts \in Seq(PostType) /\ NoRequest \in StartRequest /\ None \in ProfileOrNone
  BY OwnOk DEF IInv, TypeInv
<1>4. posts' \in Seq(PostType)
  BY <1>1, <1>3, PostOk
<1>5. TypeInv'
  BY <1>1, <1>2, <1>3, <1>4 DEF IInv, TypeInv
<1> QED BY <1>1, <1>5, AsideKeeps

\* The stop ends on the main thread.
LEMMA StopTornDownKeeps == ASSUME IInv, StopTornDown PROVE IInv'
<1>1. /\ stopper' = NoStop /\ m' = TornDown(m) /\ cores' \in {"report", cores}
      /\ UNCHANGED <<core, starters, running, startedId, posts, ranking, exiting, stopped, setup>>
  BY DEF StopTornDown
<1>2. [m EXCEPT !.disconnecting = FALSE] \in MainType
  BY DEF IInv, TypeInv, MainType
<1>3. m' \in MainType
  BY <1>1, <1>2, SyncStateOk DEF TornDown
<1>4. TypeInv'
  BY <1>1, <1>3, OwnOk DEF IInv, TypeInv, CoresType
<1> QED BY <1>1, <1>4, AsideKeeps

\* A posted closure.
LEMMA HandlePostKeeps == ASSUME IInv, HandlePost PROVE IInv'
<1> DEFINE p == Head(posts)
<1>1. posts # << >> /\ posts' = Tail(posts) /\ UNCHANGED <<core, cores, starters, running, ranking, exiting, stopped, setup>>
  BY DEF HandlePost
<1>2. p \in PostType /\ posts' \in Seq(PostType)
  BY <1>1, HeadTailProperties DEF IInv, TypeInv
<1>3. m \in MainType /\ None \in ProfileOrNone /\ p.req \in StartRequest
  BY <1>2, OwnOk DEF IInv, TypeInv, PostType
<1> HIDE DEF p
<1> DEFINE a == [m EXCEPT !.geoRetried = None]
           b == [m EXCEPT !.connecting = FALSE]
           c == [m EXCEPT !.disconnecting = TRUE]
<1>4. a \in MainType /\ b \in MainType /\ c \in MainType /\ CancelResume(m) \in MainType
  BY <1>3 DEF CancelResume, MainType
<1> HIDE DEF a, b, c
<1>5. /\ Finish(a, p.req) \in MainType /\ Finish(m, p.req) \in MainType
      /\ SyncState(b) \in MainType /\ SyncState(c) \in MainType
  BY <1>3, <1>4, FinishOk, SyncStateOk
<1>6. m' \in {Finish(a, p.req), Finish(m, p.req), SyncState(b), SyncState(c), CancelResume(m), m}
  <2>1. p.op \in {"finish", "connected", "disconnecting", "cancel", "teardown"}
    BY <1>2 DEF PostType
  <2> QED BY <2>1 DEF HandlePost, p, a, b, c
<1>7. stopper' \in {[stopper EXCEPT !.pc = "ui"], stopper} /\ startedId' \in {None, startedId}
  BY DEF HandlePost, p
<1>8. stopper' \in StopperType /\ startedId' \in ProfileOrNone
  BY <1>3, <1>7 DEF IInv, TypeInv, StopperType
<1>9. m' \in MainType
  BY <1>3, <1>4, <1>5, <1>6
<1>10. TypeInv'
  BY <1>1, <1>2, <1>8, <1>9 DEF IInv, TypeInv
<1> QED BY <1>1, <1>10, AsideKeeps

-----------------------------------------------------------------------------
(* The supervisor, the kill switch and the exit. *)

\* The supervisor starts, with a boot request or without.
LEMMA SupervisorStartsKeeps == ASSUME IInv, SupervisorStarts PROVE IInv'
<1>1. UNCHANGED <<core, cores, starters, stopper, running, startedId, posts, ranking, exiting, stopped, setup>>
  BY DEF SupervisorStarts
<1>2. m \in MainType /\ m.issued \in 0 .. MaxRequests /\ MaxRequests \in Nat /\ setup.profiles \subseteq ProfileOrNone
  BY BoundAssumption DEF IInv, TypeInv, MainType, Setup, ProfileOrNone
<1>3. CASE m' = [m EXCEPT !.st = "listenFailed"]
  <2>1. m' \in MainType
    BY <1>2, <1>3 DEF MainType
  <2>2. TypeInv'
    BY <1>1, <2>1 DEF IInv, TypeInv
  <2> QED BY <1>1, <2>2, AsideKeeps
<1>4. ASSUME NEW p \in ProfileOrNone, m' = [m EXCEPT !.st = "starting", !.startWhenUp = p] PROVE IInv'
  <2>1. m' \in MainType
    BY <1>2, <1>4 DEF MainType
  <2>2. TypeInv'
    BY <1>1, <2>1 DEF IInv, TypeInv
  <2> QED BY <1>1, <2>2, AsideKeeps
<1>5. ASSUME NEW p \in setup.profiles, m.issued < MaxRequests,
             m' = [DeferStartToCore(m, [serial |-> m.issued + 1, id |-> p])
                   EXCEPT !.issued = @ + 1, !.boot = m.issued + 1, !.st = "starting", !.startWhenUp = p]
      PROVE  IInv'
  <2> DEFINE r == [serial |-> m.issued + 1, id |-> p]
             d == DeferStartToCore(m, r)
  <2>1. p \in ProfileOrNone /\ m.issued + 1 \in 0 .. MaxRequests
    BY <1>2, <1>5
  <2>2. r \in StartRequest
    BY <2>1 DEF StartRequest
  <2> HIDE DEF r
  <2>3. d \in MainType
    BY <1>2, <2>2, DeferOk
  <2>4. d.issued = m.issued
    <3>1. m.coreReq \in StartRequest
      BY <1>2 DEF MainType
    <3> DEFINE f == Finish(m, m.coreReq)
    <3>2. f \in MainType /\ f.issued = m.issued
      <4>1. f \in MainType
        BY <1>2, <3>1, FinishOk
      <4>2. f.issued = m.issued
        BY <1>2 DEF Finish, MainType
      <4> QED BY <4>1, <4>2
    <3> HIDE DEF f
    <3>3. [f EXCEPT !.coreReq = r].issued = f.issued
      BY <3>2 DEF MainType
    <3> QED BY <3>2, <3>3 DEF DeferStartToCore, f
  <2>5. m' = [d EXCEPT !.issued = @ + 1, !.boot = m.issued + 1, !.st = "starting", !.startWhenUp = p]
    BY <1>5 DEF r
  <2> HIDE DEF d
  <2>6. m' \in MainType
    BY <2>1, <2>3, <2>4, <2>5 DEF MainType
  <2>7. TypeInv'
    BY <1>1, <2>6 DEF IInv, TypeInv
  <2> QED BY <1>1, <2>7, AsideKeeps
<1> QED BY <1>3, <1>4, <1>5 DEF SupervisorStarts

\* A core is accepted, is given up, or the window of its restart is over.
LEMMA SupervisorKeeps == ASSUME IInv, CoreAccepted \/ onCoreGaveUp \/ GuardWindowExpires PROVE IInv'
<1>1. UNCHANGED <<core, cores, starters, stopper, running, posts, ranking, exiting, stopped, setup>>
  BY DEF CoreAccepted, onCoreGaveUp, GuardWindowExpires
<1>2. startedId' \in {None, startedId}
  BY DEF CoreAccepted, onCoreGaveUp, GuardWindowExpires
<1>3. m \in MainType /\ None \in ProfileOrNone
  BY OwnOk DEF IInv, TypeInv
<1>4. m' \in {[m EXCEPT !.st = "probing"], [m EXCEPT !.guard = FALSE], GivenUp(m)}
  BY DEF CoreAccepted, onCoreGaveUp, GuardWindowExpires
<1>5. [m EXCEPT !.st = "probing"] \in MainType /\ [m EXCEPT !.guard = FALSE] \in MainType
  BY <1>3 DEF MainType
<1>6. m' \in MainType
  BY <1>3, <1>4, <1>5, GivenUpOk
<1>7. TypeInv'
  BY <1>1, <1>2, <1>3, <1>6 DEF IInv, TypeInv
<1> QED BY <1>1, <1>7, AsideKeeps

\* A core that came up takes the start that waited for it.
LEMMA CoreStartedKeeps == ASSUME IInv, onCoreStarted PROVE IInv'
<1> DEFINE id == m.startWhenUp
           next == IF m.coreReq.id = id THEN m.coreReq ELSE Own(id)
           a(k) == [m EXCEPT !.st = "up", !.guard = FALSE, !.startWhenUp = None, !.boot = 0, !.ks = k]
<1>1. UNCHANGED <<core, cores, stopper, running, startedId, posts, exiting, stopped, setup>>
  BY DEF onCoreStarted
<1>2. m \in MainType /\ id \in ProfileOrNone /\ m.coreReq \in StartRequest /\ None \in ProfileOrNone
      /\ 0 \in 0 .. MaxRequests /\ setup \in Setup /\ m.ks \in {"Disabled", "Arming", "Armed", "Failed"}
  BY OwnOk, BoundAssumption DEF IInv, TypeInv, MainType
<1>3. next \in StartRequest
  BY <1>2, OwnOk
<1>4. PICK k \in {m.ks} \union (IF m.ks = "Failed" THEN {"Arming"} ELSE {}) :
        LET s == Adopted(a(k)) IN
        IF id = None THEN m' = s /\ UNCHANGED <<starters, ranking>>
        ELSE \/ /\ next.serial # 0 /\ next.serial = m.boot
                /\ m' = Finish(s, next) /\ UNCHANGED <<starters, ranking>>
             \/ Start(s, next, FALSE)
  BY DEF onCoreStarted
<1>5. k \in {"Disabled", "Arming", "Armed", "Failed"}
  BY <1>2
<1>6. a(k) \in MainType
  BY <1>2, <1>5 DEF MainType
<1> DEFINE s == Adopted(a(k))
<1>7. (m' \in {s, Finish(s, next)} /\ UNCHANGED <<starters, ranking>>) \/ Start(s, next, FALSE)
  BY <1>4
<1> HIDE DEF a
<1>8. s \in MainType
  BY <1>6, AdoptedOk
<1> HIDE DEF s, next, id
<1>9. CASE m' \in {s, Finish(s, next)} /\ UNCHANGED <<starters, ranking>>
  <2>1. m' \in MainType
    BY <1>3, <1>8, <1>9, FinishOk
  <2>2. TypeInv'
    BY <1>1, <1>9, <2>1 DEF IInv, TypeInv
  <2> QED BY <1>1, <1>9, <2>2, AsideKeeps
<1>10. CASE Start(s, next, FALSE)
  BY <1>1, <1>2, <1>3, <1>8, <1>10, StartsKeeps
<1> QED BY <1>7, <1>9, <1>10

\* With the core its filter is gone, and no worker holds it.
LEMMA LostKeeps ==
  ASSUME IInv, core' = NoCore, starters' = Lost(starters),
         starters' \subseteq StarterType /\ core' \in CoreType => TypeInv'
  PROVE  IInv'
<1> DEFINE f(w) == [w EXCEPT !.guard = IF @ = "held" THEN "asked" ELSE @, !.late = TRUE]
<1>1. starters' = {f(w) : w \in starters}
  BY DEF Lost
<1>2. \A w \in starters : f(w) \in StarterType /\ f(w).guard # "held"
  <2> SUFFICES ASSUME NEW w \in starters PROVE f(w) \in StarterType /\ f(w).guard # "held"
    OBVIOUS
  <2>1. w \in StarterType
    BY DEF IInv, TypeInv
  <2>2. CASE w.guard = "held"
    <3>1. f(w) = [w EXCEPT !.guard = "asked", !.late = TRUE]
      BY <2>1, <2>2 DEF StarterType
    <3> QED BY <2>1, <3>1 DEF StarterType
  <2>3. CASE w.guard # "held"
    <3>1. f(w) = [w EXCEPT !.late = TRUE]
      BY <2>1, <2>3 DEF StarterType
    <3> QED BY <2>1, <2>3, <3>1 DEF StarterType
  <2> QED BY <2>2, <2>3
<1> HIDE DEF f
<1>3. starters' \subseteq StarterType /\ \A v \in starters' : v.guard # "held"
  BY <1>1, <1>2
<1>4. SoleStarter'
  BY <1>1 DEF IInv, SoleStarter
<1>5. core' \in CoreType /\ core'.filter = FALSE
  BY OwnOk
<1> QED BY <1>3, <1>4, <1>5 DEF IInv, HeldInv, FilterIsOwned, SwitchIsCovered

\* The core dies.
LEMMA CoreDiesKeeps == ASSUME IInv, CoreDies PROVE IInv'
<1>1. /\ setup.deaths > 0 /\ setup' = [setup EXCEPT !.deaths = @ - 1]
      /\ m' = [m EXCEPT !.st = "dead"] /\ core' = NoCore /\ starters' = Lost(starters)
      /\ cores' \in {"report", "died"}
      /\ UNCHANGED <<stopper, running, startedId, posts, ranking, exiting, stopped>>
  BY DEF CoreDies
<1>2. setup' \in Setup
  BY <1>1 DEF IInv, TypeInv, Setup
<1>3. m' \in MainType
  BY <1>1 DEF IInv, TypeInv, MainType
<1>4. starters' \subseteq StarterType /\ core' \in CoreType => TypeInv'
  BY <1>1, <1>2, <1>3 DEF IInv, TypeInv, CoresType
<1> QED BY <1>1, <1>4, LostKeeps

\* A crash stop on DS_cores.
LEMMA CrashStopOk ==
  ASSUME IInv, NEW x \in CoresType, NEW y \in CoresType, CrashStop(x, y)
  PROVE  cores' \in CoresType /\ stopper' \in StopperType /\ posts' \in Seq(PostType)
<1>1. posts \in Seq(PostType) /\ stopper \in StopperType /\ NoRequest \in StartRequest
  BY OwnOk DEF IInv, TypeInv
<1>2. posts \o Post("disconnecting", NoRequest, FALSE) \in Seq(PostType)
  BY <1>1, PostOk
<1>3. \/ cores' = y /\ stopper' = stopper /\ posts' = posts
      \/ cores' = x /\ BeginStop(TRUE, FALSE) /\ posts' = posts \o Post("disconnecting", NoRequest, FALSE)
  BY DEF CrashStop
<1> QED BY <1>1, <1>2, <1>3, BeginStopOk

\* The clean-up after a dead core.
LEMMA CleanUpKeeps == ASSUME IInv, CleanUp PROVE IInv'
<1>1. /\ CrashStop("diedStop", "report")
      /\ UNCHANGED <<m, core, starters, running, startedId, ranking, exiting, stopped, setup>>
  BY DEF CleanUp
<1>2. "diedStop" \in CoresType /\ "report" \in CoresType
  BY DEF CoresType
<1>3. cores' \in CoresType /\ stopper' \in StopperType /\ posts' \in Seq(PostType)
  BY <1>1, <1>2, CrashStopOk
<1>4. TypeInv'
  BY <1>1, <1>3 DEF IInv, TypeInv
<1> QED BY <1>1, <1>4, AsideKeeps

\* The exit of the core is handled.
LEMMA CoreExitedKeeps == ASSUME IInv, CoreExited PROVE IInv'
<1> DEFINE i == m.ks # "Disabled"
           x == IF m.startWhenUp # None THEN m.startWhenUp ELSE startedId
<1>1. cores' = "idle" /\ UNCHANGED <<core, starters, stopper, running, posts, ranking, exiting, stopped, setup>>
  BY DEF CoreExited
<1>2. m \in MainType /\ None \in ProfileOrNone /\ startedId \in ProfileOrNone /\ i \in BOOLEAN
  BY OwnOk DEF IInv, TypeInv
<1>3. x \in ProfileOrNone
  BY <1>2 DEF MainType
<1>4. startedId' \in {None, startedId}
  BY DEF CoreExited
<1>5. m' \in {m, [m EXCEPT !.st = "starting", !.identity = i, !.startWhenUp = x],
              [m EXCEPT !.st = "starting", !.identity = i], GivenUp(m)}
  BY <1>2 DEF CoreExited, MainType
<1> HIDE DEF i, x
<1>6. /\ [m EXCEPT !.st = "starting", !.identity = i, !.startWhenUp = x] \in MainType
      /\ [m EXCEPT !.st = "starting", !.identity = i] \in MainType
  BY <1>2, <1>3 DEF MainType
<1>7. m' \in MainType
  BY <1>2, <1>5, <1>6, GivenUpOk
<1>8. TypeInv'
  BY <1>1, <1>2, <1>4, <1>7 DEF IInv, TypeInv, CoresType
<1> QED BY <1>1, <1>8, AsideKeeps

\* A core that replaces another.
LEMMA RespawnKeeps ==
  ASSUME IInv, Respawn, UNCHANGED <<stopper, running, startedId, posts, ranking, exiting, stopped, setup>>
  PROVE  IInv'
<1> DEFINE i == m.ks # "Disabled"
<1>1. /\ m' = [m EXCEPT !.st = "starting", !.identity = i, !.restart = "no"]
      /\ core' = NoCore /\ starters' = Lost(starters) /\ cores' = "idle"
  BY DEF Respawn
<1>2. i \in BOOLEAN /\ m \in MainType
  BY DEF IInv, TypeInv
<1> HIDE DEF i
<1>3. m' \in MainType
  BY <1>1, <1>2 DEF MainType
<1>4. starters' \subseteq StarterType /\ core' \in CoreType => TypeInv'
  BY <1>1, <1>3 DEF IInv, TypeInv, CoresType
<1> QED BY <1>1, <1>4, LostKeeps

\* A posted restart is taken.
LEMMA TakeRestartKeeps == ASSUME IInv, TakeRestart PROVE IInv'
<1>1. UNCHANGED <<running, startedId, ranking, exiting, stopped, setup>>
  BY DEF TakeRestart
<1>2. CASE CrashStop("restartStop", "idle") /\ UNCHANGED <<m, core, starters>>
  <2>1. "restartStop" \in CoresType /\ "idle" \in CoresType
    BY DEF CoresType
  <2>2. cores' \in CoresType /\ stopper' \in StopperType /\ posts' \in Seq(PostType)
    BY <1>2, <2>1, CrashStopOk
  <2>3. TypeInv'
    BY <1>1, <1>2, <2>2 DEF IInv, TypeInv
  <2> QED BY <1>2, <2>3, AsideKeeps
<1>3. CASE Respawn /\ UNCHANGED <<stopper, posts>>
  BY <1>1, <1>3, RespawnKeeps
<1> QED BY <1>2, <1>3 DEF TakeRestart

\* The restart goes on after its stop.
LEMMA RestartStoppedKeeps == ASSUME IInv, RestartStopped PROVE IInv'
<1>1. UNCHANGED <<stopper, running, startedId, posts, ranking, exiting, stopped, setup>>
  BY DEF RestartStopped
<1>2. CASE cores' = "idle" /\ UNCHANGED <<m, core, starters>>
  <2>1. TypeInv'
    BY <1>1, <1>2 DEF IInv, TypeInv, CoresType
  <2> QED BY <1>2, <2>1, AsideKeeps
<1>3. CASE Respawn
  BY <1>1, <1>3, RespawnKeeps
<1> QED BY <1>2, <1>3 DEF RestartStopped

\* The kill switch changes, and the start that it held back goes on.
LEMMA SwitchKeeps ==
  ASSUME IInv, NEW k \in {"Disabled", "Arming", "Armed", "Failed"}, KillSwitchChanges(k)
  PROVE  IInv'
<1> DEFINE s == [m EXCEPT !.ks = k]
           t == IF k = "Armed" THEN ArmedRestart(s) ELSE s
           u == [t EXCEPT !.killReq = NoRequest]
<1>1. UNCHANGED <<core, cores, stopper, running, startedId, posts, exiting, stopped>>
  BY DEF KillSwitchChanges
<1>2. setup' \in Setup
  <2>1. setup \in Setup
    BY DEF IInv, TypeInv
  <2>2. setup' = setup \/ (setup.switches > 0 /\ setup' = [setup EXCEPT !.switches = @ - 1])
    BY DEF KillSwitchChanges
  <2> QED BY <2>1, <2>2 DEF Setup
<1>3. s \in MainType /\ startedId \in ProfileOrNone /\ m.killReq \in StartRequest /\ NoRequest \in StartRequest
  BY OwnOk DEF IInv, TypeInv, MainType
<1>4. (m' = t /\ UNCHANGED <<starters, ranking>>) \/ Start(u, m.killReq, FALSE)
  BY DEF KillSwitchChanges
<1> HIDE DEF s
<1>5. t \in MainType
  BY <1>3, ArmedRestartOk
<1> HIDE DEF t
<1>6. u \in MainType
  BY <1>3, <1>5 DEF MainType
<1> HIDE DEF u
<1>7. CASE m' = t /\ UNCHANGED <<starters, ranking>>
  <2>1. TypeInv'
    BY <1>1, <1>2, <1>5, <1>7 DEF IInv, TypeInv
  <2> QED BY <1>1, <1>7, <2>1, AsideKeeps
<1>8. CASE Start(u, m.killReq, FALSE)
  BY <1>1, <1>2, <1>3, <1>6, <1>8, StartsKeeps
<1> QED BY <1>4, <1>7, <1>8

\* The exit begins.
LEMMA PrepareExitKeeps == ASSUME IInv, PrepareExit PROVE IInv'
<1> DEFINE c == [m EXCEPT !.disconnecting = TRUE]
<1>1. exiting' = TRUE /\ UNCHANGED <<core, cores, starters, running, startedId, posts, ranking, stopped, setup>>
  BY DEF PrepareExit
<1>2. c \in MainType /\ m \in MainType /\ stopper \in StopperType
  BY DEF IInv, TypeInv, MainType
<1>3. UNCHANGED <<m, stopper>> \/ (BeginStop(FALSE, FALSE) /\ m' = SyncState(c))
  BY DEF PrepareExit
<1> HIDE DEF c
<1>4. m' \in MainType /\ stopper' \in StopperType
  BY <1>2, <1>3, SyncStateOk, BeginStopOk
<1>5. TypeInv'
  BY <1>1, <1>4 DEF IInv, TypeInv
<1> QED BY <1>1, <1>5, AsideKeeps

-----------------------------------------------------------------------------
(* The invariant, and what follows from it. *)

\* The invariant holds when the program begins.
LEMMA InitIInv == Init => IInv
<1> SUFFICES ASSUME Init PROVE IInv
  OBVIOUS
<1>1. /\ None \in ProfileOrNone /\ NoRequest \in StartRequest /\ 0 \in 0 .. MaxRequests
      /\ core \in CoreType /\ core.filter = FALSE /\ stopper \in StopperType /\ setup \in Setup
  BY OwnOk, BoundAssumption DEF Init
<1>2. [r \in 1 .. MaxRequests |-> 0] \in [1 .. MaxRequests -> Nat]
  OBVIOUS
<1>3. m \in MainType
  BY <1>1, <1>2 DEF Init, MainType
<1>4. /\ cores = "idle" /\ starters = {} /\ running = None /\ startedId = None /\ posts = << >>
      /\ ranking = {} /\ exiting = FALSE /\ stopped = FALSE
  BY DEF Init
<1>5. << >> \in Seq(PostType)
  OBVIOUS
<1>6. TypeInv
  BY <1>1, <1>3, <1>4, <1>5 DEF TypeInv, CoresType
<1> QED BY <1>1, <1>4, <1>6 DEF IInv, SoleStarter, HeldInv, FilterIsOwned, SwitchIsCovered

\* Every step keeps it.
LEMMA NextIInv == IInv /\ [Next]_vars => IInv'
<1> SUFFICES ASSUME IInv, [Next]_vars PROVE IInv'
  OBVIOUS
<1>1. CASE UNCHANGED vars
  BY <1>1 DEF vars, IInv, TypeInv, SoleStarter, HeldInv, FilterIsOwned, SwitchIsCovered
<1>2. ASSUME NEW p \in setup.profiles, StartAsked(p) PROVE IInv'
  BY <1>2, StartAskedKeeps
<1>3. CASE StartRanked
  BY <1>3, StartRankedKeeps
<1>4. CASE RetryAfterGeoFetch
  BY <1>4, RetryKeeps
<1>5. CASE StarterSteps
  <2>1. PICK w \in starters :
          \/ StarterBegins(w) \/ InstallGuard(w) \/ StarterLooks(w) \/ StarterStops(w) \/ StarterWaits(w)
          \/ StartAnswered(w) \/ StartTimesOut(w) \/ CommitOtp(w) \/ StarterRecords(w) \/ ReleaseGuard(w)
    BY <1>5 DEF StarterSteps
  <2> QED BY <2>1, BeginsKeeps, InstallKeeps, LooksKeeps, StopsKeeps, AnsweredKeeps, TimesOutKeeps, OtpKeeps,
          RecordsKeeps, ReleaseKeeps
<1>6. ASSUME NEW manual \in BOOLEAN, StopAsked(manual) PROVE IInv'
  BY <1>6, StopAskedKeeps
<1>7. CASE StopRpc
  BY <1>7, StopRpcKeeps
<1>8. CASE StopClears
  BY <1>8, StopClearsKeeps
<1>9. CASE StopTornDown
  BY <1>9, StopTornDownKeeps
<1>10. CASE HandlePost
  BY <1>10, HandlePostKeeps
<1>11. CASE SupervisorStarts
  BY <1>11, SupervisorStartsKeeps
<1>12. CASE CoreAccepted \/ onCoreGaveUp \/ GuardWindowExpires
  BY <1>12, SupervisorKeeps
<1>13. CASE onCoreStarted
  BY <1>13, CoreStartedKeeps
<1>14. CASE CoreDies
  BY <1>14, CoreDiesKeeps
<1>15. CASE CleanUp
  BY <1>15, CleanUpKeeps
<1>16. CASE CoreExited
  BY <1>16, CoreExitedKeeps
<1>17. CASE TakeRestart
  BY <1>17, TakeRestartKeeps
<1>18. CASE RestartStopped
  BY <1>18, RestartStoppedKeeps
<1>19. ASSUME NEW k \in {"Disabled", "Arming", "Armed", "Failed"}, KillSwitchChanges(k) PROVE IInv'
  BY <1>19, SwitchKeeps
<1>20. CASE PrepareExit
  BY <1>20, PrepareExitKeeps
<1>21. CASE Rests
  BY <1>1, <1>21 DEF Rests
<1>22. CASE OwedStartRuns
  BY <1>22, OwedKeeps
<1> QED
  BY <1>1, <1>2, <1>3, <1>4, <1>5, <1>6, <1>7, <1>8, <1>9, <1>10, <1>11, <1>12, <1>13, <1>14, <1>15,
     <1>16, <1>17, <1>18, <1>19, <1>20, <1>21, <1>22 DEF Next

\* The filter of a switch is there from InstallGuard to the end of the start that asked for it, and
\* no longer, whatever other starts, stops, restarts and deaths of the core come between.
THEOREM SwitchesAreCovered == Spec => []FilterCoversTheSwitch
<1>1. Init => IInv
  BY InitIInv
<1>2. IInv /\ [Next]_vars => IInv'
  BY NextIInv
<1>3. IInv => FilterCoversTheSwitch
  BY DEF IInv, FilterCoversTheSwitch
<1> QED BY <1>1, <1>2, <1>3, PTL DEF Spec

-----------------------------------------------------------------------------
(* What the operators return, field by field. *)

\* The fields that say what is shown, and those the supervisor and the kill switch keep.
SameShow(s, t) == t.connecting = s.connecting /\ t.disconnecting = s.disconnecting /\ t.shown = s.shown
SameCore(s, t) == t.st = s.st /\ t.ks = s.ks /\ t.identity = s.identity
\* The fields that say who waits for an answer.
SameReq(s, t) ==
  t.issued = s.issued /\ t.answers = s.answers /\ t.coreReq = s.coreReq /\ t.killReq = s.killReq
\* The fields that say which profile waits for what.
SameWait(s, t) ==
  t.guard = s.guard /\ t.restart = s.restart /\ t.startWhenUp = s.startWhenUp /\ t.geo = s.geo

\* An answer.
FinishSays(s, t, r) ==
  /\ t \in MainType /\ SameShow(s, t) /\ SameCore(s, t) /\ SameWait(s, t)
  /\ t.issued = s.issued /\ t.coreReq = s.coreReq /\ t.killReq = s.killReq
  /\ t.answers = IF r.serial = 0 THEN s.answers
                 ELSE [s.answers EXCEPT ![r.serial] = s.answers[r.serial] + 1]
LEMMA FinishIs ==
  ASSUME NEW s \in MainType, NEW r \in StartRequest
  PROVE  FinishSays(s, Finish(s, r), r)
<1> SUFFICES ASSUME NEW t, t = Finish(s, r) PROVE FinishSays(s, t, r)
  OBVIOUS
<1>1. t \in MainType
  BY FinishOk
<1>2. CASE r.serial = 0
  <2>1. t = s
    BY <1>2 DEF Finish
  <2> QED BY <1>1, <1>2, <2>1 DEF SameShow, SameCore, SameWait, FinishSays
<1>3. CASE r.serial # 0
  <2> DEFINE a == [s.answers EXCEPT ![r.serial] = s.answers[r.serial] + 1]
  <2>1. t = [s EXCEPT !.answers = a]
    BY <1>3 DEF Finish, MainType
  <2> HIDE DEF a
  <2>2. SameShow(s, t) /\ SameCore(s, t)
    BY <2>1 DEF SameShow, SameCore, MainType
  <2>3. SameWait(s, t)
    BY <2>1 DEF SameWait, MainType
  <2>4. t.issued = s.issued /\ t.coreReq = s.coreReq /\ t.killReq = s.killReq /\ t.answers = a
    BY <2>1 DEF MainType
  <2> QED BY <1>1, <1>3, <2>2, <2>3, <2>4 DEF a, FinishSays
<1> QED BY <1>2, <1>3 DEF FinishSays

\* The request that waited for the core is answered, and the new one waits.
DeferSays(s, t, r) ==
  /\ t \in MainType /\ SameShow(s, t) /\ SameCore(s, t) /\ SameWait(s, t)
  /\ t.issued = s.issued /\ t.coreReq = r /\ t.killReq = s.killReq
  /\ t.answers = Finish(s, s.coreReq).answers
LEMMA DeferIs ==
  ASSUME NEW s \in MainType, NEW r \in StartRequest
  PROVE  DeferSays(s, DeferStartToCore(s, r), r)
<1> SUFFICES ASSUME NEW t, t = DeferStartToCore(s, r) PROVE DeferSays(s, t, r)
  OBVIOUS
<1> DEFINE f == Finish(s, s.coreReq)
<1>1. s.coreReq \in StartRequest /\ f = Finish(s, s.coreReq)
  BY DEF MainType
<1> HIDE DEF f
<1>2. /\ f \in MainType /\ SameShow(s, f) /\ SameCore(s, f) /\ SameWait(s, f)
      /\ f.issued = s.issued /\ f.killReq = s.killReq
  BY <1>1, FinishIs DEF FinishSays
<1> USE DEF f
<1>3. t \in MainType /\ t = [f EXCEPT !.coreReq = r]
  BY DeferOk DEF DeferStartToCore
<1> HIDE DEF f
<1>4. SameShow(s, t) /\ SameCore(s, t)
  BY <1>2, <1>3 DEF SameShow, SameCore, MainType
<1>5. SameWait(s, t)
  BY <1>2, <1>3 DEF SameWait, MainType
<1>6. t.issued = s.issued /\ t.coreReq = r /\ t.killReq = s.killReq /\ t.answers = f.answers
  BY <1>2, <1>3 DEF MainType
<1> QED BY <1>3, <1>4, <1>5, <1>6 DEF f, DeferSays

\* A request that is deferred: it waits for the core, in place of the one that did.
Deferred(s, t, r) ==
  /\ t \in MainType /\ SameShow(s, t) /\ SameCore(s, t) /\ t.geo = s.geo
  /\ t.issued = s.issued /\ t.coreReq = r /\ t.killReq = s.killReq /\ t.answers = Finish(s, s.coreReq).answers
  /\ t.startWhenUp = r.id

\* The restart for the guard.
RestartSays(s, t, r) ==
  \/ ~HaveCore(s) /\ t = Finish(s, r)
  \/ /\ HaveCore(s) /\ Deferred(s, t, r) /\ t.guard = TRUE
     /\ t.restart = IF s.guard THEN s.restart ELSE "guard"
LEMMA GuardRestartIs ==
  ASSUME NEW s \in MainType, NEW r \in StartRequest
  PROVE  RestartSays(s, RestartCoreForGuard(s, r), r)
<1> SUFFICES ASSUME NEW t, t = RestartCoreForGuard(s, r) PROVE RestartSays(s, t, r)
  OBVIOUS
<1>1. CASE ~HaveCore(s)
  BY <1>1 DEF RestartCoreForGuard, RestartSays
<1>2. CASE HaveCore(s)
  <2> DEFINE d == DeferStartToCore(s, r)
             x == IF s.guard THEN d.restart ELSE "guard"
  <2>1. /\ d \in MainType /\ SameShow(s, d) /\ SameCore(s, d) /\ SameWait(s, d)
        /\ d.issued = s.issued /\ d.coreReq = r /\ d.killReq = s.killReq
        /\ d.answers = Finish(s, s.coreReq).answers
    BY DeferIs DEF DeferSays
  <2>2. t \in MainType /\ t = [d EXCEPT !.startWhenUp = r.id, !.guard = TRUE, !.restart = x]
    BY <1>2, GuardRestartOk DEF RestartCoreForGuard
  <2> HIDE DEF d
  <2>3. x = IF s.guard THEN s.restart ELSE "guard"
    BY <2>1 DEF SameWait
  <2> HIDE DEF x
  <2>4. SameShow(d, t) /\ SameCore(d, t) /\ t.geo = d.geo
    BY <2>1, <2>2 DEF SameShow, SameCore, MainType
  <2>5. t.issued = d.issued /\ t.coreReq = d.coreReq /\ t.killReq = d.killReq /\ t.answers = d.answers
    BY <2>1, <2>2 DEF MainType
  <2>6. t.startWhenUp = r.id /\ t.guard = TRUE /\ t.restart = x
    BY <2>1, <2>2 DEF MainType
  <2> QED BY <1>2, <2>1, <2>2, <2>3, <2>4, <2>5, <2>6 DEF Deferred, SameShow, SameCore, SameWait, RestartSays
<1> QED BY <1>1, <1>2 DEF RestartSays

\* The state that is shown.
SyncSays(s, t) ==
  /\ t \in MainType /\ SameReq(s, t) /\ SameCore(s, t) /\ SameWait(s, t)
  /\ t.connecting = s.connecting /\ t.disconnecting = s.disconnecting
  /\ t.shown = ConnectionState(s)
LEMMA SyncIs ==
  ASSUME NEW s \in MainType
  PROVE  SyncSays(s, SyncState(s))
<1> SUFFICES ASSUME NEW t, t = SyncState(s) PROVE SyncSays(s, t)
  OBVIOUS
<1> DEFINE c == ConnectionState(s)
<1>1. t \in MainType /\ t = [s EXCEPT !.shown = c]
  BY SyncStateOk DEF SyncState
<1> HIDE DEF c
<1>2. SameReq(s, t) /\ SameCore(s, t)
  BY <1>1 DEF SameReq, SameCore, MainType
<1>3. SameWait(s, t)
  BY <1>1 DEF SameWait, MainType
<1>4. t.connecting = s.connecting /\ t.disconnecting = s.disconnecting /\ t.shown = c
  BY <1>1 DEF MainType
<1> QED BY <1>1, <1>2, <1>3, <1>4 DEF c, SyncSays

\* The core is given up, and with it the request that waited for it.
GivenUpSays(s, t) ==
  /\ t \in MainType /\ SameShow(s, t) /\ t.ks = s.ks /\ t.identity = s.identity /\ t.st = "gaveUp"
  /\ t.issued = s.issued /\ t.killReq = s.killReq /\ t.coreReq = NoRequest
  /\ t.answers = Finish(s, s.coreReq).answers /\ t.geo = s.geo /\ t.restart = s.restart
  /\ t.guard = FALSE /\ t.startWhenUp = None
LEMMA GivenUpIs ==
  ASSUME NEW s \in MainType
  PROVE  GivenUpSays(s, GivenUp(s))
<1> SUFFICES ASSUME NEW t, t = GivenUp(s) PROVE GivenUpSays(s, t)
  OBVIOUS
<1> DEFINE f == Finish(s, s.coreReq)
<1>1. s.coreReq \in StartRequest /\ f = Finish(s, s.coreReq)
  BY DEF MainType
<1> HIDE DEF f
<1>2. /\ f \in MainType /\ SameShow(s, f) /\ SameCore(s, f) /\ SameWait(s, f)
      /\ f.issued = s.issued /\ f.killReq = s.killReq
  BY <1>1, FinishIs DEF FinishSays
<1> USE DEF f
<1>3. /\ t \in MainType
      /\ t = [f EXCEPT !.coreReq = NoRequest, !.guard = FALSE, !.st = "gaveUp", !.startWhenUp = None]
  BY GivenUpOk DEF GivenUp
<1> HIDE DEF f
<1>4. SameShow(f, t) /\ t.ks = f.ks /\ t.identity = f.identity /\ t.st = "gaveUp"
  BY <1>2, <1>3 DEF SameShow, MainType
<1>5. t.issued = f.issued /\ t.killReq = f.killReq /\ t.coreReq = NoRequest /\ t.answers = f.answers
  BY <1>2, <1>3 DEF MainType
<1>6. t.geo = f.geo /\ t.restart = f.restart /\ t.guard = FALSE /\ t.startWhenUp = None
  BY <1>2, <1>3 DEF MainType
<1> QED BY <1>2, <1>3, <1>4, <1>5, <1>6 DEF SameShow, SameCore, SameWait, f, GivenUpSays

\* The core that came up takes over the request that waited for it.
AdoptedSays(s, t) ==
  /\ t \in MainType /\ SameShow(s, t) /\ SameCore(s, t) /\ SameWait(s, t)
  /\ t.issued = s.issued /\ t.killReq = s.killReq /\ t.coreReq = NoRequest
  /\ t.answers = IF s.coreReq.id # m.startWhenUp THEN Finish(s, s.coreReq).answers ELSE s.answers
LEMMA AdoptedIs ==
  ASSUME NEW s \in MainType
  PROVE  AdoptedSays(s, Adopted(s))
<1> SUFFICES ASSUME NEW t, t = Adopted(s) PROVE AdoptedSays(s, t)
  OBVIOUS
<1> DEFINE f == IF s.coreReq.id # m.startWhenUp THEN Finish(s, s.coreReq) ELSE s
<1>1. s.coreReq \in StartRequest
  BY DEF MainType
<1>2. /\ f \in MainType /\ SameShow(s, f) /\ SameCore(s, f) /\ SameWait(s, f)
      /\ f.issued = s.issued /\ f.killReq = s.killReq
  <2>1. CASE s.coreReq.id # m.startWhenUp
    BY <1>1, <2>1, FinishIs DEF FinishSays
  <2>2. CASE s.coreReq.id = m.startWhenUp
    BY <2>2 DEF SameShow, SameCore, SameWait
  <2> QED BY <2>1, <2>2
<1>3. t \in MainType /\ t = [f EXCEPT !.coreReq = NoRequest]
  BY AdoptedOk DEF Adopted
<1>4. f.answers = IF s.coreReq.id # m.startWhenUp THEN Finish(s, s.coreReq).answers ELSE s.answers
  OBVIOUS
<1> HIDE DEF f
<1>5. SameShow(f, t) /\ SameCore(f, t)
  BY <1>2, <1>3 DEF SameShow, SameCore, MainType
<1>6. SameWait(f, t)
  BY <1>2, <1>3 DEF SameWait, MainType
<1>7. t.issued = f.issued /\ t.killReq = f.killReq /\ t.coreReq = NoRequest /\ t.answers = f.answers
  BY <1>2, <1>3 DEF MainType
<1> QED BY <1>2, <1>3, <1>4, <1>5, <1>6, <1>7 DEF SameShow, SameCore, SameWait, AdoptedSays

\* What arming does: nothing, or it restarts the core for a request that was waiting, or for the
\* profile that was to start, or for the one that was started.
ArmedSays(s, t) ==
  \/ t = s /\ (s.guard \/ ~RunningWithoutGuardIdentity(s))
  \/ /\ t \in MainType /\ SameShow(s, t) /\ SameCore(s, t) /\ t.geo = s.geo
     /\ t.issued = s.issued /\ t.killReq = s.killReq /\ t.guard = TRUE /\ t.restart = "guard"
     /\ \/ /\ t.coreReq = s.coreReq /\ t.answers = s.answers /\ t.startWhenUp = s.coreReq.id
           /\ s.coreReq.id # None /\ s.startWhenUp # None
        \/ \E x \in {s.startWhenUp, startedId} :
             t.coreReq = Own(x) /\ t.answers = Finish(s, s.coreReq).answers /\ t.startWhenUp = x
LEMMA ArmedRestartIs ==
  ASSUME NEW s \in MainType, startedId \in ProfileOrNone
  PROVE  ArmedSays(s, ArmedRestart(s))
<1> SUFFICES ASSUME NEW t, t = ArmedRestart(s) PROVE ArmedSays(s, t)
  OBVIOUS
<1>1. CASE s.guard \/ ~RunningWithoutGuardIdentity(s)
  BY <1>1 DEF ArmedRestart, ArmedSays
<1>2. ASSUME ~s.guard, RunningWithoutGuardIdentity(s), NEW x \in {s.startWhenUp, startedId},
             t = RestartCoreForGuard(s, Own(x))
      PROVE  /\ t \in MainType /\ SameShow(s, t) /\ SameCore(s, t) /\ t.geo = s.geo
             /\ t.issued = s.issued /\ t.killReq = s.killReq /\ t.guard = TRUE /\ t.restart = "guard"
             /\ t.coreReq = Own(x) /\ t.answers = Finish(s, s.coreReq).answers /\ t.startWhenUp = x
  <2> DEFINE o == Own(x)
  <2>1. o \in StartRequest /\ o.id = x
    BY OwnOk DEF MainType, Own
  <2> HIDE DEF o
  <2>2. HaveCore(s)
    BY <1>2 DEF HaveCore, RunningWithoutGuardIdentity, CoreRunning
  <2>3. t = RestartCoreForGuard(s, o)
    BY <1>2 DEF o
  <2>4. Deferred(s, t, o) /\ t.guard = TRUE /\ t.restart = IF s.guard THEN s.restart ELSE "guard"
    <3>1. RestartSays(s, t, o)
      BY <2>1, <2>3, GuardRestartIs
    <3> QED BY <2>2, <3>1 DEF RestartSays
  <2> QED BY <1>2, <2>1, <2>4 DEF Deferred, o
<1>3. ASSUME ~s.guard, RunningWithoutGuardIdentity(s), s.coreReq.id # None, s.startWhenUp # None,
             t = RestartCoreForGuard([s EXCEPT !.coreReq = NoRequest], s.coreReq)
      PROVE  /\ t \in MainType /\ SameShow(s, t) /\ SameCore(s, t) /\ t.geo = s.geo
             /\ t.issued = s.issued /\ t.killReq = s.killReq /\ t.guard = TRUE /\ t.restart = "guard"
             /\ t.coreReq = s.coreReq /\ t.answers = s.answers /\ t.startWhenUp = s.coreReq.id
  <2> DEFINE u == [s EXCEPT !.coreReq = NoRequest]
  <2>1. /\ u \in MainType /\ s.coreReq \in StartRequest /\ u.coreReq = NoRequest
        /\ u.issued = s.issued /\ u.killReq = s.killReq /\ u.answers = s.answers /\ u.geo = s.geo
    BY OwnOk DEF MainType
  <2>2. SameShow(s, u) /\ SameCore(s, u) /\ u.guard = s.guard
    BY OwnOk DEF MainType, SameShow, SameCore
  <2>3. t = RestartCoreForGuard(u, s.coreReq)
    BY <1>3
  <2> HIDE DEF u
  <2>4. HaveCore(u)
    BY <1>3, <2>2 DEF HaveCore, RunningWithoutGuardIdentity, CoreRunning, SameCore
  <2>5. Deferred(u, t, s.coreReq) /\ t.guard = TRUE /\ t.restart = IF u.guard THEN u.restart ELSE "guard"
    <3>1. RestartSays(u, t, s.coreReq)
      BY <2>1, <2>3, GuardRestartIs
    <3> QED BY <2>4, <3>1 DEF RestartSays
  <2>6. Finish(u, u.coreReq) = u
    BY <2>1 DEF Finish, NoRequest, Own
  <2> QED BY <1>3, <2>1, <2>2, <2>5, <2>6 DEF Deferred, SameShow, SameCore
<1>4. CASE ~s.guard /\ RunningWithoutGuardIdentity(s)
  <2>1. \/ /\ s.coreReq.id # None /\ s.startWhenUp # None
           /\ t = RestartCoreForGuard([s EXCEPT !.coreReq = NoRequest], s.coreReq)
        \/ t = RestartCoreForGuard(s, Own(s.startWhenUp))
        \/ t = RestartCoreForGuard(s, Own(startedId))
    BY <1>4 DEF ArmedRestart
  <2>2. CASE /\ s.coreReq.id # None /\ s.startWhenUp # None
             /\ t = RestartCoreForGuard([s EXCEPT !.coreReq = NoRequest], s.coreReq)
    BY <1>3, <1>4, <2>2 DEF ArmedSays
  <2>3. CASE t = RestartCoreForGuard(s, Own(s.startWhenUp))
    <3> DEFINE x == s.startWhenUp
    <3>1. /\ t \in MainType /\ SameShow(s, t) /\ SameCore(s, t) /\ t.geo = s.geo
          /\ t.issued = s.issued /\ t.killReq = s.killReq /\ t.guard = TRUE /\ t.restart = "guard"
          /\ t.coreReq = Own(x) /\ t.answers = Finish(s, s.coreReq).answers /\ t.startWhenUp = x
      BY <1>2, <1>4, <2>3
    <3> QED BY <3>1 DEF ArmedSays
  <2>4. CASE t = RestartCoreForGuard(s, Own(startedId))
    <3> DEFINE x == startedId
    <3>1. /\ t \in MainType /\ SameShow(s, t) /\ SameCore(s, t) /\ t.geo = s.geo
          /\ t.issued = s.issued /\ t.killReq = s.killReq /\ t.guard = TRUE /\ t.restart = "guard"
          /\ t.coreReq = Own(x) /\ t.answers = Finish(s, s.coreReq).answers /\ t.startWhenUp = x
      BY <1>2, <1>4, <2>4
    <3> QED BY <3>1 DEF ArmedSays
  <2> QED BY <2>1, <2>2, <2>3, <2>4
<1> QED BY <1>1, <1>4 DEF ArmedSays

\* What becomes of the request that start() is given: it is answered, held back by the kill switch or
\* for the core, given to a sweep, or given to a worker.
StartAnswers(s, t, r) ==
  /\ SameShow(s, t) /\ t.coreReq = s.coreReq /\ t.killReq = s.killReq /\ t.answers = Finish(s, r).answers
  /\ t.guard = s.guard /\ t.restart = s.restart /\ t.startWhenUp = s.startWhenUp
  /\ starters' = starters
StartHolds(s, t, r) ==
  /\ SameShow(s, t) /\ t.coreReq = s.coreReq /\ t.killReq = r /\ t.answers = Finish(s, s.killReq).answers
  /\ t.guard = s.guard /\ t.restart = s.restart /\ t.startWhenUp = s.startWhenUp
  /\ starters' = starters
StartDefers(s, t, r) ==
  /\ SameShow(s, t) /\ t.coreReq = r /\ t.killReq = s.killReq /\ t.answers = Finish(s, s.coreReq).answers
  /\ t.restart = "no" => s.restart = "no"
  /\ t.guard => s.guard \/ t.restart # "no"
  /\ t.startWhenUp = r.id
  /\ starters' = starters
StartRanks(s, t) ==
  /\ SameShow(s, t) /\ t.coreReq = s.coreReq /\ t.killReq = s.killReq /\ t.answers = s.answers
  /\ t.guard = s.guard /\ t.restart = s.restart /\ t.startWhenUp = s.startWhenUp
  /\ starters' = starters
StartLaunches(s, t, r) ==
  /\ t.coreReq = s.coreReq /\ t.killReq = s.killReq /\ t.answers = s.answers
  /\ t.guard = s.guard /\ t.restart = s.restart /\ t.startWhenUp = s.startWhenUp
  /\ t.connecting = TRUE /\ t.disconnecting = s.disconnecting /\ t.shown = ConnectionState(t)
  /\ CoreRunning(s) /\ ~AwaitingCoreStarted(s) /\ ~(s.ks = "Armed" /\ ~s.identity)
  /\ starters = {} /\ ~mu_stopping /\ starters' = {NewStarter(r)}
StartEnds(s, t, r, b) ==
  /\ t \in MainType /\ SameCore(s, t) /\ t.issued = s.issued /\ t.geo = None
  /\ \/ (StartAnswers(s, t, r) \/ StartHolds(s, t, r) \/ StartDefers(s, t, r) \/ StartLaunches(s, t, r))
        /\ ranking' = HeldAfter(r, b)
     \/ StartRanks(s, t) /\ ranking = {} /\ ranking' = {r}

\* A deferral, whatever made it necessary.
LEMMA DefersIs ==
  ASSUME NEW s0 \in MainType, NEW s \in MainType, NEW r \in StartRequest, NEW t, Deferred(s, t, r),
         SameShow(s0, s), s.coreReq = s0.coreReq, s.killReq = s0.killReq, s.answers = s0.answers,
         s.restart = s0.restart, s.guard = s0.guard,
         t.restart = "no" => s.restart = "no", t.guard => s.guard \/ t.restart # "no", starters' = starters
  PROVE  StartDefers(s0, t, r)
<1>1. s.coreReq \in StartRequest
  BY DEF MainType
<1>2. Finish(s, s.coreReq).answers = Finish(s0, s0.coreReq).answers
  <2> DEFINE f == Finish(s, s.coreReq)
             g == Finish(s0, s.coreReq)
             q == s.coreReq
  <2>0. f = Finish(s, q) /\ g = Finish(s0, q) /\ q \in StartRequest
    BY <1>1
  <2> HIDE DEF f, g, q
  <2>1. f.answers = IF q.serial = 0 THEN s.answers ELSE [s.answers EXCEPT ![q.serial] = s.answers[q.serial] + 1]
    BY <2>0, FinishIs DEF FinishSays
  <2>2. g.answers = IF q.serial = 0 THEN s0.answers ELSE [s0.answers EXCEPT ![q.serial] = s0.answers[q.serial] + 1]
    BY <2>0, FinishIs DEF FinishSays
  <2>3. f.answers = g.answers
    BY <2>1, <2>2
  <2> QED BY <2>3 DEF f, g
<1> QED BY <1>2 DEF Deferred, StartDefers, SameShow

\* The profile that a core is to start.
LEMMA StartWhenUpSet ==
  ASSUME NEW s \in MainType, NEW p \in ProfileOrNone, NEW t, t = [s EXCEPT !.startWhenUp = p]
  PROVE  t \in MainType /\ t.startWhenUp = p /\ t.guard = s.guard /\ t.geo = s.geo
<1>1. t \in MainType
  BY DEF MainType
<1> QED BY <1>1 DEF MainType
\* start(), from the locks on.
LEMMA LaunchIs ==
  ASSUME IInv, NEW s0 \in MainType, NEW s \in MainType, NEW r \in StartRequest, Launch(s, r),
         s = [s0 EXCEPT !.geo = None], ~NeedsGuardRestart(s)
  PROVE  /\ m' \in MainType /\ SameCore(s0, m') /\ m'.issued = s0.issued /\ m'.geo = None
         /\ StartAnswers(s0, m', r) \/ StartDefers(s0, m', r) \/ StartLaunches(s0, m', r)
<1>1. /\ SameShow(s0, s) /\ SameCore(s0, s) /\ SameReq(s0, s) /\ s.geo = None
      /\ s.guard = s0.guard /\ s.restart = s0.restart /\ s.startWhenUp = s0.startWhenUp
  <2>1. SameShow(s0, s) /\ SameCore(s0, s)
    BY DEF SameShow, SameCore, MainType
  <2>2. SameReq(s0, s)
    BY DEF SameReq, MainType
  <2>3. s.geo = None /\ s.guard = s0.guard /\ s.restart = s0.restart /\ s.startWhenUp = s0.startWhenUp
    BY DEF MainType
  <2> QED BY <2>1, <2>2, <2>3
<1>2. CASE m' = Finish(s, r) /\ starters' = starters
  <2> DEFINE t == m'
             g == Finish(s0, r)
  <2>1. t = Finish(s, r) /\ g = Finish(s0, r)
    BY <1>2
  <2> HIDE DEF t, g
  <2>2. /\ t \in MainType /\ SameShow(s, t) /\ SameCore(s, t) /\ SameWait(s, t)
        /\ t.issued = s.issued /\ t.coreReq = s.coreReq /\ t.killReq = s.killReq
        /\ t.answers = IF r.serial = 0 THEN s.answers ELSE [s.answers EXCEPT ![r.serial] = s.answers[r.serial] + 1]
    BY <2>1, FinishIs DEF FinishSays
  <2>3. g.answers = IF r.serial = 0 THEN s0.answers ELSE [s0.answers EXCEPT ![r.serial] = s0.answers[r.serial] + 1]
    BY <2>1, FinishIs DEF FinishSays
  <2>4. t.answers = g.answers
    BY <1>1, <2>2, <2>3 DEF SameReq
  <2>5. t \in MainType /\ SameCore(s0, t) /\ t.issued = s0.issued /\ t.geo = None
    BY <1>1, <2>2 DEF SameReq, SameCore, SameWait
  <2>6. /\ SameShow(s0, t) /\ t.coreReq = s0.coreReq /\ t.killReq = s0.killReq
        /\ t.guard = s0.guard /\ t.restart = s0.restart /\ t.startWhenUp = s0.startWhenUp
    BY <1>1, <2>2 DEF SameReq, SameShow, SameWait
  <2> QED BY <1>2, <2>4, <2>5, <2>6 DEF StartAnswers, t, g
<1>3. ASSUME NEW x, x = s.restart \/ x = "plain", starters' = starters,
             m' = [DeferStartToCore(s, r) EXCEPT !.startWhenUp = r.id, !.restart = x]
      PROVE  m' \in MainType /\ SameCore(s0, m') /\ m'.issued = s0.issued /\ m'.geo = None /\ StartDefers(s0, m', r)
  <2> DEFINE d == DeferStartToCore(s, r)
             t == m'
  <2>1. d = DeferStartToCore(s, r) /\ t = [d EXCEPT !.startWhenUp = r.id, !.restart = x]
    BY <1>3
  <2> HIDE DEF d, t
  <2>2. /\ d \in MainType /\ SameShow(s, d) /\ SameCore(s, d) /\ SameWait(s, d)
        /\ d.issued = s.issued /\ d.coreReq = r /\ d.killReq = s.killReq
        /\ d.answers = Finish(s, s.coreReq).answers
    BY <2>1, DeferIs DEF DeferSays
  <2>3. x \in {"no", "plain", "guard"} /\ r.id \in ProfileOrNone
    BY <1>3 DEF MainType, StartRequest
  <2>4. t \in MainType /\ t.startWhenUp = r.id /\ t.restart = x /\ t.guard = d.guard /\ t.geo = d.geo
    <3> DEFINE e == [d EXCEPT !.startWhenUp = r.id]
    <3>1. e \in MainType /\ e.startWhenUp = r.id /\ e.guard = d.guard /\ e.geo = d.geo
      BY <2>2, <2>3, StartWhenUpSet DEF e
    <3>2. t = [e EXCEPT !.restart = x]
      BY <2>1
    <3> HIDE DEF e
    <3>3. t \in MainType /\ t.restart = x
      <4>1. \A y \in {"no", "plain", "guard"} : [e EXCEPT !.restart = y] \in MainType /\ [e EXCEPT !.restart = y].restart = y
        BY <3>1, SMTT(30) DEF MainType
      <4> QED BY <2>3, <3>2, <4>1
    <3>4. t.startWhenUp = e.startWhenUp /\ t.guard = e.guard /\ t.geo = e.geo
      BY <3>1, <3>2 DEF MainType
    <3> QED BY <3>1, <3>3, <3>4
  <2>5. SameShow(d, t) /\ SameCore(d, t)
    BY <2>1, <2>2 DEF SameShow, SameCore, MainType
  <2>6. t.issued = d.issued /\ t.coreReq = d.coreReq /\ t.killReq = d.killReq /\ t.answers = d.answers
    BY <2>1, <2>2 DEF MainType
  <2>7. Deferred(s, t, r)
    BY <2>2, <2>4, <2>5, <2>6 DEF Deferred, SameShow, SameCore, SameWait
  <2>8. (t.restart = "no" => s.restart = "no") /\ (t.guard => s.guard)
    BY <1>3, <2>2, <2>4 DEF SameWait
  <2>9. StartDefers(s0, t, r)
    BY <1>1, <1>3, <2>7, <2>8, DefersIs DEF SameReq
  <2> QED BY <1>1, <2>7, <2>9 DEF t, Deferred, SameCore, SameReq
<1>4. CASE m' = [DeferStartToCore(s, r) EXCEPT !.startWhenUp = r.id] /\ starters' = starters
  <2> DEFINE d == DeferStartToCore(s, r)
             e == [d EXCEPT !.startWhenUp = r.id]
             x == s.restart
  <2>1. d \in MainType /\ SameWait(s, d) /\ r.id \in ProfileOrNone
    BY DeferIs DEF StartRequest, DeferSays
  <2> HIDE DEF d
  <2>2. e = [d EXCEPT !.startWhenUp = r.id, !.restart = x]
    BY <2>1 DEF SameWait, MainType
  <2>3. m' = [DeferStartToCore(s, r) EXCEPT !.startWhenUp = r.id, !.restart = x]
    BY <1>4, <2>2 DEF d
  <2> QED BY <1>3, <1>4, <2>3
<1>5. CASE /\ CoreRunning(s) /\ ~AwaitingCoreStarted(s) /\ ~mu_starting /\ ~mu_stopping
           /\ m' = SyncState([s EXCEPT !.connecting = TRUE]) /\ starters' = starters \union {NewStarter(r)}
  <2> DEFINE c == [s EXCEPT !.connecting = TRUE]
             t == m'
  <2>1. /\ c \in MainType /\ SameReq(s, c) /\ c.connecting = TRUE /\ c.disconnecting = s.disconnecting
    BY DEF MainType, SameReq
  <2>2. SameCore(s, c) /\ SameWait(s, c)
    BY DEF MainType, SameCore, SameWait
  <2>3. t = SyncState(c)
    BY <1>5
  <2> HIDE DEF c, t
  <2>4. /\ t \in MainType /\ SameReq(c, t) /\ SameCore(c, t) /\ SameWait(c, t)
        /\ t.connecting = c.connecting /\ t.disconnecting = c.disconnecting /\ t.shown = ConnectionState(c)
    BY <2>1, <2>3, SyncIs DEF SyncSays
  <2>5. t.shown = ConnectionState(t)
    BY <2>4 DEF ConnectionState
  <2>6. starters = {}
    BY <1>5 DEF mu_starting, StartingLockedIn, IInv, TypeInv, StarterType
  <2>7. starters' = {NewStarter(r)}
    BY <1>5, <2>6
  <2>8. t \in MainType /\ SameCore(s0, t) /\ t.issued = s0.issued /\ t.geo = None
    BY <1>1, <2>1, <2>2, <2>4 DEF SameReq, SameCore, SameWait
  <2>9. CoreRunning(s0) /\ ~AwaitingCoreStarted(s0) /\ ~(s0.ks = "Armed" /\ ~s0.identity)
    BY <1>1, <1>5 DEF CoreRunning, AwaitingCoreStarted, NeedsGuardRestart, RunningWithoutGuardIdentity, SameCore
  <2>10. /\ t.coreReq = s0.coreReq /\ t.killReq = s0.killReq /\ t.answers = s0.answers
         /\ t.guard = s0.guard /\ t.restart = s0.restart /\ t.startWhenUp = s0.startWhenUp
         /\ t.connecting = TRUE /\ t.disconnecting = s0.disconnecting
    BY <1>1, <2>1, <2>2, <2>4 DEF SameReq, SameShow, SameWait
  <2> QED BY <1>5, <2>5, <2>6, <2>7, <2>8, <2>9, <2>10 DEF StartLaunches, t
<1>6. \/ m' = Finish(s, r) /\ starters' = starters
      \/ m' = [DeferStartToCore(s, r) EXCEPT !.startWhenUp = r.id] /\ starters' = starters
      \/ m' = [DeferStartToCore(s, r) EXCEPT !.startWhenUp = r.id, !.restart = "plain"] /\ starters' = starters
      \/ /\ CoreRunning(s) /\ ~AwaitingCoreStarted(s) /\ ~mu_starting /\ ~mu_stopping
         /\ m' = SyncState([s EXCEPT !.connecting = TRUE]) /\ starters' = starters \union {NewStarter(r)}
  BY DEF Launch
<1> QED BY <1>2, <1>3, <1>4, <1>5, <1>6

\* The whole of start().
LEMMA StartIs ==
  ASSUME IInv, NEW s0 \in MainType, NEW r \in StartRequest, NEW b \in BOOLEAN, Start(s0, r, b)
  PROVE  StartEnds(s0, m', r, b)
<1> DEFINE s == [s0 EXCEPT !.geo = None]
           t == m'
<1>1. /\ s \in MainType /\ SameShow(s0, s) /\ SameCore(s0, s) /\ s.geo = None
      /\ s.guard = s0.guard /\ s.restart = s0.restart /\ s.startWhenUp = s0.startWhenUp
  <2>1. s \in MainType /\ SameShow(s0, s) /\ SameCore(s0, s)
    BY OwnOk DEF SameShow, SameCore, MainType
  <2>2. s.geo = None /\ s.guard = s0.guard /\ s.restart = s0.restart /\ s.startWhenUp = s0.startWhenUp
    BY DEF MainType
  <2> QED BY <2>1, <2>2
<1>2. SameReq(s0, s)
  BY DEF SameReq, MainType
<1>3. \/ m' = Finish(s, r) /\ ranking' = HeldAfter(r, b) /\ starters' = starters
      \/ m' = [Finish(s, s.killReq) EXCEPT !.killReq = r] /\ ranking' = HeldAfter(r, b) /\ starters' = starters
      \/ m' = RestartCoreForGuard(s, r) /\ ranking' = HeldAfter(r, b) /\ starters' = starters
      \/ m' = s /\ ranking = {} /\ ranking' = {r} /\ starters' = starters
      \/ ~NeedsGuardRestart(s) /\ Launch(s, r) /\ ranking' = HeldAfter(r, b)
  BY DEF Start, s
<1>4. s = [s0 EXCEPT !.geo = None]
  OBVIOUS
<1> HIDE DEF s
<1>5. ASSUME t = Finish(s, r), starters' = starters
      PROVE  t \in MainType /\ SameCore(s0, t) /\ t.issued = s0.issued /\ t.geo = None /\ StartAnswers(s0, t, r)
  <2> DEFINE g == Finish(s0, r)
  <2>1. t = Finish(s, r) /\ g = Finish(s0, r)
    BY <1>5
  <2> HIDE DEF t, g
  <2>2. /\ t \in MainType /\ SameShow(s, t) /\ SameCore(s, t) /\ SameWait(s, t)
        /\ t.issued = s.issued /\ t.coreReq = s.coreReq /\ t.killReq = s.killReq
        /\ t.answers = IF r.serial = 0 THEN s.answers ELSE [s.answers EXCEPT ![r.serial] = s.answers[r.serial] + 1]
    BY <1>1, <2>1, FinishIs DEF FinishSays
  <2>3. g.answers = IF r.serial = 0 THEN s0.answers ELSE [s0.answers EXCEPT ![r.serial] = s0.answers[r.serial] + 1]
    BY <2>1, FinishIs DEF FinishSays
  <2>4. t.answers = g.answers
    BY <1>2, <2>2, <2>3 DEF SameReq
  <2>5. t \in MainType /\ SameCore(s0, t) /\ t.issued = s0.issued /\ t.geo = None
    BY <1>1, <1>2, <2>2 DEF SameReq, SameCore, SameWait
  <2>6. /\ SameShow(s0, t) /\ t.coreReq = s0.coreReq /\ t.killReq = s0.killReq
        /\ t.guard = s0.guard /\ t.restart = s0.restart /\ t.startWhenUp = s0.startWhenUp
    BY <1>1, <1>2, <2>2 DEF SameReq, SameShow, SameWait
  <2> QED BY <1>5, <2>4, <2>5, <2>6 DEF StartAnswers, g
<1>6. CASE m' = Finish(s, r) /\ ranking' = HeldAfter(r, b) /\ starters' = starters
  BY <1>5, <1>6 DEF StartEnds
<1>7. CASE m' = [Finish(s, s.killReq) EXCEPT !.killReq = r] /\ ranking' = HeldAfter(r, b) /\ starters' = starters
  <2> DEFINE q == s.killReq
             f == Finish(s, q)
             g == Finish(s0, q)
  <2>1. q \in StartRequest /\ f = Finish(s, q) /\ g = Finish(s0, q) /\ t = [f EXCEPT !.killReq = r] /\ s0.killReq = q
    BY <1>1, <1>2, <1>7 DEF MainType, SameReq
  <2> HIDE DEF q, f, g, t
  <2>2. /\ f \in MainType /\ SameShow(s, f) /\ SameCore(s, f) /\ SameWait(s, f)
        /\ f.issued = s.issued /\ f.coreReq = s.coreReq
        /\ f.answers = IF q.serial = 0 THEN s.answers ELSE [s.answers EXCEPT ![q.serial] = s.answers[q.serial] + 1]
    BY <1>1, <2>1, FinishIs DEF FinishSays
  <2>3. g.answers = IF q.serial = 0 THEN s0.answers ELSE [s0.answers EXCEPT ![q.serial] = s0.answers[q.serial] + 1]
    BY <2>1, FinishIs DEF FinishSays
  <2>4. f.answers = g.answers
    BY <1>2, <2>2, <2>3 DEF SameReq
  <2>5. /\ t \in MainType /\ SameShow(f, t) /\ SameCore(f, t)
    BY <2>1, <2>2 DEF MainType, SameShow, SameCore
  <2>6. /\ SameWait(f, t) /\ t.issued = f.issued /\ t.coreReq = f.coreReq /\ t.killReq = r /\ t.answers = f.answers
    BY <2>1, <2>2 DEF MainType, SameWait
  <2>7. SameCore(s0, t) /\ t.issued = s0.issued /\ t.geo = None
    BY <1>1, <1>2, <2>2, <2>5, <2>6 DEF SameReq, SameCore, SameWait
  <2>8. /\ SameShow(s0, t) /\ t.coreReq = s0.coreReq
        /\ t.guard = s0.guard /\ t.restart = s0.restart /\ t.startWhenUp = s0.startWhenUp
    BY <1>1, <1>2, <2>2, <2>5, <2>6 DEF SameReq, SameShow, SameWait
  <2>9. StartHolds(s0, t, r)
    BY <1>7, <2>1, <2>4, <2>6, <2>8 DEF StartHolds
  <2> QED BY <1>7, <2>5, <2>7, <2>9 DEF StartEnds, t
<1>8. CASE m' = RestartCoreForGuard(s, r) /\ ranking' = HeldAfter(r, b) /\ starters' = starters
  <2>1. t = RestartCoreForGuard(s, r)
    BY <1>8
  <2> HIDE DEF t
  <2>2. \/ ~HaveCore(s) /\ t = Finish(s, r)
        \/ /\ HaveCore(s) /\ Deferred(s, t, r) /\ t.guard = TRUE
           /\ t.restart = IF s.guard THEN s.restart ELSE "guard"
    BY <1>1, <2>1, GuardRestartIs DEF RestartSays
  <2>3. CASE t = Finish(s, r)
    BY <1>5, <1>8, <2>3 DEF StartEnds, t
  <2>4. CASE Deferred(s, t, r) /\ t.guard = TRUE /\ t.restart = IF s.guard THEN s.restart ELSE "guard"
    <3>1. (t.restart = "no" => s.restart = "no") /\ (t.guard => s.guard \/ t.restart # "no")
      BY <2>4
    <3>2. StartDefers(s0, t, r)
      BY <1>1, <1>2, <1>8, <2>4, <3>1, DefersIs DEF SameReq
    <3>3. t \in MainType /\ SameCore(s0, t) /\ t.issued = s0.issued /\ t.geo = None
      BY <1>1, <1>2, <2>4 DEF Deferred, SameCore, SameReq
    <3> QED BY <1>8, <3>2, <3>3 DEF StartEnds, t
  <2> QED BY <2>2, <2>3, <2>4
<1>9. CASE m' = s /\ ranking = {} /\ ranking' = {r} /\ starters' = starters
  BY <1>1, <1>2, <1>9 DEF StartEnds, StartRanks, SameReq
<1>10. CASE ~NeedsGuardRestart(s) /\ Launch(s, r) /\ ranking' = HeldAfter(r, b)
  <2>1. /\ t \in MainType /\ SameCore(s0, t) /\ t.issued = s0.issued /\ t.geo = None
        /\ StartAnswers(s0, t, r) \/ StartDefers(s0, t, r) \/ StartLaunches(s0, t, r)
    BY <1>1, <1>4, <1>10, LaunchIs
  <2> QED BY <1>10, <2>1 DEF StartEnds
<1> QED BY <1>3, <1>6, <1>7, <1>8, <1>9, <1>10

-----------------------------------------------------------------------------
(* What each action does to the fields of the main thread. *)

\* A record that differs in its geo field only, or in who is shown.
LEMMA GeoIs ==
  ASSUME NEW s \in MainType, NEW p \in ProfileOrNone, NEW t, t = [s EXCEPT !.geo = p]
  PROVE  /\ t \in MainType /\ SameReq(s, t) /\ SameShow(s, t) /\ SameCore(s, t)
         /\ t.guard = s.guard /\ t.restart = s.restart /\ t.startWhenUp = s.startWhenUp /\ t.geo = p
<1>1. t \in MainType /\ SameReq(s, t)
  BY DEF MainType, SameReq
<1>2. SameShow(s, t) /\ SameCore(s, t)
  BY DEF MainType, SameShow, SameCore
<1>3. t.guard = s.guard /\ t.restart = s.restart /\ t.startWhenUp = s.startWhenUp /\ t.geo = p
  BY DEF MainType
<1> QED BY <1>1, <1>2, <1>3

\* A stop that begins or ends is shown at once.
LEMMA DisconnectingIs ==
  ASSUME NEW s \in MainType, NEW b \in BOOLEAN, NEW t, t = SyncState([s EXCEPT !.disconnecting = b])
  PROVE  /\ t \in MainType /\ SameReq(s, t) /\ SameCore(s, t) /\ SameWait(s, t)
         /\ t.connecting = s.connecting /\ t.disconnecting = b /\ t.shown = ConnectionState(t)
<1> DEFINE c == [s EXCEPT !.disconnecting = b]
<1>1. c \in MainType /\ SameReq(s, c) /\ c.disconnecting = b /\ c.connecting = s.connecting
  BY DEF MainType, SameReq
<1>2. SameCore(s, c) /\ SameWait(s, c)
  BY DEF MainType, SameCore, SameWait
<1>3. t = SyncState(c)
  OBVIOUS
<1> HIDE DEF c
<1>4. SyncSays(c, t)
  BY <1>1, <1>3, SyncIs
<1>5. t.shown = ConnectionState(t)
  BY <1>4 DEF SyncSays, ConnectionState
<1> QED BY <1>1, <1>2, <1>4, <1>5 DEF SyncSays, SameReq, SameCore, SameWait

\* And so is a start that ends.
LEMMA ConnectedIs ==
  ASSUME NEW s \in MainType, NEW t, t = SyncState([s EXCEPT !.connecting = FALSE])
  PROVE  /\ t \in MainType /\ SameReq(s, t) /\ SameCore(s, t) /\ SameWait(s, t)
         /\ t.connecting = FALSE /\ t.disconnecting = s.disconnecting /\ t.shown = ConnectionState(t)
<1> DEFINE c == [s EXCEPT !.connecting = FALSE]
<1>1. c \in MainType /\ SameReq(s, c) /\ c.disconnecting = s.disconnecting /\ c.connecting = FALSE
  BY DEF MainType, SameReq
<1>2. SameCore(s, c) /\ SameWait(s, c)
  BY DEF MainType, SameCore, SameWait
<1>3. t = SyncState(c)
  OBVIOUS
<1> HIDE DEF c
<1>4. SyncSays(c, t)
  BY <1>1, <1>3, SyncIs
<1>5. t.shown = ConnectionState(t)
  BY <1>4 DEF SyncSays, ConnectionState
<1> QED BY <1>1, <1>2, <1>4, <1>5 DEF SyncSays, SameReq, SameCore, SameWait

\* The start worker touches geo only.
LEMMA StarterIs ==
  ASSUME IInv, NEW w \in starters,
         \/ StarterBegins(w) \/ InstallGuard(w) \/ StarterLooks(w) \/ StarterStops(w) \/ StarterWaits(w)
         \/ StartAnswered(w) \/ StartTimesOut(w) \/ CommitOtp(w) \/ StarterRecords(w) \/ ReleaseGuard(w)
  PROVE  /\ SameReq(m, m') /\ SameShow(m, m') /\ SameCore(m, m')
         /\ m'.guard = m.guard /\ m'.restart = m.restart /\ m'.startWhenUp = m.startWhenUp
         /\ ranking' = ranking /\ exiting' = exiting /\ stopped' = stopped /\ cores' = cores
<1>1. m' = m \/ m' = [m EXCEPT !.geo = None] \/ m' = [m EXCEPT !.geo = w.req.id]
  BY DEF StarterBegins, InstallGuard, StarterLooks, StarterStops, StarterWaits, StartAnswered, StartTimesOut, CommitOtp,
         StarterRecords, ReleaseGuard
<1>2. m \in MainType /\ None \in ProfileOrNone /\ w.req.id \in ProfileOrNone
  BY OwnOk DEF IInv, TypeInv, StarterType, StartRequest
<1>3. /\ SameReq(m, m') /\ SameShow(m, m') /\ SameCore(m, m')
      /\ m'.guard = m.guard /\ m'.restart = m.restart /\ m'.startWhenUp = m.startWhenUp
  <2>1. CASE m' = m
    BY <2>1 DEF SameReq, SameShow, SameCore
  <2>2. CASE m' = [m EXCEPT !.geo = None]
    BY <1>2, <2>2, GeoIs
  <2>3. CASE m' = [m EXCEPT !.geo = w.req.id]
    BY <1>2, <2>3, GeoIs
  <2> QED BY <1>1, <2>1, <2>2, <2>3
<1>4. ranking' = ranking /\ exiting' = exiting /\ stopped' = stopped /\ cores' = cores
  BY DEF StarterBegins, InstallGuard, StarterLooks, StarterStops, StarterWaits, StartAnswered, StartTimesOut, CommitOtp,
         StarterRecords, ReleaseGuard
<1> QED BY <1>3, <1>4

\* A worker keeps its request, and the profile of its request, whatever it does.
LEMMA StarterMoves ==
  ASSUME IInv, NEW w \in starters,
         \/ StarterBegins(w) \/ InstallGuard(w) \/ StarterLooks(w) \/ StarterStops(w) \/ StarterWaits(w)
         \/ StartAnswered(w) \/ StartTimesOut(w) \/ CommitOtp(w) \/ StarterRecords(w)
  PROVE  \E v \in StarterType : starters = {w} /\ starters' = {v} /\ v.req = w.req /\ v.late = w.late
<1>1. w \in StarterType /\ starters = {w}
  BY DEF IInv, TypeInv, SoleStarter
<1>2. PICK c \in {"guard", "look", "stop", "wait", "rpc", "accepted", "recorded", "release"} :
        \/ To(w, c)
        \/ c = "guard" /\ Step(w, [w EXCEPT !.pc = c, !.guard = "asked"])
        \/ c = "look" /\ Step(w, [w EXCEPT !.pc = c, !.guard = "held"])
  BY DEF StarterBegins, InstallGuard, StarterLooks, StarterStops, StarterWaits, StartAnswered, StartTimesOut, CommitOtp,
         StarterRecords
<1>3. \A v : Step(w, v) => starters' = {v}
  BY <1>1 DEF Step
<1>4. CASE To(w, c)
  <2> DEFINE v == [w EXCEPT !.pc = c]
  <2>1. v \in StarterType /\ v.req = w.req /\ v.late = w.late
    BY <1>1 DEF StarterType
  <2> QED BY <1>1, <1>3, <1>4, <2>1 DEF To
<1>5. CASE Step(w, [w EXCEPT !.pc = c, !.guard = "asked"])
  <2> DEFINE v == [w EXCEPT !.pc = c, !.guard = "asked"]
  <2>1. v \in StarterType /\ v.req = w.req /\ v.late = w.late
    BY <1>1 DEF StarterType
  <2> QED BY <1>1, <1>3, <1>5, <2>1
<1>6. CASE Step(w, [w EXCEPT !.pc = c, !.guard = "held"])
  <2> DEFINE v == [w EXCEPT !.pc = c, !.guard = "held"]
  <2>1. v \in StarterType /\ v.req = w.req /\ v.late = w.late
    BY <1>1 DEF StarterType
  <2> QED BY <1>1, <1>3, <1>6, <2>1
<1> QED BY <1>2, <1>4, <1>5, <1>6

\* What the core runs.
SameBox(c, d) == d.loaded = c.loaded /\ d.late = c.late /\ d.stray = c.stray /\ d.overdue = c.overdue

\* The last step of a worker.
LEMMA ReleaseIs ==
  ASSUME IInv, NEW w \in starters, ReleaseGuard(w)
  PROVE  starters = {w} /\ starters' = {} /\ w.pc = "release"
         /\ SameBox(core, core') /\ core'.owed = core.owed
<1>1. starters = {w} /\ starters' = {} /\ w.pc = "release"
  BY DEF IInv, SoleStarter, ReleaseGuard
<1>2. core \in CoreType /\ (core' = core \/ core' = [core EXCEPT !.filter = FALSE])
  BY DEF IInv, TypeInv, ReleaseGuard
<1>3. SameBox(core, core') /\ core'.owed = core.owed
  BY <1>2 DEF CoreType, SameBox
<1> QED BY <1>1, <1>3

\* The workers that lose their core keep their requests, and are late.
LEMMA LostIs ==
  ASSUME IInv, starters' = Lost(starters)
  PROVE  \/ starters = {} /\ starters' = {}
         \/ \E w \in starters, v \in StarterType :
              starters = {w} /\ starters' = {v} /\ v.req = w.req /\ v.pc = w.pc /\ v.late = TRUE
<1>1. CASE starters = {}
  BY <1>1 DEF Lost
<1>2. ASSUME NEW w \in starters
      PROVE  \E v \in StarterType : starters = {w} /\ starters' = {v} /\ v.req = w.req /\ v.pc = w.pc /\ v.late = TRUE
  <2> DEFINE v == [w EXCEPT !.guard = IF @ = "held" THEN "asked" ELSE @, !.late = TRUE]
  <2>1. starters = {w} /\ w \in StarterType
    BY <1>2 DEF IInv, SoleStarter, TypeInv
  <2>2. starters' = {v}
    BY <2>1 DEF Lost
  <2>3. v \in StarterType /\ v.req = w.req /\ v.pc = w.pc /\ v.late = TRUE
    <3>1. CASE w.guard = "held"
      <4>1. v = [w EXCEPT !.guard = "asked", !.late = TRUE]
        BY <2>1, <3>1 DEF StarterType
      <4> QED BY <2>1, <4>1 DEF StarterType
    <3>2. CASE w.guard # "held"
      <4>1. v = [w EXCEPT !.late = TRUE]
        BY <2>1, <3>2 DEF StarterType
      <4> QED BY <2>1, <4>1 DEF StarterType
    <3> QED BY <3>1, <3>2
  <2> QED BY <2>1, <2>2, <2>3
<1> QED BY <1>1, <1>2

\* A stop that is asked: by the user it also cancels the retry and the resumption.
LEMMA StopAskedIs ==
  ASSUME IInv, NEW manual \in BOOLEAN, StopAsked(manual)
  PROVE  /\ SameReq(m, m') /\ SameCore(m, m') /\ m'.guard = m.guard /\ m'.restart = m.restart
         /\ m'.geo = IF manual THEN None ELSE m.geo
         /\ \/ /\ running = None \/ mu_stopping
               /\ SameShow(m, m') /\ stopper' = stopper
               /\ manual /\ running = None => m'.startWhenUp = None /\ startedId' = None
            \/ /\ running # None /\ ~mu_stopping /\ startedId' = startedId
               /\ m'.connecting = m.connecting /\ m'.disconnecting = TRUE /\ m'.shown = ConnectionState(m')
               /\ BeginStop(FALSE, manual)
<1> DEFINE s == IF manual THEN [m EXCEPT !.geo = None] ELSE m
<1>1. m \in MainType /\ None \in ProfileOrNone /\ running' = running
  BY OwnOk DEF IInv, TypeInv, StopAsked
<1>2. /\ s \in MainType /\ SameReq(m, s) /\ SameShow(m, s) /\ SameCore(m, s)
      /\ s.guard = m.guard /\ s.restart = m.restart /\ s.startWhenUp = m.startWhenUp
      /\ s.geo = IF manual THEN None ELSE m.geo
  <2>1. CASE manual
    <3>1. s = [m EXCEPT !.geo = None]
      BY <2>1
    <3> HIDE DEF s
    <3> QED BY <1>1, <2>1, <3>1, GeoIs
  <2>2. CASE ~manual
    BY <1>1, <2>2 DEF SameReq, SameShow, SameCore
  <2> QED BY <2>1, <2>2
<1>3. \/ running = None /\ m' = (IF manual THEN CancelResume(s) ELSE s) /\ stopper' = stopper /\ (manual => startedId' = None)
      \/ running # None /\ mu_stopping /\ m' = s /\ stopper' = stopper
      \/ /\ running # None /\ ~mu_stopping /\ m' = SyncState([s EXCEPT !.disconnecting = TRUE])
         /\ BeginStop(FALSE, manual) /\ startedId' = startedId
  BY DEF StopAsked, s
<1> HIDE DEF s
<1>4. CASE running = None /\ manual /\ m' = CancelResume(s) /\ stopper' = stopper /\ startedId' = None
  <2>1. m' = [s EXCEPT !.startWhenUp = None]
    BY <1>4 DEF CancelResume
  <2>2. SameReq(s, m') /\ SameShow(s, m')
    BY <1>2, <2>1 DEF MainType, SameReq, SameShow
  <2>3. SameCore(s, m') /\ m'.guard = s.guard /\ m'.restart = s.restart /\ m'.geo = s.geo /\ m'.startWhenUp = None
    BY <1>2, <2>1 DEF MainType, SameCore
  <2> QED BY <1>2, <1>4, <2>2, <2>3 DEF SameReq, SameShow, SameCore
<1>5. CASE (running = None \/ mu_stopping) /\ ~(manual /\ running = None) /\ m' = s /\ stopper' = stopper
  BY <1>2, <1>5
<1>6. CASE /\ running # None /\ ~mu_stopping /\ m' = SyncState([s EXCEPT !.disconnecting = TRUE])
           /\ BeginStop(FALSE, manual) /\ startedId' = startedId
  <2>1. /\ m' \in MainType /\ SameReq(s, m') /\ SameCore(s, m') /\ SameWait(s, m')
        /\ m'.connecting = s.connecting /\ m'.disconnecting = TRUE /\ m'.shown = ConnectionState(m')
    <3> DEFINE t == m'
    <3>1. t = SyncState([s EXCEPT !.disconnecting = TRUE])
      BY <1>6
    <3> HIDE DEF t
    <3>2. /\ t \in MainType /\ SameReq(s, t) /\ SameCore(s, t) /\ SameWait(s, t)
          /\ t.connecting = s.connecting /\ t.disconnecting = TRUE /\ t.shown = ConnectionState(t)
      BY <1>2, <3>1, DisconnectingIs
    <3> QED BY <3>2 DEF t
  <2> QED BY <1>2, <1>6, <2>1 DEF SameReq, SameShow, SameCore, SameWait
<1> QED BY <1>3, <1>4, <1>5, <1>6

\* A posted closure, by what it is.
PostSays(p) ==
  \/ /\ p.op = "finish" /\ SameShow(m, m') /\ SameCore(m, m') /\ SameWait(m, m')
     /\ m'.issued = m.issued /\ m'.coreReq = m.coreReq /\ m'.killReq = m.killReq
     /\ m'.answers = Finish(m, p.req).answers
     /\ stopper' = stopper /\ startedId' = startedId
  \/ /\ p.op = "connected" /\ SameReq(m, m') /\ SameCore(m, m') /\ SameWait(m, m')
     /\ m'.connecting = FALSE /\ m'.disconnecting = m.disconnecting /\ m'.shown = ConnectionState(m')
     /\ stopper' = stopper /\ startedId' = startedId
  \/ /\ p.op = "disconnecting" /\ SameReq(m, m') /\ SameCore(m, m') /\ SameWait(m, m')
     /\ m'.connecting = m.connecting /\ m'.disconnecting = TRUE /\ m'.shown = ConnectionState(m')
     /\ stopper' = stopper /\ startedId' = startedId
  \/ /\ p.op = "cancel" /\ SameReq(m, m') /\ SameShow(m, m') /\ SameCore(m, m')
     /\ m'.guard = m.guard /\ m'.restart = m.restart /\ m'.geo = m.geo /\ m'.startWhenUp = None
     /\ stopper' = stopper /\ startedId' = None
  \/ /\ p.op = "teardown" /\ m' = m
     /\ stopper' = [stopper EXCEPT !.pc = "ui"] /\ startedId' = startedId
LEMMA HandlePostIs ==
  ASSUME IInv, HandlePost
  PROVE  /\ posts # << >> /\ posts' = Tail(posts) /\ Head(posts) \in PostType /\ PostSays(Head(posts))
         /\ UNCHANGED <<core, cores, starters, running, ranking, exiting, stopped, setup>>
<1> DEFINE p == Head(posts)
           t == m'
<1>1. posts # << >> /\ posts' = Tail(posts) /\ UNCHANGED <<core, cores, starters, running, ranking, exiting, stopped, setup>>
  BY DEF HandlePost
<1>2. p \in PostType /\ m \in MainType /\ None \in ProfileOrNone
  BY <1>1, HeadTailProperties, OwnOk DEF IInv, TypeInv
<1>3. p.op \in {"finish", "connected", "disconnecting", "cancel", "teardown"} /\ p.req \in StartRequest
  BY <1>2 DEF PostType
<1>4. /\ p.op = "finish" => t = Finish(IF p.started THEN [m EXCEPT !.geoRetried = None] ELSE m, p.req)
      /\ p.op = "connected" => t = SyncState([m EXCEPT !.connecting = FALSE])
      /\ p.op = "disconnecting" => t = SyncState([m EXCEPT !.disconnecting = TRUE])
      /\ p.op = "cancel" => t = [m EXCEPT !.startWhenUp = None]
      /\ p.op = "teardown" => t = m
  BY DEF HandlePost, CancelResume
<1>5. /\ stopper' = IF p.op = "teardown" THEN [stopper EXCEPT !.pc = "ui"] ELSE stopper
      /\ startedId' = IF p.op = "cancel" THEN None ELSE startedId
  BY DEF HandlePost
<1> HIDE DEF p
<1>6. CASE p.op = "finish"
  <2> DEFINE a == IF p.started THEN [m EXCEPT !.geoRetried = None] ELSE m
             q == p.req
             g == Finish(m, q)
  <2>1. t = Finish(a, q) /\ g = Finish(m, q) /\ q \in StartRequest
    BY <1>3, <1>4, <1>6
  <2>2. a \in MainType /\ SameShow(m, a) /\ SameCore(m, a)
    <3>1. CASE p.started
      BY <1>2, <3>1 DEF MainType, SameShow, SameCore
    <3>2. CASE ~p.started
      BY <1>2, <3>2 DEF SameShow, SameCore
    <3> QED BY <3>1, <3>2
  <2>3. SameReq(m, a) /\ SameWait(m, a)
    <3>1. CASE p.started
      BY <1>2, <3>1 DEF MainType, SameReq, SameWait
    <3>2. CASE ~p.started
      BY <1>2, <3>2 DEF SameReq, SameWait
    <3> QED BY <3>1, <3>2
  <2> HIDE DEF a, q, g, t
  <2>4. FinishSays(a, t, q) /\ FinishSays(m, g, q)
    BY <1>2, <2>1, <2>2, FinishIs
  <2>5. t.answers = g.answers
    BY <2>3, <2>4 DEF FinishSays, SameReq
  <2>6. SameShow(m, t) /\ SameCore(m, t)
    BY <2>2, <2>4 DEF FinishSays, SameShow, SameCore
  <2>7. SameWait(m, t) /\ t.issued = m.issued /\ t.coreReq = m.coreReq /\ t.killReq = m.killReq
    BY <2>3, <2>4 DEF FinishSays, SameWait, SameReq
  <2>8. PostSays(p)
    BY <1>5, <1>6, <2>5, <2>6, <2>7 DEF PostSays, t, g, q
  <2> QED BY <1>1, <1>2, <2>8 DEF p
<1>7. CASE p.op = "connected"
  <2>1. t = SyncState([m EXCEPT !.connecting = FALSE])
    BY <1>4, <1>7
  <2> HIDE DEF t
  <2>2. /\ SameReq(m, t) /\ SameCore(m, t) /\ SameWait(m, t)
        /\ t.connecting = FALSE /\ t.disconnecting = m.disconnecting /\ t.shown = ConnectionState(t)
    BY <1>2, <2>1, ConnectedIs
  <2>3. PostSays(p)
    BY <1>5, <1>7, <2>2 DEF PostSays, t
  <2> QED BY <1>1, <1>2, <2>3 DEF p
<1>8. CASE p.op = "disconnecting"
  <2>1. t = SyncState([m EXCEPT !.disconnecting = TRUE])
    BY <1>4, <1>8
  <2> HIDE DEF t
  <2>2. /\ SameReq(m, t) /\ SameCore(m, t) /\ SameWait(m, t)
        /\ t.connecting = m.connecting /\ t.disconnecting = TRUE /\ t.shown = ConnectionState(t)
    BY <1>2, <2>1, DisconnectingIs
  <2>3. PostSays(p)
    BY <1>5, <1>8, <2>2 DEF PostSays, t
  <2> QED BY <1>1, <1>2, <2>3 DEF p
<1>9. CASE p.op = "cancel"
  <2>1. t = [m EXCEPT !.startWhenUp = None]
    BY <1>4, <1>9
  <2> HIDE DEF t
  <2>2. SameReq(m, t) /\ SameShow(m, t)
    BY <1>2, <2>1 DEF MainType, SameReq, SameShow
  <2>3. SameCore(m, t) /\ t.guard = m.guard /\ t.restart = m.restart /\ t.geo = m.geo /\ t.startWhenUp = None
    BY <1>2, <2>1 DEF MainType, SameCore
  <2>4. PostSays(p)
    BY <1>5, <1>9, <2>2, <2>3 DEF PostSays, t
  <2> QED BY <1>1, <1>2, <2>4 DEF p
<1>10. CASE p.op = "teardown"
  <2>1. PostSays(p)
    BY <1>4, <1>5, <1>10 DEF PostSays
  <2> QED BY <1>1, <1>2, <2>1 DEF p
<1> QED BY <1>3, <1>6, <1>7, <1>8, <1>9, <1>10

\* The stop ends on the main thread.
LEMMA TornDownIs ==
  ASSUME IInv, StopTornDown
  PROVE  /\ SameReq(m, m') /\ SameCore(m, m') /\ SameWait(m, m')
         /\ m'.connecting = m.connecting /\ m'.disconnecting = FALSE /\ m'.shown = ConnectionState(m')
<1> DEFINE t == m'
<1>1. m \in MainType /\ t = SyncState([m EXCEPT !.disconnecting = FALSE])
  BY DEF IInv, TypeInv, StopTornDown, TornDown
<1> HIDE DEF t
<1>2. /\ SameReq(m, t) /\ SameCore(m, t) /\ SameWait(m, t)
      /\ t.connecting = m.connecting /\ t.disconnecting = FALSE /\ t.shown = ConnectionState(t)
  BY <1>1, DisconnectingIs
<1> QED BY <1>2 DEF t

\* The exit stops what runs.
LEMMA ExitIs ==
  ASSUME IInv, PrepareExit
  PROVE  /\ exiting' = TRUE
         /\ UNCHANGED <<core, cores, starters, running, startedId, posts, ranking, stopped, setup>>
         /\ \/ m' = m /\ stopper' = stopper
            \/ /\ running # None /\ ~mu_stopping /\ BeginStop(FALSE, FALSE)
               /\ SameReq(m, m') /\ SameCore(m, m') /\ SameWait(m, m')
               /\ m'.connecting = m.connecting /\ m'.disconnecting = TRUE /\ m'.shown = ConnectionState(m')
<1> DEFINE t == m'
<1>1. m \in MainType
  BY DEF IInv, TypeInv
<1>2. \/ t = m /\ stopper' = stopper
      \/ running # None /\ ~mu_stopping /\ BeginStop(FALSE, FALSE) /\ t = SyncState([m EXCEPT !.disconnecting = TRUE])
  BY DEF PrepareExit
<1>3. exiting' = TRUE /\ UNCHANGED <<core, cores, starters, running, startedId, posts, ranking, stopped, setup>>
  BY DEF PrepareExit
<1> HIDE DEF t
<1>4. ASSUME t = SyncState([m EXCEPT !.disconnecting = TRUE])
      PROVE  /\ SameReq(m, t) /\ SameCore(m, t) /\ SameWait(m, t)
             /\ t.connecting = m.connecting /\ t.disconnecting = TRUE /\ t.shown = ConnectionState(t)
  BY <1>1, <1>4, DisconnectingIs
<1> QED BY <1>2, <1>3, <1>4 DEF t

\* The supervisor starts.
LEMMA SupervisorStartsIs ==
  ASSUME IInv, SupervisorStarts
  PROVE  /\ UNCHANGED <<core, cores, starters, stopper, running, startedId, posts, ranking, exiting, stopped, setup>>
         /\ m.st = "new" /\ m'.st \in {"listenFailed", "starting"} /\ SameShow(m, m') /\ m'.ks = m.ks
         /\ m'.identity = m.identity /\ m'.guard = m.guard /\ m'.restart = m.restart /\ m'.geo = m.geo
         /\ m'.killReq = m.killReq
         /\ \/ SameReq(m, m')
            \/ /\ m.issued < MaxRequests /\ m'.issued = m.issued + 1 /\ m'.answers = Finish(m, m.coreReq).answers
               /\ m'.coreReq.serial = m.issued + 1 /\ m'.coreReq.id \in Profile
<1> DEFINE t == m'
<1>1. UNCHANGED <<core, cores, starters, stopper, running, startedId, posts, ranking, exiting, stopped, setup>>
  BY DEF SupervisorStarts
<1>2. m \in MainType /\ m.issued \in 0 .. MaxRequests /\ setup.profiles \subseteq Profile /\ m.st = "new"
  BY DEF IInv, TypeInv, MainType, Setup, SupervisorStarts
<1>3. \/ t = [m EXCEPT !.st = "listenFailed"]
      \/ \E p \in ProfileOrNone : t = [m EXCEPT !.st = "starting", !.startWhenUp = p]
      \/ \E p \in setup.profiles :
           /\ m.issued < MaxRequests
           /\ t = [DeferStartToCore(m, [serial |-> m.issued + 1, id |-> p])
                   EXCEPT !.issued = @ + 1, !.boot = m.issued + 1, !.st = "starting", !.startWhenUp = p]
  BY DEF SupervisorStarts
<1> HIDE DEF t
<1>4. CASE t = [m EXCEPT !.st = "listenFailed"]
  <2>1. SameReq(m, t) /\ SameShow(m, t) /\ t.st = "listenFailed"
    BY <1>2, <1>4 DEF MainType, SameReq, SameShow
  <2>2. t.ks = m.ks /\ t.identity = m.identity /\ t.guard = m.guard /\ t.restart = m.restart /\ t.geo = m.geo
    BY <1>2, <1>4 DEF MainType
  <2> QED BY <1>1, <1>2, <2>1, <2>2 DEF t, SameReq
<1>5. ASSUME NEW p \in ProfileOrNone, t = [m EXCEPT !.st = "starting", !.startWhenUp = p]
      PROVE  /\ SameReq(m, t) /\ SameShow(m, t) /\ t.st = "starting" /\ t.ks = m.ks /\ t.identity = m.identity
             /\ t.guard = m.guard /\ t.restart = m.restart /\ t.geo = m.geo
  <2>1. SameReq(m, t) /\ SameShow(m, t) /\ t.st = "starting"
    BY <1>2, <1>5 DEF MainType, SameReq, SameShow
  <2>2. t.ks = m.ks /\ t.identity = m.identity /\ t.guard = m.guard /\ t.restart = m.restart /\ t.geo = m.geo
    BY <1>2, <1>5 DEF MainType
  <2> QED BY <2>1, <2>2
<1>6. ASSUME NEW p \in setup.profiles, m.issued < MaxRequests,
             t = [DeferStartToCore(m, [serial |-> m.issued + 1, id |-> p])
                   EXCEPT !.issued = @ + 1, !.boot = m.issued + 1, !.st = "starting", !.startWhenUp = p]
      PROVE  /\ SameShow(m, t) /\ t.st = "starting" /\ t.ks = m.ks /\ t.identity = m.identity
             /\ t.guard = m.guard /\ t.restart = m.restart /\ t.geo = m.geo /\ t.killReq = m.killReq
             /\ t.issued = m.issued + 1 /\ t.answers = Finish(m, m.coreReq).answers
             /\ t.coreReq.serial = m.issued + 1 /\ t.coreReq.id \in Profile
  <2> DEFINE r == [serial |-> m.issued + 1, id |-> p]
             d == DeferStartToCore(m, r)
  <2>1. r \in StartRequest /\ r.serial = m.issued + 1 /\ r.id \in Profile
    BY <1>2, <1>6, BoundAssumption DEF StartRequest, ProfileOrNone
  <2>2. t = [d EXCEPT !.issued = @ + 1, !.boot = m.issued + 1, !.st = "starting", !.startWhenUp = p]
    BY <1>6
  <2> HIDE DEF r
  <2>3. DeferSays(m, d, r)
    BY <1>2, <2>1, DeferIs
  <2> HIDE DEF d
  <2>4. d \in MainType /\ d.issued = m.issued
    BY <2>3 DEF DeferSays
  <2>5. SameShow(d, t) /\ t.st = "starting" /\ t.ks = d.ks /\ t.identity = d.identity
    BY <2>2, <2>4 DEF MainType, SameShow
  <2>6. t.guard = d.guard /\ t.restart = d.restart /\ t.geo = d.geo /\ t.killReq = d.killReq
    BY <2>2, <2>4 DEF MainType
  <2>7. t.issued = m.issued + 1 /\ t.answers = d.answers /\ t.coreReq = d.coreReq
    BY <2>2, <2>4 DEF MainType
  <2> QED BY <2>1, <2>3, <2>5, <2>6, <2>7 DEF DeferSays, SameShow, SameCore, SameWait
<1> QED BY <1>1, <1>2, <1>3, <1>4, <1>5, <1>6 DEF t, SameReq

\* The core is accepted, dies, or the window of its restart is over.
LEMMA CoreIs ==
  ASSUME NEW s \in MainType, NEW c \in {"probing", "dead"}, NEW t, t = [s EXCEPT !.st = c]
  PROVE  /\ SameReq(s, t) /\ SameShow(s, t) /\ SameWait(s, t) /\ t.ks = s.ks /\ t.identity = s.identity /\ t.st = c
<1>1. SameReq(s, t) /\ SameShow(s, t)
  BY DEF MainType, SameReq, SameShow
<1>2. SameWait(s, t) /\ t.ks = s.ks /\ t.identity = s.identity /\ t.st = c
  BY DEF MainType, SameWait
<1> QED BY <1>1, <1>2
LEMMA WindowIs ==
  ASSUME IInv, GuardWindowExpires
  PROVE  /\ SameReq(m, m') /\ SameShow(m, m') /\ SameCore(m, m') /\ m'.guard = FALSE /\ m'.restart = m.restart
         /\ m'.startWhenUp = m.startWhenUp /\ m'.geo = m.geo
         /\ UNCHANGED <<core, cores, starters, stopper, running, startedId, posts, ranking, exiting, stopped, setup>>
<1> DEFINE t == m'
<1>1. m \in MainType /\ t = [m EXCEPT !.guard = FALSE]
  BY DEF IInv, TypeInv, GuardWindowExpires
<1>2. UNCHANGED <<core, cores, starters, stopper, running, startedId, posts, ranking, exiting, stopped, setup>>
  BY DEF GuardWindowExpires
<1> HIDE DEF t
<1>3. SameReq(m, t) /\ SameShow(m, t)
  BY <1>1 DEF MainType, SameReq, SameShow
<1>4. SameCore(m, t) /\ t.guard = FALSE /\ t.restart = m.restart /\ t.startWhenUp = m.startWhenUp /\ t.geo = m.geo
  BY <1>1 DEF MainType, SameCore
<1> QED BY <1>2, <1>3, <1>4 DEF t

\* The exit of the core is handled: not at all, or the next core starts, or the core is given up.
LEMMA CoreExitedIs ==
  ASSUME IInv, CoreExited
  PROVE  /\ cores = "report" /\ cores' = "idle"
         /\ UNCHANGED <<core, starters, stopper, running, posts, ranking, exiting, stopped, setup>>
         /\ \/ m' = m /\ startedId' = startedId
            \/ /\ SameReq(m, m') /\ SameShow(m, m') /\ m'.st = "starting" /\ m'.ks = m.ks
               /\ m'.guard = m.guard /\ m'.restart = m.restart /\ m'.geo = m.geo
               /\ m'.startWhenUp \in {m.startWhenUp, startedId} /\ startedId' \in {startedId, None}
            \/ GivenUpSays(m, m') /\ startedId' = None
<1> DEFINE i == m.ks # "Disabled"
           x == IF m.startWhenUp # None THEN m.startWhenUp ELSE startedId
           t == m'
<1>1. /\ cores = "report" /\ cores' = "idle"
      /\ UNCHANGED <<core, starters, stopper, running, posts, ranking, exiting, stopped, setup>>
  BY DEF CoreExited
<1>2. m \in MainType /\ startedId \in ProfileOrNone /\ i \in BOOLEAN
  BY DEF IInv, TypeInv
<1>3. x \in {m.startWhenUp, startedId}
  OBVIOUS
<1>4. \/ t = m /\ startedId' = startedId
      \/ t = [m EXCEPT !.st = "starting", !.identity = i, !.startWhenUp = x] /\ startedId' = startedId
      \/ t = [m EXCEPT !.st = "starting", !.identity = i] /\ startedId' = None
      \/ t = GivenUp(m) /\ startedId' = None
  BY <1>2 DEF CoreExited, MainType
<1> HIDE DEF i, x, t
<1>5. CASE t = [m EXCEPT !.st = "starting", !.identity = i, !.startWhenUp = x]
  <2>1. SameReq(m, t) /\ SameShow(m, t) /\ t.st = "starting"
    BY <1>2, <1>5 DEF MainType, SameReq, SameShow
  <2>2. t.ks = m.ks /\ t.guard = m.guard /\ t.restart = m.restart /\ t.geo = m.geo /\ t.startWhenUp = x
    BY <1>2, <1>5 DEF MainType
  <2>3. SameReq(m, t) /\ SameShow(m, t) /\ t.st = "starting" /\ t.ks = m.ks
          /\ t.guard = m.guard /\ t.restart = m.restart /\ t.geo = m.geo /\ t.startWhenUp \in {m.startWhenUp, startedId}
    BY <1>3, <2>1, <2>2
  <2>4. t # m \/ startedId' \in {startedId, None}
    BY <1>4
  <2> QED BY <1>1, <1>4, <2>3 DEF t
<1>6. CASE t = [m EXCEPT !.st = "starting", !.identity = i] /\ startedId' = None
  <2>1. SameReq(m, t) /\ SameShow(m, t) /\ t.st = "starting"
    BY <1>2, <1>6 DEF MainType, SameReq, SameShow
  <2>2. t.ks = m.ks /\ t.guard = m.guard /\ t.restart = m.restart /\ t.geo = m.geo /\ t.startWhenUp = m.startWhenUp
    BY <1>2, <1>6 DEF MainType
  <2>3. SameReq(m, t) /\ SameShow(m, t) /\ t.st = "starting" /\ t.ks = m.ks
          /\ t.guard = m.guard /\ t.restart = m.restart /\ t.geo = m.geo /\ t.startWhenUp \in {m.startWhenUp, startedId}
    BY <2>1, <2>2
  <2> QED BY <1>1, <1>6, <2>3 DEF t
<1>7. CASE t = GivenUp(m) /\ startedId' = None
  <2>1. GivenUpSays(m, t)
    BY <1>2, <1>7, GivenUpIs
  <2> QED BY <1>1, <1>7, <2>1 DEF t
<1> QED BY <1>1, <1>4, <1>5, <1>6, <1>7 DEF t

\* The core is replaced.
LEMMA RespawnIs ==
  ASSUME IInv, Respawn
  PROVE  /\ SameReq(m, m') /\ SameShow(m, m') /\ m'.st = "starting" /\ m'.ks = m.ks /\ m'.restart = "no"
         /\ m'.guard = m.guard /\ m'.startWhenUp = m.startWhenUp /\ m'.geo = m.geo
         /\ core' = NoCore /\ starters' = Lost(starters) /\ cores' = "idle"
<1> DEFINE i == m.ks # "Disabled"
           t == m'
<1>1. m \in MainType /\ i \in BOOLEAN /\ t = [m EXCEPT !.st = "starting", !.identity = i, !.restart = "no"]
  BY DEF IInv, TypeInv, Respawn
<1>2. core' = NoCore /\ starters' = Lost(starters) /\ cores' = "idle"
  BY DEF Respawn
<1> HIDE DEF i, t
<1>3. SameReq(m, t) /\ SameShow(m, t) /\ t.st = "starting" /\ t.ks = m.ks
  BY <1>1 DEF MainType, SameReq, SameShow
<1>4. t.restart = "no" /\ t.guard = m.guard /\ t.startWhenUp = m.startWhenUp /\ t.geo = m.geo
  BY <1>1 DEF MainType
<1> QED BY <1>2, <1>3, <1>4 DEF t

\* An answer depends on the counts only.
LEMMA FinishAnswers ==
  ASSUME NEW s \in MainType, NEW t \in MainType, NEW r \in StartRequest, s.answers = t.answers
  PROVE  Finish(s, r).answers = Finish(t, r).answers
<1> DEFINE f == Finish(s, r)
           g == Finish(t, r)
<1>1. FinishSays(s, f, r) /\ FinishSays(t, g, r)
  BY FinishIs
<1> HIDE DEF f, g
<1>2. f.answers = g.answers
  BY <1>1 DEF FinishSays
<1> QED BY <1>2 DEF f, g

\* A start that is asked gets the next serial.
LEMMA StartAskedIs ==
  ASSUME IInv, NEW p \in setup.profiles, StartAsked(p)
  PROVE  /\ stopped' = FALSE /\ UNCHANGED <<core, cores, stopper, running, startedId, posts, exiting, setup>>
         /\ m.issued < MaxRequests
         /\ \E s \in MainType, r \in StartRequest :
              /\ r.serial = m.issued + 1 /\ r.id \in Profile /\ s.issued = m.issued + 1
              /\ s.answers = m.answers /\ s.coreReq = m.coreReq /\ s.killReq = m.killReq
              /\ SameShow(m, s) /\ SameCore(m, s) /\ SameWait(m, s) /\ StartEnds(s, m', r, FALSE)
<1> DEFINE s == [m EXCEPT !.issued = @ + 1]
           r == [serial |-> m.issued + 1, id |-> p]
<1>1. /\ m.issued < MaxRequests /\ Start(s, r, FALSE) /\ stopped' = FALSE
      /\ UNCHANGED <<core, cores, stopper, running, startedId, posts, exiting, setup>>
  BY DEF StartAsked
<1>2. m \in MainType /\ m.issued \in 0 .. MaxRequests /\ MaxRequests \in Nat /\ p \in Profile
  BY BoundAssumption DEF IInv, TypeInv, MainType, Setup
<1>3. m.issued + 1 \in 0 .. MaxRequests
  BY <1>1, <1>2
<1>4. s \in MainType /\ s.issued = m.issued + 1 /\ s.answers = m.answers /\ s.coreReq = m.coreReq /\ s.killReq = m.killReq
  BY <1>2, <1>3 DEF MainType
<1>5. SameShow(m, s) /\ SameCore(m, s) /\ SameWait(m, s)
  BY <1>2 DEF MainType, SameShow, SameCore, SameWait
<1>6. r \in StartRequest /\ r.serial = m.issued + 1 /\ r.id \in Profile
  BY <1>2, <1>3 DEF StartRequest, ProfileOrNone
<1> HIDE DEF s, r
<1>7. StartEnds(s, m', r, FALSE)
  BY <1>1, <1>4, <1>6, StartIs
<1> QED BY <1>1, <1>4, <1>5, <1>6, <1>7

\* The sweep hands a request back.
LEMMA StartRankedIs ==
  ASSUME IInv, StartRanked
  PROVE  /\ UNCHANGED <<core, cores, stopper, running, startedId, posts, exiting, stopped, setup>>
         /\ \E r \in ranking : StartEnds(m, m', r, TRUE)
<1>1. PICK r \in ranking : Start(m, r, TRUE)
  BY DEF StartRanked
<1>2. r \in StartRequest /\ m \in MainType
  BY DEF IInv, TypeInv
<1>3. StartEnds(m, m', r, TRUE)
  BY <1>1, <1>2, StartIs
<1> QED BY <1>3 DEF StartRanked

\* The retry is dropped, or made as a request of the engine itself.
LEMMA RetryIs ==
  ASSUME IInv, RetryAfterGeoFetch
  PROVE  /\ UNCHANGED <<core, cores, stopper, running, startedId, posts, exiting, stopped, setup>>
         /\ m.geo # None /\ Own(m.geo) \in StartRequest
         /\ \E s \in MainType :
              /\ SameReq(m, s) /\ SameShow(m, s) /\ SameCore(m, s) /\ s.geo = None
              /\ s.guard = m.guard /\ s.restart = m.restart /\ s.startWhenUp = m.startWhenUp
              /\ \/ m' = s /\ UNCHANGED <<starters, ranking>>
                 \/ StartEnds(s, m', Own(m.geo), FALSE)
<1> DEFINE s == [m EXCEPT !.geoRetried = m.geo, !.geo = None]
<1>1. UNCHANGED <<core, cores, stopper, running, startedId, posts, exiting, stopped, setup>> /\ m.geo # None
  BY DEF RetryAfterGeoFetch
<1>2. m \in MainType /\ m.geo \in ProfileOrNone /\ Own(m.geo) \in StartRequest /\ None \in ProfileOrNone
  BY OwnOk DEF IInv, TypeInv, MainType
<1>3. (m' = s /\ UNCHANGED <<starters, ranking>>) \/ Start(s, Own(m.geo), FALSE)
  BY DEF RetryAfterGeoFetch
<1>4. s \in MainType /\ SameReq(m, s)
  BY <1>2 DEF MainType, SameReq
<1>5. SameShow(m, s) /\ SameCore(m, s)
  BY <1>2 DEF MainType, SameShow, SameCore
<1>6. s.geo = None /\ s.guard = m.guard /\ s.restart = m.restart /\ s.startWhenUp = m.startWhenUp
  BY <1>2 DEF MainType
<1> HIDE DEF s
<1>7. (m' = s /\ UNCHANGED <<starters, ranking>>) \/ StartEnds(s, m', Own(m.geo), FALSE)
  BY <1>2, <1>3, <1>4, StartIs
<1> QED BY <1>1, <1>2, <1>4, <1>5, <1>6, <1>7

\* The core that came up: the request that waited for it is gone from coreReq, answered if it was
\* superseded, in hand if not.
UpSays(s) ==
  /\ s \in MainType /\ SameShow(m, s) /\ s.st = "up" /\ s.identity = m.identity
  /\ s.ks = m.ks \/ s.ks = "Arming"
  /\ s.guard = FALSE /\ s.restart = m.restart /\ s.startWhenUp = None /\ s.geo = m.geo
  /\ s.issued = m.issued /\ s.coreReq = NoRequest /\ s.killReq = m.killReq
  /\ s.answers = IF m.coreReq.id # m.startWhenUp THEN Finish(m, m.coreReq).answers ELSE m.answers
LEMMA CoreStartedIs ==
  ASSUME IInv, onCoreStarted
  PROVE  /\ UNCHANGED <<core, cores, stopper, running, startedId, posts, exiting, stopped, setup>>
         /\ m.st = "probing" /\ m.restart = "no" /\ cores = "idle"
         /\ \E s \in MainType, q \in StartRequest :
              /\ UpSays(s) /\ q = IF m.coreReq.id = m.startWhenUp THEN m.coreReq ELSE Own(m.startWhenUp)
              /\ \/ m.startWhenUp = None /\ m' = s /\ UNCHANGED <<starters, ranking>>
                 \/ m.startWhenUp # None /\ m' = Finish(s, q) /\ UNCHANGED <<starters, ranking>>
                 \/ m.startWhenUp # None /\ StartEnds(s, m', q, FALSE)
<1> DEFINE id == m.startWhenUp
           next == IF m.coreReq.id = id THEN m.coreReq ELSE Own(id)
           a(k) == [m EXCEPT !.st = "up", !.guard = FALSE, !.startWhenUp = None, !.boot = 0, !.ks = k]
<1>1. /\ UNCHANGED <<core, cores, stopper, running, startedId, posts, exiting, stopped, setup>>
      /\ m.st = "probing" /\ m.restart = "no" /\ cores = "idle"
  BY DEF onCoreStarted, AwaitingCoreStarted
<1>2. m \in MainType /\ id \in ProfileOrNone /\ m.coreReq \in StartRequest /\ None \in ProfileOrNone
      /\ 0 \in 0 .. MaxRequests /\ m.ks \in {"Disabled", "Arming", "Armed", "Failed"}
  BY OwnOk, BoundAssumption DEF IInv, TypeInv, MainType
<1>3. next \in StartRequest
  BY <1>2, OwnOk
<1>4. PICK k \in {m.ks} \union (IF m.ks = "Failed" THEN {"Arming"} ELSE {}) :
        LET s == Adopted(a(k)) IN
        IF id = None THEN m' = s /\ UNCHANGED <<starters, ranking>>
        ELSE \/ /\ next.serial # 0 /\ next.serial = m.boot
                /\ m' = Finish(s, next) /\ UNCHANGED <<starters, ranking>>
             \/ Start(s, next, FALSE)
  BY DEF onCoreStarted
<1>5. k \in {"Disabled", "Arming", "Armed", "Failed"} /\ (k = m.ks \/ k = "Arming")
  BY <1>2
<1> DEFINE u == a(k)
           s == Adopted(u)
<1>6. u \in MainType /\ SameReq(m, u)
  <2> DEFINE v == [m EXCEPT !.st = "up", !.guard = FALSE]
             w == [v EXCEPT !.startWhenUp = None, !.boot = 0]
  <2>1. v \in MainType /\ SameReq(m, v)
    BY <1>2 DEF MainType, SameReq
  <2>2. u = [w EXCEPT !.ks = k]
    OBVIOUS
  <2> HIDE DEF v, u
  <2>3. w \in MainType /\ SameReq(v, w)
    BY <1>2, <2>1 DEF MainType, SameReq
  <2> HIDE DEF w
  <2>4. u \in MainType /\ SameReq(w, u)
    BY <1>5, <2>2, <2>3 DEF MainType, SameReq
  <2> QED BY <2>1, <2>3, <2>4 DEF SameReq
<1>7. SameShow(m, u) /\ u.st = "up" /\ u.identity = m.identity /\ u.ks = k
  BY <1>2, <1>5 DEF MainType, SameShow
<1>8. u.guard = FALSE /\ u.restart = m.restart /\ u.startWhenUp = None /\ u.geo = m.geo
  BY <1>2, <1>5 DEF MainType
<1>9. \/ id = None /\ m' = s /\ UNCHANGED <<starters, ranking>>
      \/ id # None /\ m' = Finish(s, next) /\ UNCHANGED <<starters, ranking>>
      \/ id # None /\ Start(s, next, FALSE)
  BY <1>4
<1> HIDE DEF u
<1>10. AdoptedSays(u, s)
  BY <1>6, AdoptedIs
<1>11. Finish(u, m.coreReq).answers = Finish(m, m.coreReq).answers
  BY <1>2, <1>6, FinishAnswers DEF SameReq
<1> HIDE DEF s
<1>12. UpSays(s)
  BY <1>5, <1>6, <1>7, <1>8, <1>10, <1>11 DEF AdoptedSays, UpSays, SameReq, SameShow, SameCore, SameWait
<1>13. s \in MainType
  BY <1>12 DEF UpSays
<1>14. \/ id = None /\ m' = s /\ UNCHANGED <<starters, ranking>>
       \/ id # None /\ m' = Finish(s, next) /\ UNCHANGED <<starters, ranking>>
       \/ id # None /\ StartEnds(s, m', next, FALSE)
  BY <1>3, <1>9, <1>13, StartIs
<1> QED BY <1>1, <1>3, <1>12, <1>13, <1>14

\* The kill switch has changed: armed, it may have posted a restart.
SwitchSays(k, t) ==
  /\ t \in MainType /\ SameShow(m, t) /\ t.st = m.st /\ t.identity = m.identity /\ t.ks = k
  /\ t.geo = m.geo /\ t.issued = m.issued /\ t.killReq = m.killReq
  /\ \/ /\ t.coreReq = m.coreReq /\ t.answers = m.answers
        /\ t.guard = m.guard /\ t.restart = m.restart /\ t.startWhenUp = m.startWhenUp
        /\ k = "Armed" => m.guard \/ ~RunningWithoutGuardIdentity(m)
     \/ /\ k = "Armed" /\ t.guard = TRUE /\ t.restart = "guard"
        /\ \/ /\ t.coreReq = m.coreReq /\ t.answers = m.answers
              /\ t.startWhenUp = m.coreReq.id /\ m.coreReq.id # None /\ m.startWhenUp # None
           \/ \E x \in {m.startWhenUp, startedId} :
                t.coreReq = Own(x) /\ t.answers = Finish(m, m.coreReq).answers /\ t.startWhenUp = x
LEMMA SwitchIs ==
  ASSUME IInv, NEW k \in {"Disabled", "Arming", "Armed", "Failed"}, KillSwitchChanges(k)
  PROVE  /\ UNCHANGED <<core, cores, stopper, running, startedId, posts, exiting, stopped>> /\ m.st # "new"
         /\ \E t \in MainType :
              /\ SwitchSays(k, t)
              /\ \/ m' = t /\ UNCHANGED <<starters, ranking>>
                 \/ /\ m.killReq # NoRequest
                    /\ \E u \in MainType :
                         /\ SameShow(t, u) /\ SameCore(t, u) /\ SameWait(t, u) /\ u.issued = t.issued
                         /\ u.answers = t.answers /\ u.coreReq = t.coreReq /\ u.killReq = NoRequest
                         /\ StartEnds(u, m', m.killReq, FALSE)
<1> DEFINE s == [m EXCEPT !.ks = k]
           t == IF k = "Armed" THEN ArmedRestart(s) ELSE s
           u == [t EXCEPT !.killReq = NoRequest]
<1>1. UNCHANGED <<core, cores, stopper, running, startedId, posts, exiting, stopped>> /\ m.st # "new"
  BY DEF KillSwitchChanges
<1>2. m \in MainType /\ startedId \in ProfileOrNone /\ m.killReq \in StartRequest /\ NoRequest \in StartRequest
      /\ m.coreReq \in StartRequest
  BY OwnOk DEF IInv, TypeInv, MainType
<1>3. \/ m' = t /\ UNCHANGED <<starters, ranking>>
      \/ m.killReq # NoRequest /\ Start(u, m.killReq, FALSE)
  BY DEF KillSwitchChanges
<1>4. s \in MainType /\ SameReq(m, s) /\ SameShow(m, s)
  BY <1>2 DEF MainType, SameReq, SameShow
<1>5. s.st = m.st /\ s.identity = m.identity /\ s.ks = k /\ SameWait(m, s)
  BY <1>2 DEF MainType, SameWait
<1> HIDE DEF s
<1>6. SwitchSays(k, t)
  <2>1. CASE t = s /\ (k = "Armed" => m.guard \/ ~RunningWithoutGuardIdentity(m))
    BY <1>4, <1>5, <2>1 DEF SwitchSays, SameReq, SameShow, SameWait
  <2>2. CASE k = "Armed" /\ t = ArmedRestart(s)
    <3> HIDE DEF t
    <3>1. ArmedSays(s, t)
      BY <1>2, <1>4, <2>2, ArmedRestartIs
    <3>2. Finish(s, s.coreReq).answers = Finish(m, m.coreReq).answers
      BY <1>2, <1>4, FinishAnswers DEF SameReq
    <3>3. s.startWhenUp = m.startWhenUp /\ s.coreReq = m.coreReq /\ s.answers = m.answers /\ s.guard = m.guard
      BY <1>4, <1>5 DEF SameReq, SameWait
    <3>4. CASE t = s /\ (s.guard \/ ~RunningWithoutGuardIdentity(s))
      <4>1. m.guard \/ ~RunningWithoutGuardIdentity(m)
        BY <1>5, <3>3, <3>4 DEF RunningWithoutGuardIdentity, CoreRunning
      <4> QED BY <2>1, <3>4, <4>1
    <3>5. CASE /\ t \in MainType /\ SameShow(s, t) /\ SameCore(s, t) /\ t.geo = s.geo
               /\ t.issued = s.issued /\ t.killReq = s.killReq /\ t.guard = TRUE /\ t.restart = "guard"
               /\ \/ /\ t.coreReq = s.coreReq /\ t.answers = s.answers /\ t.startWhenUp = s.coreReq.id
                     /\ s.coreReq.id # None /\ s.startWhenUp # None
                  \/ \E x \in {s.startWhenUp, startedId} :
                       t.coreReq = Own(x) /\ t.answers = Finish(s, s.coreReq).answers /\ t.startWhenUp = x
      <4>1. /\ t \in MainType /\ SameShow(m, t) /\ t.st = m.st /\ t.identity = m.identity /\ t.ks = k
            /\ t.geo = m.geo /\ t.issued = m.issued /\ t.killReq = m.killReq
        BY <1>4, <1>5, <3>5 DEF SameReq, SameShow, SameCore, SameWait
      <4>2. \/ /\ t.coreReq = m.coreReq /\ t.answers = m.answers
               /\ t.startWhenUp = m.coreReq.id /\ m.coreReq.id # None /\ m.startWhenUp # None
            \/ \E x \in {m.startWhenUp, startedId} :
                 t.coreReq = Own(x) /\ t.answers = Finish(m, m.coreReq).answers /\ t.startWhenUp = x
        BY <3>2, <3>3, <3>5
      <4> QED BY <2>2, <3>5, <4>1, <4>2 DEF SwitchSays
    <3> QED BY <3>1, <3>4, <3>5 DEF ArmedSays
  <2> QED BY <2>1, <2>2
<1> HIDE DEF t
<1>7. t \in MainType
  BY <1>6 DEF SwitchSays
<1>8. u \in MainType /\ SameShow(t, u) /\ SameCore(t, u)
  BY <1>2, <1>7 DEF MainType, SameShow, SameCore
<1>9. SameWait(t, u) /\ u.issued = t.issued /\ u.answers = t.answers /\ u.coreReq = t.coreReq /\ u.killReq = NoRequest
  BY <1>2, <1>7 DEF MainType, SameWait
<1> HIDE DEF u
<1>10. \/ m' = t /\ UNCHANGED <<starters, ranking>>
       \/ m.killReq # NoRequest /\ StartEnds(u, m', m.killReq, FALSE)
  BY <1>2, <1>3, <1>8, StartIs
<1> QED BY <1>1, <1>6, <1>7, <1>8, <1>9, <1>10

-----------------------------------------------------------------------------
(* A stop of the user is honoured. *)

\* Every request names a profile, but for the absent one.
RequestsName ==
  /\ \A w \in starters : w.req.id # None
  /\ \A r \in ranking : r.id # None
  /\ m.killReq.id = None => m.killReq = NoRequest
  /\ m.coreReq.id = None => m.coreReq = NoRequest

\* After a stop that found nothing in the works, there is nothing that a core that comes up, the kill
\* switch or a geo download could start: not until a start is asked.
AfterStop ==
  stopped => /\ running = None /\ startedId = None /\ starters = {} /\ ranking = {}
             /\ m.coreReq = NoRequest /\ m.killReq = NoRequest
             /\ m.geo = None /\ m.startWhenUp = None /\ m.st # "new"

\* start() with a profile.
LEMMA StartNames ==
  ASSUME IInv, RequestsName, NEW s \in MainType, NEW r \in StartRequest, NEW b \in BOOLEAN, StartEnds(s, m', r, b),
         r.id # None, s.killReq.id = None => s.killReq = NoRequest, s.coreReq.id = None => s.coreReq = NoRequest
  PROVE  RequestsName'
<1>1. \A w \in starters' : w.req.id # None
  <2>1. starters' = starters \/ starters' = {NewStarter(r)}
    BY DEF StartEnds, StartAnswers, StartHolds, StartDefers, StartRanks, StartLaunches
  <2>2. NewStarter(r).req = r
    BY DEF NewStarter
  <2> QED BY <2>1, <2>2 DEF RequestsName
<1>2. \A q \in ranking' : q.id # None
  BY DEF StartEnds, HeldAfter, RequestsName
<1>3. m'.killReq \in {s.killReq, r} /\ m'.coreReq \in {s.coreReq, r}
  BY DEF StartEnds, StartAnswers, StartHolds, StartDefers, StartRanks, StartLaunches
<1> QED BY <1>1, <1>2, <1>3 DEF RequestsName

\* The absent request is the engine's own for no profile.
LEMMA OwnIs == \A x : Own(x).id = x /\ Own(x).serial = 0 /\ (x = None => Own(x) = NoRequest)
  BY DEF Own, NoRequest

\* Every step keeps the names.
LEMMA NextNames == ASSUME IInv, RequestsName, [Next]_vars PROVE RequestsName'
<1>0. None \notin Profile /\ m \in MainType
  BY ProfileAssumption DEF IInv, TypeInv
<1>1. CASE UNCHANGED vars
  BY <1>1 DEF vars, RequestsName
<1>2. ASSUME NEW p \in setup.profiles, StartAsked(p) PROVE RequestsName'
  <2>1. PICK s \in MainType, r \in StartRequest :
          r.id \in Profile /\ s.coreReq = m.coreReq /\ s.killReq = m.killReq /\ StartEnds(s, m', r, FALSE)
    BY <1>2, StartAskedIs
  <2> QED BY <1>0, <2>1, StartNames DEF RequestsName
<1>3. CASE StartRanked
  <2>1. PICK r \in ranking : StartEnds(m, m', r, TRUE)
    BY <1>3, StartRankedIs
  <2>2. r \in StartRequest
    BY DEF IInv, TypeInv
  <2> QED BY <1>0, <2>1, <2>2, StartNames DEF RequestsName
<1>4. CASE RetryAfterGeoFetch
  <2>1. PICK s \in MainType :
          /\ SameReq(m, s)
          /\ (m' = s /\ UNCHANGED <<starters, ranking>>) \/ StartEnds(s, m', Own(m.geo), FALSE)
    BY <1>4, RetryIs
  <2>2. m.geo # None /\ Own(m.geo) \in StartRequest
    BY <1>4, RetryIs
  <2>3. CASE m' = s /\ UNCHANGED <<starters, ranking>>
    BY <2>1, <2>3 DEF SameReq, RequestsName
  <2>4. CASE StartEnds(s, m', Own(m.geo), FALSE)
    BY <2>1, <2>2, <2>4, StartNames, OwnIs DEF SameReq, RequestsName
  <2> QED BY <2>1, <2>3, <2>4
<1>5. CASE StarterSteps
  <2>1. PICK w \in starters :
          \/ StarterBegins(w) \/ InstallGuard(w) \/ StarterLooks(w) \/ StarterStops(w) \/ StarterWaits(w)
          \/ StartAnswered(w) \/ StartTimesOut(w) \/ CommitOtp(w) \/ StarterRecords(w) \/ ReleaseGuard(w)
    BY <1>5 DEF StarterSteps
  <2>2. SameReq(m, m') /\ ranking' = ranking
    BY <2>1, StarterIs
  <2>3. \A v \in starters' : v.req.id # None
    <3>1. CASE ReleaseGuard(w)
      BY <3>1, ReleaseIs
    <3>2. CASE ~ReleaseGuard(w)
      <4>1. PICK v \in StarterType : starters = {w} /\ starters' = {v} /\ v.req = w.req
        BY <2>1, <3>2, StarterMoves
      <4> QED BY <4>1 DEF RequestsName
    <3> QED BY <3>1, <3>2
  <2> QED BY <2>2, <2>3 DEF SameReq, RequestsName
<1>6. ASSUME NEW manual \in BOOLEAN, StopAsked(manual) PROVE RequestsName'
  <2>1. SameReq(m, m') /\ ranking' = ranking /\ starters' = starters
    BY <1>6, StopAskedIs DEF StopAsked
  <2> QED BY <2>1 DEF SameReq, RequestsName
<1>7. CASE OwedStartRuns \/ StopRpc \/ StopClears \/ CleanUp
  BY <1>7 DEF OwedStartRuns, StopRpc, StopClears, CleanUp, RequestsName
<1>9. CASE StopTornDown
  <2>1. SameReq(m, m') /\ ranking' = ranking /\ starters' = starters
    BY <1>9, TornDownIs DEF StopTornDown
  <2> QED BY <2>1 DEF SameReq, RequestsName
<1>10. CASE HandlePost
  <2>1. m'.killReq = m.killReq /\ m'.coreReq = m.coreReq
    BY <1>10, HandlePostIs DEF PostSays, SameReq
  <2>2. ranking' = ranking /\ starters' = starters
    BY <1>10 DEF HandlePost
  <2> QED BY <2>1, <2>2 DEF RequestsName
<1>11. CASE SupervisorStarts
  <2>1. m'.killReq = m.killReq /\ (m'.coreReq = m.coreReq \/ m'.coreReq.id \in Profile)
    BY <1>11, SupervisorStartsIs DEF SameReq
  <2>2. ranking' = ranking /\ starters' = starters
    BY <1>11 DEF SupervisorStarts
  <2> QED BY <1>0, <2>1, <2>2 DEF RequestsName
<1>12. CASE CoreAccepted
  <2>1. m' = [m EXCEPT !.st = "probing"] /\ ranking' = ranking /\ starters' = starters
    BY <1>12 DEF CoreAccepted
  <2>2. SameReq(m, m')
    BY <1>0, <2>1, CoreIs
  <2> QED BY <2>1, <2>2 DEF SameReq, RequestsName
<1>13. CASE onCoreGaveUp
  <2>1. m' = GivenUp(m) /\ ranking' = ranking /\ starters' = starters
    BY <1>13 DEF onCoreGaveUp
  <2>2. GivenUpSays(m, m')
    BY <1>0, <2>1, GivenUpIs
  <2> QED BY <2>1, <2>2 DEF GivenUpSays, RequestsName
<1>14. CASE onCoreStarted
  <2>1. PICK s \in MainType, q \in StartRequest :
          /\ UpSays(s) /\ q = IF m.coreReq.id = m.startWhenUp THEN m.coreReq ELSE Own(m.startWhenUp)
          /\ \/ m.startWhenUp = None /\ m' = s /\ UNCHANGED <<starters, ranking>>
             \/ m.startWhenUp # None /\ m' = Finish(s, q) /\ UNCHANGED <<starters, ranking>>
             \/ m.startWhenUp # None /\ StartEnds(s, m', q, FALSE)
    BY <1>14, CoreStartedIs
  <2>2. s.coreReq = NoRequest /\ s.killReq = m.killReq
    BY <2>1 DEF UpSays
  <2>3. CASE m' = s /\ UNCHANGED <<starters, ranking>>
    BY <2>2, <2>3 DEF RequestsName
  <2>4. CASE m' = Finish(s, q) /\ UNCHANGED <<starters, ranking>>
    <3>1. FinishSays(s, m', q)
      BY <2>4, FinishIs
    <3> QED BY <2>2, <2>4, <3>1 DEF FinishSays, RequestsName
  <2>5. CASE m.startWhenUp # None /\ StartEnds(s, m', q, FALSE)
    <3>1. q.id # None
      BY <2>1, <2>5, OwnIs
    <3> QED BY <2>2, <2>5, <3>1, StartNames DEF RequestsName
  <2> QED BY <2>1, <2>3, <2>4, <2>5
<1>15. CASE CoreDies
  <2>1. m' = [m EXCEPT !.st = "dead"] /\ ranking' = ranking /\ starters' = Lost(starters)
    BY <1>15 DEF CoreDies
  <2>2. SameReq(m, m')
    BY <1>0, <2>1, CoreIs
  <2>3. \A v \in starters' : v.req.id # None
    BY <2>1, LostIs DEF RequestsName
  <2> QED BY <2>1, <2>2, <2>3 DEF SameReq, RequestsName
<1>16. CASE CoreExited
  <2>1. m'.killReq = m.killReq /\ m'.coreReq \in {m.coreReq, NoRequest}
    BY <1>16, CoreExitedIs DEF SameReq, GivenUpSays
  <2>2. ranking' = ranking /\ starters' = starters
    BY <1>16 DEF CoreExited
  <2> QED BY <2>1, <2>2 DEF RequestsName
<1>17. ASSUME Respawn, ranking' = ranking PROVE RequestsName'
  <2>1. SameReq(m, m') /\ starters' = Lost(starters)
    BY <1>17, RespawnIs
  <2>2. \A v \in starters' : v.req.id # None
    BY <2>1, LostIs DEF RequestsName
  <2> QED BY <1>17, <2>1, <2>2 DEF SameReq, RequestsName
<1>18. CASE TakeRestart \/ RestartStopped
  <2>1. ranking' = ranking /\ (Respawn \/ UNCHANGED <<m, starters>>)
    BY <1>18 DEF TakeRestart, RestartStopped
  <2> QED BY <1>17, <2>1 DEF RequestsName
<1>19. ASSUME NEW k \in {"Disabled", "Arming", "Armed", "Failed"}, KillSwitchChanges(k) PROVE RequestsName'
  <2>1. PICK t \in MainType :
          /\ SwitchSays(k, t)
          /\ \/ m' = t /\ UNCHANGED <<starters, ranking>>
             \/ /\ m.killReq # NoRequest
                /\ \E u \in MainType :
                     u.coreReq = t.coreReq /\ u.killReq = NoRequest /\ StartEnds(u, m', m.killReq, FALSE)
    BY <1>19, SwitchIs
  <2>2. t.killReq = m.killReq /\ (t.coreReq.id = None => t.coreReq = NoRequest)
    BY <2>1, OwnIs DEF SwitchSays, RequestsName
  <2>3. CASE m' = t /\ UNCHANGED <<starters, ranking>>
    BY <2>2, <2>3 DEF RequestsName
  <2>4. ASSUME m.killReq # NoRequest, NEW u \in MainType, u.coreReq = t.coreReq, u.killReq = NoRequest,
               StartEnds(u, m', m.killReq, FALSE)
        PROVE  RequestsName'
    <3>1. m.killReq \in StartRequest /\ m.killReq.id # None
      BY <1>0, <2>4 DEF MainType, RequestsName
    <3> QED BY <2>2, <2>4, <3>1, StartNames
  <2> QED BY <2>1, <2>3, <2>4
<1>20. CASE GuardWindowExpires
  <2>1. SameReq(m, m') /\ ranking' = ranking /\ starters' = starters
    BY <1>20, WindowIs
  <2> QED BY <2>1 DEF SameReq, RequestsName
<1>21. CASE PrepareExit
  <2>1. SameReq(m, m') /\ ranking' = ranking /\ starters' = starters
    BY <1>21, ExitIs DEF SameReq
  <2> QED BY <2>1 DEF SameReq, RequestsName
<1>22. CASE Rests
  BY <1>1, <1>22 DEF Rests
<1> QED
  BY <1>1, <1>2, <1>3, <1>4, <1>5, <1>6, <1>7, <1>9, <1>10, <1>11, <1>12, <1>13, <1>14, <1>15,
     <1>16, <1>18, <1>19, <1>20, <1>21, <1>22 DEF Next

\* Every step keeps what follows a stop.
LEMMA NextAfterStop == ASSUME IInv, AfterStop, [Next]_vars PROVE AfterStop'
<1> SUFFICES ASSUME stopped'
             PROVE  /\ running' = None /\ startedId' = None /\ starters' = {} /\ ranking' = {}
                    /\ m'.coreReq = NoRequest /\ m'.killReq = NoRequest
                    /\ m'.geo = None /\ m'.startWhenUp = None /\ m'.st # "new"
  BY DEF AfterStop
<1> DEFINE Nothing == /\ running = None /\ startedId = None /\ starters = {} /\ ranking = {}
                      /\ m.coreReq = NoRequest /\ m.killReq = NoRequest
                      /\ m.geo = None /\ m.startWhenUp = None /\ m.st # "new"
<1>0. m \in MainType /\ stopped \in BOOLEAN /\ NoRequest.id = None
  BY OwnIs DEF IInv, TypeInv
<1>a. stopped => Nothing
  BY DEF AfterStop
<1> HIDE DEF Nothing
<1>1. CASE UNCHANGED vars
  BY <1>1, <1>a DEF vars, Nothing
<1>2. ASSUME NEW p \in setup.profiles, StartAsked(p) PROVE FALSE
  BY <1>2 DEF StartAsked
<1>3. CASE StartRanked \/ RetryAfterGeoFetch \/ StarterSteps
  <2>1. stopped
    <3>1. CASE StarterSteps
      BY <3>1, StarterIs DEF StarterSteps
    <3> QED BY <1>3, <3>1 DEF StartRanked, RetryAfterGeoFetch
  <2>2. ranking # {} \/ m.geo # None \/ starters # {}
    BY <1>3 DEF StartRanked, RetryAfterGeoFetch, StarterSteps
  <2> QED BY <1>a, <2>1, <2>2 DEF Nothing
<1>6. ASSUME NEW manual \in BOOLEAN, StopAsked(manual) PROVE Nothing'
  <2>1. /\ manual /\ running = None /\ starters = {} /\ ranking = {} /\ m.coreReq = NoRequest /\ m.killReq = NoRequest
        /\ running' = running /\ starters' = starters /\ ranking' = ranking /\ m.st # "new"
    BY <1>6 DEF StopAsked, Asked
  <2>2. SameReq(m, m') /\ SameCore(m, m') /\ m'.geo = None /\ m'.startWhenUp = None /\ startedId' = None
    BY <1>6, <2>1, StopAskedIs
  <2> QED BY <2>1, <2>2 DEF SameReq, SameCore, Nothing
<1>7. CASE OwedStartRuns \/ StopRpc \/ StopClears \/ CleanUp
  <2>1. /\ stopped /\ running' \in {running, None} /\ startedId' \in {startedId, None}
        /\ UNCHANGED <<m, starters, ranking>>
    BY <1>7 DEF OwedStartRuns, StopRpc, StopClears, CleanUp
  <2> QED BY <1>a, <2>1 DEF Nothing
<1>9. CASE StopTornDown
  <2>1. SameReq(m, m') /\ SameCore(m, m') /\ SameWait(m, m')
    BY <1>9, TornDownIs
  <2>2. stopped /\ UNCHANGED <<running, startedId, starters, ranking>>
    BY <1>9 DEF StopTornDown
  <2> QED BY <1>a, <2>1, <2>2 DEF Nothing, SameReq, SameCore, SameWait
<1>10. CASE HandlePost
  <2>1. stopped /\ UNCHANGED <<running, starters, ranking>>
    BY <1>10 DEF HandlePost
  <2>2. /\ m'.coreReq = m.coreReq /\ m'.killReq = m.killReq /\ m'.st = m.st /\ m'.geo = m.geo
        /\ m'.startWhenUp \in {m.startWhenUp, None} /\ startedId' \in {startedId, None}
    BY <1>10, HandlePostIs DEF PostSays, SameReq, SameCore, SameWait
  <2> QED BY <1>a, <2>1, <2>2 DEF Nothing
<1>11. CASE SupervisorStarts
  <2>1. stopped /\ m.st = "new"
    BY <1>11 DEF SupervisorStarts
  <2> QED BY <1>a, <2>1 DEF Nothing
<1>12. CASE CoreAccepted
  <2>1. m' = [m EXCEPT !.st = "probing"] /\ stopped /\ UNCHANGED <<running, startedId, starters, ranking>>
    BY <1>12 DEF CoreAccepted
  <2>2. SameReq(m, m') /\ SameWait(m, m') /\ m'.st = "probing"
    BY <1>0, <2>1, CoreIs
  <2> QED BY <1>a, <2>1, <2>2 DEF Nothing, SameReq, SameWait
<1>13. CASE onCoreGaveUp
  <2>1. m' = GivenUp(m) /\ stopped /\ startedId' = None /\ UNCHANGED <<running, starters, ranking>>
    BY <1>13 DEF onCoreGaveUp
  <2>2. GivenUpSays(m, m')
    BY <1>0, <2>1, GivenUpIs
  <2> QED BY <1>a, <2>1, <2>2 DEF Nothing, GivenUpSays
<1>14. CASE onCoreStarted
  <2>1. stopped /\ UNCHANGED <<running, startedId>>
    BY <1>14 DEF onCoreStarted
  <2>2. m.startWhenUp = None
    BY <1>a, <2>1 DEF Nothing
  <2>3. UpSays(m') /\ UNCHANGED <<starters, ranking>>
    BY <1>14, <2>2, CoreStartedIs
  <2> QED BY <1>a, <2>1, <2>3 DEF Nothing, UpSays
<1>15. CASE CoreDies
  <2>1. /\ m' = [m EXCEPT !.st = "dead"] /\ stopped /\ UNCHANGED <<running, startedId, ranking>>
        /\ starters' = Lost(starters)
    BY <1>15 DEF CoreDies
  <2>2. SameReq(m, m') /\ SameWait(m, m') /\ m'.st = "dead"
    BY <1>0, <2>1, CoreIs
  <2> QED BY <1>a, <2>1, <2>2, LostIs DEF Nothing, SameReq, SameWait
<1>16. CASE CoreExited
  <2>1. stopped /\ UNCHANGED <<running, starters, ranking>>
    BY <1>16 DEF CoreExited
  <2>2. /\ m'.coreReq \in {m.coreReq, NoRequest} /\ m'.killReq = m.killReq /\ m'.st \in {m.st, "starting", "gaveUp"}
        /\ m'.geo = m.geo /\ m'.startWhenUp \in {m.startWhenUp, startedId, None} /\ startedId' \in {startedId, None}
    BY <1>16, CoreExitedIs DEF SameReq, GivenUpSays
  <2> QED BY <1>a, <2>1, <2>2 DEF Nothing
<1>17. CASE TakeRestart \/ RestartStopped
  <2>1. stopped /\ UNCHANGED <<running, startedId, ranking>> /\ (Respawn \/ UNCHANGED <<m, starters>>)
    BY <1>17 DEF TakeRestart, RestartStopped
  <2>2. CASE UNCHANGED <<m, starters>>
    BY <1>a, <2>1, <2>2 DEF Nothing
  <2>3. CASE Respawn
    <3>1. /\ SameReq(m, m') /\ m'.st = "starting" /\ m'.startWhenUp = m.startWhenUp /\ m'.geo = m.geo
          /\ starters' = Lost(starters)
      BY <2>3, RespawnIs
    <3> QED BY <1>a, <2>1, <3>1, LostIs DEF Nothing, SameReq
  <2> QED BY <2>1, <2>2, <2>3
<1>19. ASSUME NEW k \in {"Disabled", "Arming", "Armed", "Failed"}, KillSwitchChanges(k) PROVE Nothing'
  <2>1. stopped /\ UNCHANGED <<running, startedId>>
    BY <1>19 DEF KillSwitchChanges
  <2>2. Nothing
    BY <1>a, <2>1
  <2>3. SwitchSays(k, m') /\ UNCHANGED <<starters, ranking>>
    BY <1>19, <2>2, SwitchIs DEF Nothing
  <2>4. m'.coreReq = NoRequest /\ m'.startWhenUp = None
    BY <1>0, <2>2, <2>3, OwnIs DEF Nothing, SwitchSays
  <2>5. m'.killReq = m.killReq /\ m'.geo = m.geo /\ m'.st = m.st
    BY <2>3 DEF SwitchSays
  <2> QED BY <2>1, <2>2, <2>3, <2>4, <2>5 DEF Nothing
<1>20. CASE GuardWindowExpires
  <2>1. stopped
    BY <1>20 DEF GuardWindowExpires
  <2> QED BY <1>20, <1>a, <2>1, WindowIs DEF Nothing, SameReq, SameCore
<1>21. CASE PrepareExit
  <2>1. stopped
    BY <1>21 DEF PrepareExit
  <2>2. m' = m /\ UNCHANGED <<running, startedId, starters, ranking>>
    BY <1>21, <1>a, <2>1, ExitIs DEF Nothing
  <2> QED BY <1>a, <2>1, <2>2 DEF Nothing
<1>22. CASE Rests
  BY <1>1, <1>22 DEF Rests
<1> QED
  BY <1>1, <1>2, <1>3, <1>6, <1>7, <1>9, <1>10, <1>11, <1>12, <1>13, <1>14, <1>15,
     <1>16, <1>17, <1>19, <1>20, <1>21, <1>22 DEF Next, Nothing

\* A user's stop that found nothing in the works is honoured until a start is asked.
LEMMA StopsAreHonoured == Spec => [](AfterStop /\ RequestsName)
<1>1. Init => IInv /\ AfterStop /\ RequestsName
  BY InitIInv, OwnIs DEF Init, AfterStop, RequestsName, NoRequest
<1>2. IInv /\ AfterStop /\ RequestsName /\ [Next]_vars => IInv' /\ AfterStop' /\ RequestsName'
  BY NextIInv, NextAfterStop, NextNames
<1> QED BY <1>1, <1>2, PTL DEF Spec

-----------------------------------------------------------------------------
(* No profile is left in a core without the guard identity. *)

\* Whatever the core runs or owes, or a worker may still start in it, was launched over an earlier core.
LateOnly ==
  /\ core.loaded # None => core.late
  /\ \A w \in starters : w.late
  /\ \A s \in core.owed : s.late

\* For the main thread's fields s: a core that is not running runs nothing and has only overtaken
\* workers; so has one that is probed; a core that is up and being restarted for the guard has its
\* restart posted; and an armed guard tolerates a core without its identity only with overtaken
\* workers.
Identity(s) ==
  /\ ~CoreRunning(s) => core.loaded = None /\ LateOnly
  /\ s.st = "probing" /\ s.restart = "no" => LateOnly
  /\ s.st = "up" /\ s.guard => s.restart # "no"
  /\ s.ks = "Armed" /\ ~s.identity /\ s.restart = "no" => LateOnly
\* DS_cores cleans up after a core that is dead.
DeadInv == cores \in {"died", "diedStop", "report"} => m.st = "dead"
IdentityInv == Identity(m) /\ DeadInv

\* start() launches no worker into a core that has to be restarted, or that is probed.
LEMMA StartIdentity ==
  ASSUME NEW s \in MainType, NEW r \in StartRequest, NEW b \in BOOLEAN, StartEnds(s, m', r, b), Identity(s),
         core' = core
  PROVE  Identity(m)'
<1>1. SameCore(s, m') /\ m' \in MainType
  BY DEF StartEnds
<1>2. CASE StartLaunches(s, m', r)
  <2>1. /\ m'.guard = s.guard /\ m'.restart = s.restart /\ CoreRunning(s) /\ ~(s.st = "probing" /\ s.restart = "no")
        /\ ~(s.ks = "Armed" /\ ~s.identity)
    BY <1>2 DEF StartLaunches, AwaitingCoreStarted
  <2> QED BY <1>1, <2>1 DEF Identity, SameCore, CoreRunning
<1>3. CASE ~StartLaunches(s, m', r)
  <2>1. /\ starters' = starters /\ (m'.restart = "no" => s.restart = "no")
        /\ m'.guard => s.guard \/ m'.restart # "no"
    BY <1>3 DEF StartEnds, StartAnswers, StartHolds, StartDefers, StartRanks
  <2>2. LateOnly' <=> LateOnly
    BY <2>1 DEF LateOnly
  <2>3. m'.st = "up" /\ m'.guard => m'.restart # "no"
    BY <1>1, <2>1 DEF Identity, SameCore
  <2> QED BY <1>1, <2>1, <2>2, <2>3 DEF Identity, SameCore, CoreRunning
<1> QED BY <1>2, <1>3

\* A step that changes nothing of the supervisor's fields, and starts nothing.
LEMMA SameIdentity ==
  ASSUME NEW s, Identity(s), SameCore(s, m'), m'.guard => s.guard, m'.restart = s.restart,
         core.loaded = None => core'.loaded = None, LateOnly => LateOnly'
  PROVE  Identity(m)'
  BY DEF Identity, SameCore, CoreRunning

\* What a worker does in the core.
LEMMA StarterLoads ==
  ASSUME IInv, NEW w \in starters,
         \/ StarterBegins(w) \/ InstallGuard(w) \/ StarterLooks(w) \/ StarterStops(w) \/ StarterWaits(w)
         \/ StartAnswered(w) \/ StartTimesOut(w) \/ CommitOtp(w) \/ StarterRecords(w) \/ ReleaseGuard(w)
  PROVE  /\ \/ SameBox(core, core')
            \/ w.pc \in {"rpc", "accepted"} /\ core'.loaded = None
            \/ w.pc = "rpc" /\ CoreRunning(m) /\ core'.loaded = w.req.id /\ core'.late = w.late /\ core.loaded = None
         /\ \A s \in core'.owed : s \in core.owed \/ s.late = w.late
<1>0. core \in CoreType /\ setup \in Setup /\ w \in StarterType
  BY DEF IInv, TypeInv
<1>1. CASE StartTimesOut(w)
  BY <1>0, <1>1, TimedOutIs DEF SameBox
<1>2. CASE ReleaseGuard(w)
  BY <1>2, ReleaseIs
<1>3. CASE ~StartTimesOut(w) /\ ~ReleaseGuard(w)
  <2>1. \/ core' = core
        \/ core' = [core EXCEPT !.filter = TRUE]
        \/ w.pc = "accepted" /\ core' = [core EXCEPT !.loaded = None]
        \/ w.pc = "rpc" /\ core' = Unpublished(core)
        \/ w.pc = "rpc" /\ CoreRunning(m) /\ core.loaded = None /\ core' = [core EXCEPT !.loaded = w.req.id, !.late = w.late]
    BY <1>3 DEF StarterBegins, InstallGuard, StarterLooks, StarterStops, StarterWaits, StartAnswered, CommitOtp,
                StarterRecords, Accepted, Refuses
  <2>2. CASE core' = core
    BY <2>2 DEF SameBox
  <2>3. CASE core' = [core EXCEPT !.filter = TRUE]
    BY <1>0, <2>3 DEF CoreType, SameBox
  <2>4. CASE w.pc = "accepted" /\ core' = [core EXCEPT !.loaded = None]
    BY <1>0, <2>4 DEF CoreType
  <2>5. CASE w.pc = "rpc" /\ core' = Unpublished(core)
    BY <1>0, <2>5, UnpublishedIs
  <2>6. CASE /\ w.pc = "rpc" /\ CoreRunning(m) /\ core.loaded = None
             /\ core' = [core EXCEPT !.loaded = w.req.id, !.late = w.late]
    <3>1. core'.loaded = w.req.id /\ core'.late = w.late /\ core'.owed = core.owed
      BY <1>0, <2>6 DEF CoreType
    <3> QED BY <2>6, <3>1
  <2> QED BY <2>1, <2>2, <2>3, <2>4, <2>5, <2>6
<1> QED BY <1>1, <1>2, <1>3

\* The death or the replacement of the core leaves overtaken workers only.
LEMMA LostIdentity ==
  ASSUME IInv, core' = NoCore, starters' = Lost(starters), m'.st \in {"dead", "starting"}
  PROVE  Identity(m)'
<1>1. core'.loaded = None /\ core'.owed = {}
  BY DEF NoCore
<1>2. \A v \in starters' : v.late
  BY LostIs
<1> QED BY <1>1, <1>2 DEF Identity, LateOnly, CoreRunning

\* Every step keeps it.
LEMMA NextIdentity == ASSUME IInv, IdentityInv, [Next]_vars PROVE IdentityInv'
<1>0. m \in MainType /\ core \in CoreType
  BY DEF IInv, TypeInv
<1>1. CASE UNCHANGED vars
  BY <1>1 DEF vars, IdentityInv, Identity, LateOnly, DeadInv, CoreRunning
<1>2. ASSUME NEW p \in setup.profiles, StartAsked(p) PROVE IdentityInv'
  <2>1. PICK s \in MainType, r \in StartRequest : SameCore(m, s) /\ SameWait(m, s) /\ StartEnds(s, m', r, FALSE)
    BY <1>2, StartAskedIs
  <2>2. core' = core /\ cores' = cores
    BY <1>2, StartAskedIs
  <2>3. Identity(s)
    BY <2>1 DEF IdentityInv, Identity, SameCore, SameWait, CoreRunning
  <2>4. m'.st = m.st
    BY <2>1 DEF StartEnds, SameCore
  <2> QED BY <2>1, <2>2, <2>3, <2>4, StartIdentity DEF IdentityInv, DeadInv
<1>3. CASE StartRanked
  <2>1. PICK r \in ranking : StartEnds(m, m', r, TRUE)
    BY <1>3, StartRankedIs
  <2>2. r \in StartRequest /\ core' = core /\ cores' = cores
    BY <1>3 DEF IInv, TypeInv, StartRanked
  <2>3. m'.st = m.st
    BY <2>1 DEF StartEnds, SameCore
  <2> QED BY <1>0, <2>1, <2>2, <2>3, StartIdentity DEF IdentityInv, DeadInv
<1>4. CASE RetryAfterGeoFetch
  <2>1. PICK s \in MainType :
          /\ SameCore(m, s) /\ s.guard = m.guard /\ s.restart = m.restart
          /\ (m' = s /\ UNCHANGED <<starters, ranking>>) \/ StartEnds(s, m', Own(m.geo), FALSE)
    BY <1>4, RetryIs
  <2>2. Own(m.geo) \in StartRequest /\ core' = core /\ cores' = cores
    BY <1>4, RetryIs
  <2>3. Identity(s)
    BY <2>1 DEF IdentityInv, Identity, SameCore, CoreRunning
  <2>4. m'.st = m.st
    BY <2>1 DEF StartEnds, SameCore
  <2>5. CASE m' = s /\ UNCHANGED <<starters, ranking>>
    BY <2>2, <2>3, <2>4, <2>5 DEF IdentityInv, Identity, LateOnly, DeadInv, CoreRunning
  <2>6. CASE StartEnds(s, m', Own(m.geo), FALSE)
    BY <2>2, <2>3, <2>4, <2>6, StartIdentity DEF IdentityInv, DeadInv
  <2> QED BY <2>1, <2>5, <2>6
<1>5. CASE StarterSteps
  <2>1. PICK w \in starters :
          \/ StarterBegins(w) \/ InstallGuard(w) \/ StarterLooks(w) \/ StarterStops(w) \/ StarterWaits(w)
          \/ StartAnswered(w) \/ StartTimesOut(w) \/ CommitOtp(w) \/ StarterRecords(w) \/ ReleaseGuard(w)
    BY <1>5 DEF StarterSteps
  <2>2. SameCore(m, m') /\ m'.guard = m.guard /\ m'.restart = m.restart /\ cores' = cores
    BY <2>1, StarterIs
  <2>3. (\A v \in starters : v.late) => (\A v \in starters' : v.late)
    <3>1. CASE ReleaseGuard(w)
      BY <3>1, ReleaseIs
    <3>2. CASE ~ReleaseGuard(w)
      <4>1. PICK v \in StarterType : starters = {w} /\ starters' = {v} /\ v.late = w.late
        BY <2>1, <3>2, StarterMoves
      <4> QED BY <4>1
    <3> QED BY <3>1, <3>2
  <2>4. /\ \/ SameBox(core, core')
           \/ core'.loaded = None
           \/ CoreRunning(m) /\ core'.late = w.late
        /\ \A s \in core'.owed : s \in core.owed \/ s.late = w.late
    BY <2>1, StarterLoads
  <2>5. LateOnly => LateOnly'
    BY <2>3, <2>4 DEF LateOnly, SameBox
  <2>6. Identity(m)'
    BY <2>2, <2>4, <2>5 DEF IdentityInv, Identity, SameCore, SameBox, CoreRunning
  <2> QED BY <2>2, <2>6 DEF IdentityInv, DeadInv, SameCore
<1>6. ASSUME NEW manual \in BOOLEAN, StopAsked(manual) PROVE IdentityInv'
  <2>1. SameCore(m, m') /\ m'.guard = m.guard /\ m'.restart = m.restart /\ core' = core /\ cores' = cores /\ starters' = starters
    BY <1>6, StopAskedIs DEF StopAsked
  <2> QED BY <2>1, SameIdentity DEF IdentityInv, LateOnly, DeadInv, SameCore
<1>7. CASE StopRpc
  <2>1. m' = m /\ cores' = cores /\ starters' = starters /\ core' \in {core, [core EXCEPT !.loaded = None]}
    BY <1>7 DEF StopRpc
  <2>2. core'.late = core.late /\ core'.loaded \in {core.loaded, None} /\ core'.owed = core.owed
    BY <1>0, <2>1 DEF CoreType
  <2>3. LateOnly => LateOnly'
    BY <2>1, <2>2 DEF LateOnly
  <2> QED BY <2>1, <2>2, <2>3 DEF IdentityInv, Identity, DeadInv, CoreRunning
<1>8. CASE StopClears
  BY <1>8 DEF StopClears, IdentityInv, Identity, LateOnly, DeadInv, CoreRunning
<1>9. CASE StopTornDown
  <2>1. SameCore(m, m') /\ m'.guard = m.guard /\ m'.restart = m.restart
    BY <1>9, TornDownIs DEF SameWait
  <2>2. core' = core /\ starters' = starters /\ (cores' = cores \/ cores = "diedStop")
    BY <1>9 DEF StopTornDown
  <2> QED BY <2>1, <2>2, SameIdentity DEF IdentityInv, LateOnly, DeadInv, SameCore
<1>10. CASE HandlePost
  <2>1. SameCore(m, m') /\ m'.guard = m.guard /\ m'.restart = m.restart
    BY <1>10, HandlePostIs DEF PostSays, SameWait, SameCore
  <2>2. core' = core /\ cores' = cores /\ starters' = starters
    BY <1>10 DEF HandlePost
  <2> QED BY <2>1, <2>2, SameIdentity DEF IdentityInv, LateOnly, DeadInv, SameCore
<1>11. CASE SupervisorStarts
  <2>1. /\ m.st = "new" /\ m'.st \in {"listenFailed", "starting"}
        /\ core' = core /\ cores' = cores /\ starters' = starters
    BY <1>11, SupervisorStartsIs
  <2> QED BY <2>1 DEF IdentityInv, Identity, LateOnly, DeadInv, CoreRunning
<1>12. CASE CoreAccepted
  <2>1. m' = [m EXCEPT !.st = "probing"] /\ m.st = "starting" /\ core' = core /\ cores' = cores /\ starters' = starters
    BY <1>12 DEF CoreAccepted
  <2>2. m'.st = "probing"
    BY <1>0, <2>1, CoreIs
  <2> QED BY <2>1, <2>2 DEF IdentityInv, Identity, LateOnly, DeadInv, CoreRunning
<1>13. CASE onCoreGaveUp
  <2>1. m' = GivenUp(m) /\ m.st = "starting" /\ core' = core /\ cores' = cores /\ starters' = starters
    BY <1>13 DEF onCoreGaveUp
  <2>2. m'.st = "gaveUp"
    BY <1>0, <2>1, GivenUpIs DEF GivenUpSays
  <2> QED BY <2>1, <2>2 DEF IdentityInv, Identity, LateOnly, DeadInv, CoreRunning
<1>14. CASE onCoreStarted
  <2>1. PICK s \in MainType, q \in StartRequest :
          /\ UpSays(s)
          /\ \/ m' = s /\ UNCHANGED <<starters, ranking>>
             \/ m' = Finish(s, q) /\ UNCHANGED <<starters, ranking>>
             \/ StartEnds(s, m', q, FALSE)
    BY <1>14, CoreStartedIs
  <2>2. core' = core /\ cores' = cores /\ m.st = "probing" /\ m.restart = "no" /\ cores = "idle"
    BY <1>14, CoreStartedIs
  <2>3. Identity(s)
    BY <2>1, <2>2 DEF UpSays, IdentityInv, Identity, CoreRunning
  <2>4. CASE m' = s /\ UNCHANGED <<starters, ranking>>
    BY <2>2, <2>3, <2>4 DEF IdentityInv, Identity, LateOnly, DeadInv, CoreRunning
  <2>5. CASE m' = Finish(s, q) /\ UNCHANGED <<starters, ranking>>
    <3>1. FinishSays(s, m', q)
      BY <2>5, FinishIs
    <3>2. SameCore(s, m') /\ m'.guard = s.guard /\ m'.restart = s.restart
      BY <3>1 DEF FinishSays, SameWait
    <3> QED BY <2>2, <2>3, <2>5, <3>2, SameIdentity DEF IdentityInv, LateOnly, DeadInv
  <2>6. CASE StartEnds(s, m', q, FALSE)
    BY <2>2, <2>3, <2>6, StartIdentity DEF IdentityInv, DeadInv
  <2> QED BY <2>1, <2>4, <2>5, <2>6
<1>15. CASE CoreDies
  <2>1. /\ m' = [m EXCEPT !.st = "dead"] /\ core' = NoCore /\ starters' = Lost(starters)
    BY <1>15 DEF CoreDies
  <2>2. m'.st = "dead"
    BY <1>0, <2>1, CoreIs
  <2> QED BY <2>1, <2>2, LostIdentity DEF IdentityInv, DeadInv
<1>16. CASE CoreExited
  <2>1. cores = "report" /\ cores' = "idle" /\ core' = core /\ starters' = starters /\ m'.st \in {m.st, "starting", "gaveUp"}
    BY <1>16, CoreExitedIs DEF GivenUpSays
  <2>2. ~CoreRunning(m) /\ ~CoreRunning(m')
    BY <2>1 DEF IdentityInv, DeadInv, CoreRunning
  <2> QED BY <2>1, <2>2 DEF IdentityInv, Identity, LateOnly, DeadInv, CoreRunning
<1>17. CASE CleanUp
  BY <1>17 DEF CleanUp, CrashStop, IdentityInv, Identity, LateOnly, DeadInv, CoreRunning
<1>18. CASE Respawn
  <2>1. m'.st = "starting" /\ core' = NoCore /\ starters' = Lost(starters) /\ cores' = "idle"
    BY <1>18, RespawnIs
  <2> QED BY <2>1, LostIdentity DEF IdentityInv, DeadInv
<1>a. CASE TakeRestart \/ RestartStopped
  <2>1. Respawn \/ (UNCHANGED <<m, core, starters>> /\ cores' \in {"idle", "restartStop"})
    BY <1>a DEF TakeRestart, RestartStopped, CrashStop
  <2>2. CASE UNCHANGED <<m, core, starters>> /\ cores' \in {"idle", "restartStop"}
    BY <2>2 DEF IdentityInv, Identity, LateOnly, DeadInv, CoreRunning
  <2> QED BY <1>18, <2>1, <2>2
<1>19. ASSUME NEW k \in {"Disabled", "Arming", "Armed", "Failed"}, KillSwitchChanges(k) PROVE IdentityInv'
  <2>1. PICK t \in MainType :
          /\ SwitchSays(k, t)
          /\ \/ m' = t /\ UNCHANGED <<starters, ranking>>
             \/ \E u \in MainType : SameCore(t, u) /\ SameWait(t, u) /\ StartEnds(u, m', m.killReq, FALSE)
    BY <1>19, SwitchIs
  <2>2. core' = core /\ cores' = cores /\ m.killReq \in StartRequest
    BY <1>0, <1>19, SwitchIs DEF MainType
  <2>3. Identity(t)
    <3>1. CASE t.restart = "guard"
      BY <2>1, <3>1 DEF SwitchSays, IdentityInv, Identity, CoreRunning
    <3>2. CASE t.guard = m.guard /\ t.restart = m.restart /\ (k = "Armed" => m.guard \/ ~RunningWithoutGuardIdentity(m))
      <4>1. t.st = m.st /\ t.identity = m.identity /\ t.ks = k
        BY <2>1 DEF SwitchSays
      <4>2. k = "Armed" /\ ~m.identity /\ m.restart = "no" => LateOnly
        BY <3>2 DEF RunningWithoutGuardIdentity, IdentityInv, Identity, CoreRunning
      <4> QED BY <3>2, <4>1, <4>2 DEF IdentityInv, Identity, CoreRunning
    <3> QED BY <2>1, <3>1, <3>2 DEF SwitchSays
  <2>4. t.st = m.st
    BY <2>1 DEF SwitchSays
  <2>5. CASE m' = t /\ UNCHANGED <<starters, ranking>>
    BY <2>2, <2>3, <2>4, <2>5 DEF IdentityInv, Identity, LateOnly, DeadInv, CoreRunning
  <2>6. ASSUME NEW u \in MainType, SameCore(t, u), SameWait(t, u), StartEnds(u, m', m.killReq, FALSE)
        PROVE  IdentityInv'
    <3>1. Identity(u)
      BY <2>3, <2>6 DEF Identity, SameCore, SameWait, CoreRunning
    <3>2. m'.st = m.st
      BY <2>4, <2>6 DEF StartEnds, SameCore
    <3> QED BY <2>2, <2>6, <3>1, <3>2, StartIdentity DEF IdentityInv, DeadInv
  <2> QED BY <2>1, <2>5, <2>6
<1>20. CASE GuardWindowExpires
  <2>1. /\ SameCore(m, m') /\ m'.guard = FALSE /\ m'.restart = m.restart
        /\ core' = core /\ cores' = cores /\ starters' = starters
    BY <1>20, WindowIs
  <2> QED BY <2>1, SameIdentity DEF IdentityInv, LateOnly, DeadInv, SameCore
<1>21. CASE PrepareExit
  <2>1. /\ SameCore(m, m') /\ m'.guard = m.guard /\ m'.restart = m.restart
        /\ core' = core /\ cores' = cores /\ starters' = starters
    BY <1>21, ExitIs DEF SameCore, SameWait
  <2> QED BY <2>1, SameIdentity DEF IdentityInv, LateOnly, DeadInv, SameCore
<1>22. CASE Rests
  BY <1>1, <1>22 DEF Rests
<1>23. CASE OwedStartRuns
  <2>1. m' = m /\ cores' = cores /\ starters' = starters /\ CoreRunning(m)
    BY <1>23 DEF OwedStartRuns
  <2>2. LateOnly => LateOnly'
    BY <1>0, <1>23, <2>1, OwedRunsIs DEF LateOnly
  <2>3. IdentityInv => Identity(m)'
    BY <2>1, <2>2 DEF IdentityInv, Identity, CoreRunning
  <2> QED BY <2>1, <2>3 DEF IdentityInv, DeadInv
<1> QED
  BY <1>1, <1>2, <1>3, <1>4, <1>5, <1>6, <1>7, <1>8, <1>9, <1>10, <1>11, <1>12, <1>13, <1>14, <1>15,
     <1>16, <1>17, <1>a, <1>19, <1>20, <1>21, <1>22, <1>23 DEF Next

\* While the kill switch is armed no profile is left running in a core that was spawned without the
\* guard identity, however arming, starting, probing and restarting interleave.
THEOREM ArmedGuardKeepsIdentity == Spec => []RunsWithIdentity
<1>1. Init => IInv /\ IdentityInv
  <2>1. Init => Identity(m) /\ DeadInv
    BY DEF Init, Identity, LateOnly, NoCore, CoreRunning, DeadInv
  <2> QED BY <2>1, InitIInv DEF IdentityInv
<1>2. IInv /\ IdentityInv /\ [Next]_vars => IInv' /\ IdentityInv'
  BY NextIInv, NextIdentity
<1>3. IInv /\ IdentityInv => RunsWithIdentity
  <2>1. IInv => m.identity \in BOOLEAN /\ exiting \in BOOLEAN /\ core.late \in BOOLEAN
    BY DEF IInv, TypeInv, MainType, CoreType
  <2> QED BY <2>1 DEF IdentityInv, Identity, RunsWithIdentity, Quiet, LateOnly
<1> QED BY <1>1, <1>2, <1>3, PTL DEF Spec

-----------------------------------------------------------------------------
(* The worker, step by step, and the closures that are posted. *)

\* What a step of the worker w leaves: the worker v, and what it did on the way.
StarterSays(w, v) ==
  \/ /\ w.pc \in {"begin", "guard", "look"} /\ v.pc \in {"guard", "look", "stop", "rpc"}
     /\ v.pc = "rpc" => running = None
     /\ SameBox(core, core') /\ UNCHANGED <<running, stopper, posts>>
  \/ /\ w.pc = "stop" /\ v.pc = "wait" /\ SameBox(core, core') /\ running' = running
     /\ \/ running = None /\ posts' = posts \o Post("cancel", NoRequest, FALSE) /\ stopper' = stopper
        \/ running # None /\ mu_stopping /\ UNCHANGED <<posts, stopper>>
        \/ /\ running # None /\ ~mu_stopping /\ BeginStop(FALSE, TRUE)
           /\ posts' = posts \o Post("disconnecting", NoRequest, FALSE)
  \/ /\ w.pc = "wait" /\ v.pc = "rpc" /\ ~mu_stopping
     /\ SameBox(core, core') /\ UNCHANGED <<running, stopper, posts>>
  \/ /\ w.pc = "rpc" /\ v.pc = "accepted" /\ CoreRunning(m) /\ core.loaded = None /\ core'.loaded = w.req.id
     /\ core'.stray = core.stray /\ core'.overdue = core.overdue
     /\ UNCHANGED <<running, stopper, posts>>
  \/ /\ w.pc \in {"rpc", "accepted"} /\ v.pc = "release" /\ posts' = Ended(w, FALSE)
     /\ \/ w.pc = "rpc" /\ SameBox(core, core')
        \/ w.pc = "rpc" /\ core.loaded # None /\ core'.loaded = None /\ core'.overdue = core.overdue
        \/ /\ w.pc = "accepted" /\ core'.loaded = None
           /\ core'.stray = core.stray /\ core'.overdue = core.overdue
     /\ UNCHANGED <<running, stopper>>
  \/ /\ w.pc = "accepted" /\ v.pc = "recorded"
     /\ SameBox(core, core') /\ UNCHANGED <<running, stopper, posts>>
  \/ /\ w.pc = "recorded" /\ v.pc = "release" /\ running' = w.req.id /\ posts' = Ended(w, TRUE)
     /\ SameBox(core, core') /\ stopper' = stopper

LEMMA StepIs ==
  ASSUME IInv, NEW w \in starters, NEW v, Step(w, v)
  PROVE  starters = {w} /\ starters' = {v}
<1>1. starters = {w}
  BY DEF IInv, SoleStarter
<1> QED BY <1>1 DEF Step
LEMMA ToIs ==
  ASSUME IInv, NEW w \in starters,
         NEW c \in {"guard", "look", "stop", "wait", "rpc", "accepted", "recorded", "release"}, To(w, c)
  PROVE  \E v \in StarterType : starters = {w} /\ starters' = {v} /\ v.req = w.req /\ v.pc = c
<1> DEFINE v == [w EXCEPT !.pc = c]
<1>1. w \in StarterType
  BY DEF IInv, TypeInv
<1>2. v \in StarterType /\ v.req = w.req /\ v.pc = c
  BY <1>1 DEF StarterType
<1>3. starters = {w} /\ starters' = {v}
  BY StepIs DEF To
<1> QED BY <1>2, <1>3

LEMMA StarterDoes ==
  ASSUME IInv, NEW w \in starters,
         \/ StarterBegins(w) \/ InstallGuard(w) \/ StarterLooks(w) \/ StarterStops(w) \/ StarterWaits(w)
         \/ StartAnswered(w) \/ StartTimesOut(w) \/ CommitOtp(w) \/ StarterRecords(w)
  PROVE  \E v \in StarterType : starters = {w} /\ starters' = {v} /\ v.req = w.req /\ StarterSays(w, v)
<1>0. w \in StarterType /\ core \in CoreType
  BY DEF IInv, TypeInv
<1>1. CASE StarterBegins(w)
  <2>0. w.pc = "begin" /\ SameBox(core, core') /\ UNCHANGED <<running, stopper, posts>>
    BY <1>1 DEF StarterBegins, SameBox
  <2>1. CASE Step(w, [w EXCEPT !.pc = "guard", !.guard = "asked"])
    <3> DEFINE v == [w EXCEPT !.pc = "guard", !.guard = "asked"]
    <3>1. v \in StarterType /\ v.req = w.req /\ v.pc = "guard"
      BY <1>0 DEF StarterType
    <3>2. starters = {w} /\ starters' = {v}
      BY <2>1, StepIs
    <3>3. StarterSays(w, v)
      BY <2>0, <3>1 DEF StarterSays
    <3> QED BY <3>1, <3>2, <3>3
  <2>2. CASE \E c \in {"stop", "rpc"} : To(w, c) /\ (c = "rpc" => running = None)
    <3>1. PICK c \in {"stop", "rpc"} : To(w, c) /\ (c = "rpc" => running = None)
      BY <2>2
    <3>2. PICK v \in StarterType : starters = {w} /\ starters' = {v} /\ v.req = w.req /\ v.pc = c
      BY <3>1, ToIs
    <3>3. StarterSays(w, v)
      BY <2>0, <3>1, <3>2 DEF StarterSays
    <3> QED BY <3>2, <3>3
  <2> QED BY <1>1, <2>1, <2>2 DEF StarterBegins
<1>2. CASE InstallGuard(w)
  <2>0. w.pc = "guard" /\ SameBox(core, core') /\ UNCHANGED <<running, stopper, posts>>
    BY <1>0, <1>2 DEF InstallGuard, CoreType, SameBox
  <2>1. CASE Step(w, [w EXCEPT !.pc = "look", !.guard = "held"])
    <3> DEFINE v == [w EXCEPT !.pc = "look", !.guard = "held"]
    <3>1. v \in StarterType /\ v.req = w.req /\ v.pc = "look"
      BY <1>0 DEF StarterType
    <3>2. starters = {w} /\ starters' = {v}
      BY <2>1, StepIs
    <3>3. StarterSays(w, v)
      BY <2>0, <3>1 DEF StarterSays
    <3> QED BY <3>1, <3>2, <3>3
  <2>2. CASE To(w, "look")
    <3>2. PICK v \in StarterType : starters = {w} /\ starters' = {v} /\ v.req = w.req /\ v.pc = "look"
      BY <2>2, ToIs
    <3>3. StarterSays(w, v)
      BY <2>0, <3>2 DEF StarterSays
    <3> QED BY <3>2, <3>3
  <2> QED BY <1>2, <2>1, <2>2 DEF InstallGuard
<1>3. CASE StarterLooks(w)
  <2>0. w.pc = "look" /\ SameBox(core, core') /\ UNCHANGED <<running, stopper, posts>>
    BY <1>3 DEF StarterLooks, SameBox
  <2>1. PICK c \in {"stop", "rpc"} : To(w, c) /\ (c = "rpc" => running = None)
    BY <1>3 DEF StarterLooks
  <2>2. PICK v \in StarterType : starters = {w} /\ starters' = {v} /\ v.req = w.req /\ v.pc = c
    BY <2>1, ToIs
  <2>3. StarterSays(w, v)
    BY <2>0, <2>1, <2>2 DEF StarterSays
  <2> QED BY <2>2, <2>3
<1>4. CASE StarterStops(w)
  <2>1. PICK v \in StarterType : starters = {w} /\ starters' = {v} /\ v.req = w.req /\ v.pc = "wait"
    BY <1>4, ToIs DEF StarterStops
  <2>2. StarterSays(w, v)
    BY <1>4, <2>1 DEF StarterSays, StarterStops, SameBox
  <2> QED BY <2>1, <2>2
<1>5. CASE StarterWaits(w)
  <2>1. PICK v \in StarterType : starters = {w} /\ starters' = {v} /\ v.req = w.req /\ v.pc = "rpc"
    BY <1>5, ToIs DEF StarterWaits
  <2>2. StarterSays(w, v)
    BY <1>5, <2>1 DEF StarterSays, StarterWaits, StopIsOver, SameBox
  <2> QED BY <2>1, <2>2
<1>6. CASE StartAnswered(w)
  <2>0. w.pc = "rpc" /\ UNCHANGED <<running, stopper>>
    BY <1>6 DEF StartAnswered
  <2>1. CASE CoreRunning(m) /\ core.loaded = None /\ core' = Accepted(w) /\ To(w, "accepted") /\ posts' = posts
    <3>1. PICK v \in StarterType : starters = {w} /\ starters' = {v} /\ v.req = w.req /\ v.pc = "accepted"
      BY <2>1, ToIs
    <3>2. core'.loaded = w.req.id /\ core'.stray = core.stray /\ core'.overdue = core.overdue
      BY <1>0, <2>1 DEF Accepted, CoreType
    <3>3. StarterSays(w, v)
      BY <2>0, <2>1, <3>1, <3>2 DEF StarterSays
    <3> QED BY <3>1, <3>3
  <2>2. CASE /\ To(w, "release") /\ posts' = Ended(w, FALSE)
             /\ core' = core \/ (core.loaded # None /\ core' = Unpublished(core))
    <3>1. PICK v \in StarterType : starters = {w} /\ starters' = {v} /\ v.req = w.req /\ v.pc = "release"
      BY <2>2, ToIs
    <3>2. SameBox(core, core') \/ (core.loaded # None /\ core'.loaded = None /\ core'.overdue = core.overdue)
      BY <1>0, <2>2, UnpublishedIs DEF SameBox
    <3>3. StarterSays(w, v)
      BY <2>0, <2>2, <3>1, <3>2 DEF StarterSays
    <3> QED BY <3>1, <3>3
  <2> QED BY <1>6, <2>1, <2>2 DEF StartAnswered, Refuses
<1>9. CASE StartTimesOut(w)
  <2>0. w.pc = "rpc" /\ UNCHANGED <<running, stopper>> /\ To(w, "release") /\ posts' = Ended(w, FALSE)
    BY <1>9 DEF StartTimesOut
  <2>1. PICK v \in StarterType : starters = {w} /\ starters' = {v} /\ v.req = w.req /\ v.pc = "release"
    BY <2>0, ToIs
  <2>2. setup \in Setup
    BY DEF IInv, TypeInv
  <2>3. SameBox(core, core')
    BY <1>0, <1>9, <2>2, TimedOutIs DEF SameBox
  <2>4. StarterSays(w, v)
    BY <2>0, <2>1, <2>3 DEF StarterSays
  <2> QED BY <2>1, <2>4
<1>7. CASE CommitOtp(w)
  <2>0. w.pc = "accepted" /\ UNCHANGED <<running, stopper>>
    BY <1>7 DEF CommitOtp
  <2>1. CASE To(w, "recorded") /\ UNCHANGED <<core, posts>>
    <3>1. PICK v \in StarterType : starters = {w} /\ starters' = {v} /\ v.req = w.req /\ v.pc = "recorded"
      BY <2>1, ToIs
    <3>3. StarterSays(w, v)
      BY <2>0, <2>1, <3>1 DEF StarterSays, SameBox
    <3> QED BY <3>1, <3>3
  <2>2. CASE To(w, "release") /\ posts' = Ended(w, FALSE) /\ core' = [core EXCEPT !.loaded = None]
    <3>1. PICK v \in StarterType : starters = {w} /\ starters' = {v} /\ v.req = w.req /\ v.pc = "release"
      BY <2>2, ToIs
    <3>2. core'.loaded = None /\ core'.stray = core.stray /\ core'.overdue = core.overdue
      BY <1>0, <2>2 DEF CoreType
    <3>3. StarterSays(w, v)
      BY <2>0, <2>2, <3>1, <3>2 DEF StarterSays
    <3> QED BY <3>1, <3>3
  <2> QED BY <1>7, <2>1, <2>2 DEF CommitOtp
<1>8. CASE StarterRecords(w)
  <2>1. PICK v \in StarterType : starters = {w} /\ starters' = {v} /\ v.req = w.req /\ v.pc = "release"
    BY <1>8, ToIs DEF StarterRecords
  <2>2. StarterSays(w, v)
    BY <1>8, <2>1 DEF StarterSays, StarterRecords, SameBox
  <2> QED BY <2>1, <2>2
<1> QED BY <1>1, <1>2, <1>3, <1>4, <1>5, <1>6, <1>7, <1>8, <1>9

\* A closure joins the queue at its end.
Appended(q, p, t) ==
  /\ Len(t) = Len(q) + 1 /\ DOMAIN t = 1 .. Len(q) + 1 /\ DOMAIN q = 1 .. Len(q) /\ Len(q) \in Nat
  /\ t[Len(q) + 1] = p /\ \A i \in 1 .. Len(q) : t[i] = q[i]
LEMMA AppendedIs ==
  ASSUME NEW q \in Seq(PostType), NEW p \in PostType
  PROVE  q \o <<p>> \in Seq(PostType) /\ Appended(q, p, q \o <<p>>)
<1>1. q \o <<p>> = Append(q, p)
  OBVIOUS
<1>2. /\ Append(q, p) \in Seq(PostType) /\ Len(Append(q, p)) = Len(q) + 1
      /\ Append(q, p)[Len(q) + 1] = p /\ \A i \in 1 .. Len(q) : Append(q, p)[i] = q[i]
  BY AppendProperties
<1>3. DOMAIN Append(q, p) = 1 .. Len(q) + 1 /\ DOMAIN q = 1 .. Len(q) /\ Len(q) \in Nat
  BY <1>2, LenProperties
<1> QED BY <1>1, <1>2, <1>3 DEF Appended
LEMMA PostIs ==
  ASSUME NEW op \in {"finish", "connected", "disconnecting", "cancel", "teardown"},
         NEW r \in StartRequest, NEW b \in BOOLEAN
  PROVE  \E p \in PostType : Post(op, r, b) = <<p>> /\ p.op = op /\ p.req = r
<1> DEFINE p == [op |-> op, req |-> r, started |-> b]
<1>1. p \in PostType /\ p.op = op /\ p.req = r
  BY DEF PostType
<1> QED BY <1>1 DEF Post
LEMMA NoticeIs ==
  ASSUME NEW op \in {"connected", "disconnecting", "cancel", "teardown"}
  PROVE  \E p \in PostType : Post(op, NoRequest, FALSE) = <<p>> /\ p.op = op
<1> DEFINE p == [op |-> op, req |-> NoRequest, started |-> FALSE]
<1>1. p \in PostType /\ p.op = op
  BY OwnOk DEF PostType
<1> QED BY <1>1 DEF Post
\* The head of the queue is handled.
LEMMA HandledIs ==
  ASSUME NEW q \in Seq(PostType), q # << >>
  PROVE  /\ Len(q) \in Nat /\ Len(q) >= 1 /\ DOMAIN q = 1 .. Len(q) /\ Head(q) = q[1]
         /\ Tail(q) \in Seq(PostType) /\ DOMAIN Tail(q) = 1 .. Len(q) - 1
         /\ \A i \in 1 .. Len(q) - 1 : Tail(q)[i] = q[i + 1]
<1>1. /\ Head(q) = q[1] /\ Tail(q) \in Seq(PostType) /\ Len(Tail(q)) = Len(q) - 1
      /\ \A i \in 1 .. Len(Tail(q)) : Tail(q)[i] = q[i + 1]
  BY HeadTailProperties
<1>2. DOMAIN Tail(q) = 1 .. Len(Tail(q)) /\ DOMAIN q = 1 .. Len(q) /\ Len(q) \in Nat /\ Len(q) >= 1
  BY <1>1, LenProperties, EmptySeq
<1> QED BY <1>1, <1>2

-----------------------------------------------------------------------------
(* What is shown is what runs. *)

Has(q, op) == \E i \in DOMAIN q : q[i].op = op
Live == \E w \in starters : w.pc # "release"

\* A closure that announces a stop has its stop ahead of it, and the one that ends the stop comes
\* after them all.
PostsInv ==
  /\ Has(posts, "disconnecting") => stopper.pc \in {"rpc", "clear", "posted"}
  /\ Has(posts, "teardown") => stopper.pc = "posted"
  /\ \A i, j \in DOMAIN posts :
       posts[i].op = "teardown" /\ posts[j].op \in {"disconnecting", "teardown"} => j <= i
\* Connecting and Stopping end; what is shown is right, but for what a closure or a teardown that is
\* still to come will show.
ShownInv ==
  /\ PostsInv
  /\ m.connecting => Live \/ Has(posts, "connected")
  /\ m.disconnecting => stopper.pc # "none"
  /\ m.shown = ConnectionState(m) \/ Has(posts, "connected") \/ stopper.pc \in {"posted", "ui"}

\* A step that shows nothing and posts nothing.
LEMMA ShownSame ==
  ASSUME ShownInv, SameShow(m, m'), UNCHANGED <<running, posts, stopper>>, Live => Live'
  PROVE  ShownInv'
  BY DEF ShownInv, PostsInv, SameShow, ConnectionState
\* start() shows that it connects.
LEMMA ShownStart ==
  ASSUME ShownInv, NEW s, NEW r \in StartRequest, NEW b, SameShow(m, s), StartEnds(s, m', r, b),
         UNCHANGED <<running, posts, stopper>>
  PROVE  ShownInv'
<1>1. CASE StartLaunches(s, m', r)
  <2>1. /\ m'.connecting = TRUE /\ m'.disconnecting = m.disconnecting /\ m'.shown = ConnectionState(m')
        /\ starters' = {NewStarter(r)}
    BY <1>1 DEF StartLaunches, SameShow
  <2>2. Live'
    BY <2>1 DEF Live, NewStarter
  <2>3. ConnectionState(m)' = ConnectionState(m')
    BY DEF ConnectionState
  <2> QED BY <2>1, <2>2, <2>3 DEF ShownInv, PostsInv
<1>2. CASE ~StartLaunches(s, m', r)
  <2>1. SameShow(s, m') /\ starters' = starters
    BY <1>2 DEF StartEnds, StartAnswers, StartHolds, StartDefers, StartRanks
  <2> QED BY <2>1, ShownSame DEF SameShow, Live
<1> QED BY <1>1, <1>2
\* A core that is lost leaves its workers where they are.
LEMMA LostLive == ASSUME IInv, starters' = Lost(starters) PROVE Live => Live'
  BY LostIs DEF Live
\* A closure is posted.
LEMMA PostedHas ==
  ASSUME NEW q, NEW p, NEW t, Appended(q, p, t)
  PROVE  \A op : Has(t, op) <=> Has(q, op) \/ p.op = op
<1> SUFFICES ASSUME NEW op PROVE Has(t, op) <=> Has(q, op) \/ p.op = op
  OBVIOUS
<1>1. ASSUME Has(q, op) PROVE Has(t, op)
  BY <1>1 DEF Has, Appended
<1>2. ASSUME p.op = op PROVE Has(t, op)
  BY <1>2 DEF Has, Appended
<1>3. ASSUME Has(t, op) PROVE Has(q, op) \/ p.op = op
  <2>1. PICK i \in DOMAIN t : t[i].op = op
    BY <1>3 DEF Has
  <2> QED BY <2>1 DEF Has, Appended
<1> QED BY <1>1, <1>2, <1>3
\* The order of the closures survives one that announces nothing, or that announces the stop or its
\* end while none has ended.
LEMMA PostedOrder ==
  ASSUME NEW q, NEW p, NEW t, Appended(q, p, t),
         \A i, j \in DOMAIN q : q[i].op = "teardown" /\ q[j].op \in {"disconnecting", "teardown"} => j <= i,
         p.op \in {"disconnecting", "teardown"} => ~Has(q, "teardown")
  PROVE  \A i, j \in DOMAIN t : t[i].op = "teardown" /\ t[j].op \in {"disconnecting", "teardown"} => j <= i
<1> SUFFICES ASSUME NEW i \in DOMAIN t, NEW j \in DOMAIN t, t[i].op = "teardown",
                    t[j].op \in {"disconnecting", "teardown"}
             PROVE  j <= i
  OBVIOUS
<1>1. CASE i \in DOMAIN q /\ j \in DOMAIN q
  BY <1>1 DEF Appended
<1>2. CASE i = Len(q) + 1
  BY <1>2 DEF Appended
<1>3. CASE i \in DOMAIN q /\ j = Len(q) + 1
  BY <1>3 DEF Appended, Has
<1>4. (i \in DOMAIN q \/ i = Len(q) + 1) /\ (j \in DOMAIN q \/ j = Len(q) + 1)
  BY DEF Appended
<1> QED BY <1>1, <1>2, <1>3, <1>4
\* The end of a start is posted: its answer, and the end of Connecting.
LEMMA EndedIs ==
  ASSUME IInv, NEW w \in starters, NEW b \in BOOLEAN
  PROVE  \E p, c \in PostType, q \in Seq(PostType) :
           /\ p.op = "finish" /\ p.req = w.req /\ c.op = "connected"
           /\ Appended(posts, p, q) /\ Appended(q, c, Ended(w, b))
<1>1. w.req \in StartRequest /\ NoRequest \in StartRequest /\ posts \in Seq(PostType)
  BY OwnOk DEF IInv, TypeInv, StarterType
<1>2. PICK p \in PostType : Post("finish", w.req, b) = <<p>> /\ p.op = "finish" /\ p.req = w.req
  BY <1>1, PostIs
<1>3. PICK c \in PostType : Post("connected", NoRequest, FALSE) = <<c>> /\ c.op = "connected"
  BY NoticeIs
<1> DEFINE q == posts \o <<p>>
<1>4. q \in Seq(PostType) /\ Appended(posts, p, q)
  BY <1>1, AppendedIs
<1>5. Ended(w, b) = q \o <<c>>
  BY <1>2, <1>3 DEF Ended
<1> HIDE DEF q
<1>6. Appended(q, c, q \o <<c>>)
  BY <1>4, AppendedIs
<1> QED BY <1>2, <1>3, <1>4, <1>5, <1>6
LEMMA EndedHas ==
  ASSUME IInv, PostsInv, NEW w \in starters, NEW b \in BOOLEAN, posts' = Ended(w, b), stopper' = stopper
  PROVE  PostsInv' /\ Has(posts, "connected")'
<1>1. PICK p \in PostType, c \in PostType, q \in Seq(PostType) :
        /\ p.op = "finish" /\ p.req = w.req /\ c.op = "connected"
        /\ Appended(posts, p, q) /\ Appended(q, c, posts')
  BY EndedIs
<1> DEFINE t == posts'
<1>2. Appended(q, c, t)
  BY <1>1
<1>3. Has(posts, "connected")' <=> Has(t, "connected")
  BY DEF Has
<1> HIDE DEF t
<1>4. \A op : Has(t, op) <=> Has(posts, op) \/ op \in {"finish", "connected"}
  BY <1>1, <1>2, PostedHas
<1>5. \A i, j \in DOMAIN q : q[i].op = "teardown" /\ q[j].op \in {"disconnecting", "teardown"} => j <= i
  BY <1>1, PostedOrder DEF PostsInv
<1>6. \A i, j \in DOMAIN t : t[i].op = "teardown" /\ t[j].op \in {"disconnecting", "teardown"} => j <= i
  BY <1>1, <1>2, <1>5, PostedOrder
<1>7. /\ Has(t, "disconnecting") => stopper.pc \in {"rpc", "clear", "posted"}
      /\ Has(t, "teardown") => stopper.pc = "posted"
  BY <1>4 DEF PostsInv
<1> QED BY <1>3, <1>4, <1>6, <1>7 DEF PostsInv, t, Has
\* A notice is posted.
LEMMA NoticeHas ==
  ASSUME IInv, NEW op \in {"connected", "disconnecting", "cancel", "teardown"},
         posts' = posts \o Post(op, NoRequest, FALSE)
  PROVE  \E p \in PostType : p.op = op /\ Appended(posts, p, posts')
<1>1. PICK p \in PostType : Post(op, NoRequest, FALSE) = <<p>> /\ p.op = op
  BY NoticeIs
<1>2. Appended(posts, p, posts \o <<p>>)
  BY AppendedIs DEF IInv, TypeInv
<1> QED BY <1>1, <1>2
LEMMA NoticeKeeps ==
  ASSUME IInv, PostsInv, NEW op \in {"disconnecting", "cancel", "teardown"},
         posts' = posts \o Post(op, NoRequest, FALSE),
         op \in {"disconnecting", "teardown"} => ~Has(posts, "teardown"),
         op = "disconnecting" => stopper'.pc = "rpc", op = "teardown" => stopper'.pc = "posted",
         op = "cancel" => stopper' = stopper,
         op = "teardown" => stopper.pc = "clear"
  PROVE  PostsInv' /\ (Has(posts, "connected") => Has(posts, "connected")')
<1>1. PICK p \in PostType : p.op = op /\ Appended(posts, p, posts')
  BY NoticeHas
<1> DEFINE t == posts'
<1>2. Appended(posts, p, t)
  BY <1>1
<1>3. \A x : Has(posts, x)' <=> Has(t, x)
  BY DEF Has
<1> HIDE DEF t
<1>4. \A x : Has(t, x) <=> Has(posts, x) \/ x = op
  BY <1>1, <1>2, PostedHas
<1>5. \A i, j \in DOMAIN t : t[i].op = "teardown" /\ t[j].op \in {"disconnecting", "teardown"} => j <= i
  BY <1>1, <1>2, PostedOrder DEF PostsInv
<1>6. /\ Has(t, "disconnecting") => stopper'.pc \in {"rpc", "clear", "posted"}
      /\ Has(t, "teardown") => stopper'.pc = "posted"
  BY <1>4 DEF PostsInv
<1> QED BY <1>3, <1>4, <1>5, <1>6 DEF PostsInv, t
\* A closure is handled.
LEMMA HandledHas ==
  ASSUME NEW q \in Seq(PostType), q # << >>
  PROVE  /\ \A op : Has(Tail(q), op) => Has(q, op)
         /\ \A op : Has(q, op) => Has(Tail(q), op) \/ Head(q).op = op
         /\ Has(q, Head(q).op)
<1>1. /\ Len(q) \in Nat /\ Len(q) >= 1 /\ DOMAIN q = 1 .. Len(q) /\ Head(q) = q[1]
      /\ DOMAIN Tail(q) = 1 .. Len(q) - 1 /\ \A i \in 1 .. Len(q) - 1 : Tail(q)[i] = q[i + 1]
  BY HandledIs
<1> DEFINE t == Tail(q)
           h == Head(q)
<1>2. DOMAIN t = 1 .. Len(q) - 1 /\ (\A i \in 1 .. Len(q) - 1 : t[i] = q[i + 1]) /\ h = q[1]
  BY <1>1
<1> HIDE DEF t, h
<1>3. ASSUME NEW op, Has(t, op) PROVE Has(q, op)
  <2>1. PICK i \in DOMAIN t : t[i].op = op
    BY <1>3 DEF Has
  <2>2. i + 1 \in DOMAIN q /\ q[i + 1].op = op
    BY <1>1, <1>2, <2>1
  <2> QED BY <2>2 DEF Has
<1>4. ASSUME NEW op, Has(q, op) PROVE Has(t, op) \/ h.op = op
  <2>1. PICK i \in DOMAIN q : q[i].op = op
    BY <1>4 DEF Has
  <2>2. CASE i = 1
    BY <1>2, <2>1, <2>2
  <2>3. CASE i # 1
    <3>1. i - 1 \in DOMAIN t /\ t[i - 1] = q[(i - 1) + 1] /\ (i - 1) + 1 = i
      BY <1>1, <1>2, <2>1, <2>3
    <3> QED BY <2>1, <3>1 DEF Has
  <2> QED BY <2>2, <2>3
<1>5. Has(q, h.op)
  BY <1>1, <1>2 DEF Has
<1> QED BY <1>3, <1>4, <1>5 DEF t, h
\* What is left is still in order; behind the end of a stop there is nothing about it.
LEMMA HandledOrder ==
  ASSUME NEW q \in Seq(PostType), q # << >>,
         \A i, j \in DOMAIN q : q[i].op = "teardown" /\ q[j].op \in {"disconnecting", "teardown"} => j <= i
  PROVE  /\ \A i, j \in DOMAIN Tail(q) :
              Tail(q)[i].op = "teardown" /\ Tail(q)[j].op \in {"disconnecting", "teardown"} => j <= i
         /\ Head(q).op = "teardown" => ~Has(Tail(q), "disconnecting") /\ ~Has(Tail(q), "teardown")
<1>1. /\ Len(q) \in Nat /\ Len(q) >= 1 /\ DOMAIN q = 1 .. Len(q) /\ Head(q) = q[1]
      /\ DOMAIN Tail(q) = 1 .. Len(q) - 1 /\ \A i \in 1 .. Len(q) - 1 : Tail(q)[i] = q[i + 1]
  BY HandledIs
<1> DEFINE t == Tail(q)
<1>2. DOMAIN t = 1 .. Len(q) - 1 /\ \A i \in 1 .. Len(q) - 1 : t[i] = q[i + 1]
  BY <1>1
<1> HIDE DEF t
<1>3. ASSUME NEW i \in DOMAIN t, NEW j \in DOMAIN t, t[i].op = "teardown", t[j].op \in {"disconnecting", "teardown"}
      PROVE  j <= i
  <2>1. i + 1 \in DOMAIN q /\ j + 1 \in DOMAIN q /\ q[i + 1] = t[i] /\ q[j + 1] = t[j]
    BY <1>1, <1>2
  <2>2. j + 1 <= i + 1
    BY <1>3, <2>1
  <2>3. i \in Int /\ j \in Int
    BY <1>2
  <2> QED BY <2>2, <2>3
<1>4. ASSUME q[1].op = "teardown", NEW j \in DOMAIN t PROVE t[j].op \notin {"disconnecting", "teardown"}
  <2>1. j + 1 \in DOMAIN q /\ q[j + 1] = t[j] /\ 1 \in DOMAIN q /\ ~(j + 1 <= 1)
    BY <1>1, <1>2
  <2> QED BY <1>4, <2>1
<1> QED BY <1>1, <1>3, <1>4 DEF t, Has

\* A stop that begins on the main thread is shown there.
LEMMA ShownStop ==
  ASSUME ShownInv, ~mu_stopping, NEW c, NEW d, BeginStop(c, d), UNCHANGED <<running, posts>>, starters' = starters,
         m'.connecting = m.connecting, m'.disconnecting = TRUE, m'.shown = ConnectionState(m')
  PROVE  ShownInv'
<1>1. stopper.pc = "none" /\ stopper'.pc = "rpc"
  BY DEF mu_stopping, BeginStop
<1>2. ConnectionState(m)' = ConnectionState(m')
  BY DEF ConnectionState
<1>3. PostsInv'
  BY <1>1 DEF ShownInv, PostsInv
<1> QED BY <1>1, <1>2, <1>3 DEF ShownInv, Live
\* One that begins elsewhere is announced.
LEMMA ShownNotice ==
  ASSUME IInv, ShownInv, ~mu_stopping, NEW c, NEW d, BeginStop(c, d), running' = running,
         posts' = posts \o Post("disconnecting", NoRequest, FALSE), SameShow(m, m'), Live => Live'
  PROVE  ShownInv'
<1>1. stopper.pc = "none" /\ stopper'.pc = "rpc"
  BY DEF mu_stopping, BeginStop
<1>2. PostsInv' /\ (Has(posts, "connected") => Has(posts, "connected")')
  BY <1>1, NoticeKeeps DEF ShownInv, PostsInv
<1>3. ConnectionState(m)' = ConnectionState(m)
  BY DEF ConnectionState, SameShow
<1> QED BY <1>1, <1>2, <1>3 DEF ShownInv, SameShow

\* The worker's steps.
LEMMA StarterShown ==
  ASSUME IInv, ShownInv, StarterSteps
  PROVE  ShownInv'
<1>1. PICK w \in starters :
        \/ StarterBegins(w) \/ InstallGuard(w) \/ StarterLooks(w) \/ StarterStops(w) \/ StarterWaits(w)
        \/ StartAnswered(w) \/ StartTimesOut(w) \/ CommitOtp(w) \/ StarterRecords(w) \/ ReleaseGuard(w)
  BY DEF StarterSteps
<1>2. SameShow(m, m')
  BY <1>1, StarterIs
<1>3. CASE ReleaseGuard(w)
  <2>1. starters = {w} /\ w.pc = "release" /\ UNCHANGED <<running, posts, stopper>>
    BY <1>3, ReleaseIs DEF ReleaseGuard
  <2> QED BY <1>2, <2>1, ShownSame DEF Live
<1>4. CASE ~ReleaseGuard(w)
  <2>1. PICK v \in StarterType : starters = {w} /\ starters' = {v} /\ StarterSays(w, v)
    BY <1>1, <1>4, StarterDoes
  <2>2. CASE UNCHANGED <<running, posts, stopper>> /\ v.pc # "release"
    <3>1. Live'
      BY <2>1, <2>2 DEF Live
    <3> QED BY <1>2, <2>2, <3>1, ShownSame
  <2>3. CASE running' = running /\ posts' = posts \o Post("cancel", NoRequest, FALSE) /\ stopper' = stopper /\ v.pc = "wait"
    <3>1. PostsInv' /\ (Has(posts, "connected") => Has(posts, "connected")')
      BY <2>3, NoticeKeeps DEF ShownInv
    <3>2. Live' /\ ConnectionState(m)' = ConnectionState(m)
      BY <1>2, <2>1, <2>3 DEF Live, ConnectionState, SameShow
    <3> QED BY <1>2, <2>3, <3>1, <3>2 DEF ShownInv, SameShow
  <2>4. CASE /\ ~mu_stopping /\ BeginStop(FALSE, TRUE) /\ running' = running /\ v.pc = "wait"
             /\ posts' = posts \o Post("disconnecting", NoRequest, FALSE)
    <3>1. Live'
      BY <2>1, <2>4 DEF Live
    <3> QED BY <1>2, <2>4, <3>1, ShownNotice
  <2>5. ASSUME NEW b \in BOOLEAN, posts' = Ended(w, b), stopper' = stopper PROVE ShownInv'
    <3>1. PostsInv' /\ Has(posts, "connected")'
      BY <2>5, EndedHas DEF ShownInv
    <3> QED BY <1>2, <2>5, <3>1 DEF ShownInv, SameShow
  <2>6. \/ UNCHANGED <<running, posts, stopper>> /\ v.pc # "release"
        \/ running' = running /\ posts' = posts \o Post("cancel", NoRequest, FALSE) /\ stopper' = stopper /\ v.pc = "wait"
        \/ /\ ~mu_stopping /\ BeginStop(FALSE, TRUE) /\ running' = running /\ v.pc = "wait"
           /\ posts' = posts \o Post("disconnecting", NoRequest, FALSE)
        \/ (posts' = Ended(w, FALSE) \/ posts' = Ended(w, TRUE)) /\ stopper' = stopper
    BY <2>1 DEF StarterSays
  <2>7. CASE posts' = Ended(w, FALSE) /\ stopper' = stopper
    BY <2>5, <2>7
  <2>8. CASE posts' = Ended(w, TRUE) /\ stopper' = stopper
    BY <2>5, <2>8
  <2> QED BY <2>2, <2>3, <2>4, <2>6, <2>7, <2>8
<1> QED BY <1>3, <1>4

\* The stop worker's steps.
LEMMA StopperShown ==
  ASSUME IInv, ShownInv, StopRpc \/ StopClears \/ StopTornDown
  PROVE  ShownInv'
<1>0. stopper \in StopperType
  BY DEF IInv, TypeInv
<1>1. CASE StopRpc
  <2>1. stopper.pc = "rpc" /\ stopper'.pc = "clear" /\ UNCHANGED <<m, starters, running, posts>>
    BY <1>0, <1>1 DEF StopRpc, StopperType
  <2>2. PostsInv'
    BY <2>1 DEF ShownInv, PostsInv
  <2> QED BY <2>1, <2>2 DEF ShownInv, Live, ConnectionState
<1>2. CASE StopClears
  <2>1. /\ stopper.pc = "clear" /\ stopper'.pc = "posted" /\ UNCHANGED <<m, starters>>
        /\ posts' = posts \o Post("teardown", NoRequest, FALSE)
    BY <1>0, <1>2 DEF StopClears, StopperType
  <2>2. PostsInv' /\ (Has(posts, "connected") => Has(posts, "connected")')
    BY <2>1, NoticeKeeps DEF ShownInv, PostsInv
  <2> QED BY <2>1, <2>2 DEF ShownInv, Live
<1>3. CASE StopTornDown
  <2>1. m'.connecting = m.connecting /\ m'.disconnecting = FALSE /\ m'.shown = ConnectionState(m')
    BY <1>3, TornDownIs
  <2>2. stopper.pc = "ui" /\ stopper'.pc = "none" /\ UNCHANGED <<starters, running, posts>>
    BY <1>3 DEF StopTornDown, NoStop
  <2>3. ConnectionState(m)' = ConnectionState(m')
    BY <2>2 DEF ConnectionState
  <2>4. PostsInv'
    BY <2>2 DEF ShownInv, PostsInv
  <2> QED BY <2>1, <2>2, <2>3, <2>4 DEF ShownInv, Live
<1> QED BY <1>1, <1>2, <1>3

\* The closures.
LEMMA PostShown ==
  ASSUME IInv, ShownInv, HandlePost
  PROVE  ShownInv'
<1> DEFINE p == Head(posts)
           t == Tail(posts)
<1>1. /\ posts \in Seq(PostType) /\ posts # << >> /\ posts' = t /\ PostSays(p)
      /\ UNCHANGED <<starters, running>> /\ stopper \in StopperType
  BY HandlePostIs DEF IInv, TypeInv
<1>2. /\ \A op : Has(t, op) => Has(posts, op)
      /\ \A op : Has(posts, op) => Has(t, op) \/ p.op = op
      /\ Has(posts, p.op)
  BY <1>1, HandledHas
<1>3. /\ \A i, j \in DOMAIN t : t[i].op = "teardown" /\ t[j].op \in {"disconnecting", "teardown"} => j <= i
      /\ p.op = "teardown" => ~Has(t, "disconnecting") /\ ~Has(t, "teardown")
  BY <1>1, HandledOrder DEF ShownInv, PostsInv
<1> HIDE DEF p, t
<1>4. /\ \A op : Has(posts, op)' <=> Has(t, op)
      /\ Live' <=> Live
      /\ ConnectionState(m)' = ConnectionState(m')
  BY <1>1 DEF Has, Live, ConnectionState
<1>5. /\ p.op = "teardown" => stopper'.pc = "ui"
      /\ p.op # "teardown" => stopper' = stopper
  BY <1>1 DEF PostSays, StopperType
<1>6. PostsInv'
  <2>1. /\ Has(t, "disconnecting") => stopper'.pc \in {"rpc", "clear", "posted"}
        /\ Has(t, "teardown") => stopper'.pc = "posted"
    BY <1>2, <1>3, <1>5 DEF ShownInv, PostsInv
  <2> QED BY <1>1, <1>3, <1>4, <2>1 DEF PostsInv
<1>7. CASE p.op = "connected"
  <2>1. m'.connecting = FALSE /\ m'.disconnecting = m.disconnecting /\ m'.shown = ConnectionState(m') /\ stopper' = stopper
    BY <1>1, <1>7 DEF PostSays
  <2> QED BY <1>4, <1>6, <2>1 DEF ShownInv
<1>8. CASE p.op = "disconnecting"
  <2>1. m'.connecting = m.connecting /\ m'.disconnecting = TRUE /\ m'.shown = ConnectionState(m') /\ stopper' = stopper
    BY <1>1, <1>8 DEF PostSays
  <2>2. stopper.pc # "none"
    BY <1>2, <1>8 DEF ShownInv, PostsInv
  <2> QED BY <1>2, <1>4, <1>6, <1>8, <2>1, <2>2 DEF ShownInv
<1>9. CASE p.op \notin {"connected", "disconnecting"}
  <2>1. SameShow(m, m')
    BY <1>1, <1>9 DEF PostSays, SameShow
  <2>2. ConnectionState(m') = ConnectionState(m)
    BY <2>1 DEF SameShow, ConnectionState
  <2>3. stopper'.pc = "ui" \/ stopper' = stopper
    BY <1>5
  <2> QED BY <1>2, <1>4, <1>6, <1>9, <2>1, <2>2, <2>3 DEF ShownInv, SameShow
<1> QED BY <1>7, <1>8, <1>9

\* Every step keeps it.
LEMMA NextShown == ASSUME IInv, ShownInv, [Next]_vars PROVE ShownInv'
<1>0. m \in MainType /\ core \in CoreType
  BY DEF IInv, TypeInv
<1>1. CASE UNCHANGED vars
  BY <1>1, ShownSame DEF vars, SameShow, Live
<1>2. ASSUME NEW p \in setup.profiles, StartAsked(p) PROVE ShownInv'
  <2>1. PICK s \in MainType, r \in StartRequest : SameShow(m, s) /\ StartEnds(s, m', r, FALSE)
    BY <1>2, StartAskedIs
  <2>2. UNCHANGED <<running, posts, stopper>>
    BY <1>2 DEF StartAsked
  <2> QED BY <2>1, <2>2, ShownStart
<1>3. CASE StartRanked
  <2>1. PICK r \in ranking : StartEnds(m, m', r, TRUE)
    BY <1>3, StartRankedIs
  <2>2. UNCHANGED <<running, posts, stopper>> /\ r \in StartRequest /\ SameShow(m, m)
    BY <1>3 DEF StartRanked, IInv, TypeInv, SameShow
  <2> QED BY <2>1, <2>2, ShownStart
<1>4. CASE RetryAfterGeoFetch
  <2>1. PICK s \in MainType :
          /\ SameShow(m, s)
          /\ (m' = s /\ UNCHANGED <<starters, ranking>>) \/ StartEnds(s, m', Own(m.geo), FALSE)
    BY <1>4, RetryIs
  <2>2. Own(m.geo) \in StartRequest /\ UNCHANGED <<running, posts, stopper>>
    BY <1>4, RetryIs
  <2>3. CASE m' = s /\ UNCHANGED <<starters, ranking>>
    BY <2>1, <2>2, <2>3, ShownSame DEF Live
  <2>4. CASE StartEnds(s, m', Own(m.geo), FALSE)
    BY <2>1, <2>2, <2>4, ShownStart
  <2> QED BY <2>1, <2>3, <2>4
<1>5. CASE StarterSteps
  BY <1>5, StarterShown
<1>6. ASSUME NEW manual \in BOOLEAN, StopAsked(manual) PROVE ShownInv'
  <2>1. UNCHANGED <<running, posts, starters>>
    BY <1>6 DEF StopAsked
  <2>2. \/ SameShow(m, m') /\ stopper' = stopper
        \/ /\ ~mu_stopping /\ m'.connecting = m.connecting /\ m'.disconnecting = TRUE
           /\ m'.shown = ConnectionState(m') /\ BeginStop(FALSE, manual)
    BY <1>6, StopAskedIs
  <2>3. CASE SameShow(m, m') /\ stopper' = stopper
    BY <2>1, <2>3, ShownSame DEF Live
  <2> QED BY <2>1, <2>2, <2>3, ShownStop
<1>7. CASE StopRpc \/ StopClears \/ StopTornDown
  BY <1>7, StopperShown
<1>10. CASE HandlePost
  BY <1>10, PostShown
<1>11. CASE SupervisorStarts
  BY <1>11, SupervisorStartsIs, ShownSame DEF Live
<1>12. CASE CoreAccepted
  <2>1. m' = [m EXCEPT !.st = "probing"] /\ UNCHANGED <<running, posts, stopper, starters>>
    BY <1>12 DEF CoreAccepted
  <2>2. SameShow(m, m')
    BY <1>0, <2>1, CoreIs
  <2> QED BY <2>1, <2>2, ShownSame DEF Live
<1>13. CASE onCoreGaveUp
  <2>1. m' = GivenUp(m) /\ UNCHANGED <<running, posts, stopper, starters>>
    BY <1>13 DEF onCoreGaveUp
  <2>2. SameShow(m, m')
    BY <1>0, <2>1, GivenUpIs DEF GivenUpSays
  <2> QED BY <2>1, <2>2, ShownSame DEF Live
<1>14. CASE onCoreStarted
  <2>1. UNCHANGED <<running, posts, stopper>>
    BY <1>14 DEF onCoreStarted
  <2>2. PICK s \in MainType, r \in StartRequest :
          /\ UpSays(s)
          /\ \/ m' = s /\ UNCHANGED <<starters, ranking>>
             \/ m' = Finish(s, r) /\ UNCHANGED <<starters, ranking>>
             \/ StartEnds(s, m', r, FALSE)
    BY <1>14, CoreStartedIs
  <2>3. SameShow(m, s) /\ s \in MainType
    BY <2>2 DEF UpSays
  <2>4. CASE m' = s /\ UNCHANGED <<starters, ranking>>
    BY <2>1, <2>3, <2>4, ShownSame DEF Live
  <2>5. CASE m' = Finish(s, r) /\ UNCHANGED <<starters, ranking>>
    <3>1. SameShow(s, m')
      BY <2>3, <2>5, FinishIs DEF FinishSays
    <3> QED BY <2>1, <2>3, <2>5, <3>1, ShownSame DEF Live, SameShow
  <2>6. CASE StartEnds(s, m', r, FALSE)
    BY <2>1, <2>3, <2>6, ShownStart
  <2> QED BY <2>2, <2>4, <2>5, <2>6
<1>15. CASE CoreDies
  <2>1. m' = [m EXCEPT !.st = "dead"] /\ UNCHANGED <<running, posts, stopper>> /\ starters' = Lost(starters)
    BY <1>15 DEF CoreDies
  <2>2. SameShow(m, m')
    BY <1>0, <2>1, CoreIs
  <2> QED BY <2>1, <2>2, ShownSame, LostLive
<1>16. CASE CoreExited
  <2>1. UNCHANGED <<running, posts, stopper, starters>>
    BY <1>16 DEF CoreExited
  <2>2. SameShow(m, m')
    BY <1>16, CoreExitedIs DEF GivenUpSays, SameShow
  <2> QED BY <2>1, <2>2, ShownSame DEF Live
<1>17. CASE CleanUp \/ TakeRestart \/ RestartStopped
  <2>1. running' = running
    BY <1>17 DEF CleanUp, TakeRestart, RestartStopped
  <2>2. \/ Respawn /\ UNCHANGED <<posts, stopper>>
        \/ UNCHANGED <<m, starters, posts, stopper>>
        \/ /\ ~mu_stopping /\ BeginStop(TRUE, FALSE) /\ posts' = posts \o Post("disconnecting", NoRequest, FALSE)
           /\ UNCHANGED <<m, starters>>
    BY <1>17 DEF CleanUp, TakeRestart, RestartStopped, CrashStop
  <2>3. CASE Respawn /\ UNCHANGED <<posts, stopper>>
    <3>1. SameShow(m, m') /\ starters' = Lost(starters)
      BY <2>3, RespawnIs
    <3> QED BY <2>1, <2>3, <3>1, ShownSame, LostLive
  <2>4. CASE UNCHANGED <<m, starters, posts, stopper>>
    BY <2>1, <2>4, ShownSame DEF Live, SameShow
  <2>5. CASE /\ ~mu_stopping /\ BeginStop(TRUE, FALSE) /\ posts' = posts \o Post("disconnecting", NoRequest, FALSE)
             /\ UNCHANGED <<m, starters>>
    BY <2>1, <2>5, ShownNotice DEF Live, SameShow
  <2> QED BY <2>2, <2>3, <2>4, <2>5
<1>19. ASSUME NEW k \in {"Disabled", "Arming", "Armed", "Failed"}, KillSwitchChanges(k) PROVE ShownInv'
  <2>1. UNCHANGED <<running, posts, stopper>>
    BY <1>19 DEF KillSwitchChanges
  <2>2. PICK t \in MainType :
          /\ SwitchSays(k, t)
          /\ \/ m' = t /\ UNCHANGED <<starters, ranking>>
             \/ \E u \in MainType : SameShow(t, u) /\ StartEnds(u, m', m.killReq, FALSE)
    BY <1>19, SwitchIs
  <2>3. SameShow(m, t) /\ m.killReq \in StartRequest
    BY <1>0, <2>2 DEF SwitchSays, MainType
  <2>4. CASE m' = t /\ UNCHANGED <<starters, ranking>>
    BY <2>1, <2>3, <2>4, ShownSame DEF Live
  <2>5. ASSUME NEW u \in MainType, SameShow(t, u), StartEnds(u, m', m.killReq, FALSE) PROVE ShownInv'
    <3>1. SameShow(m, u)
      BY <2>3, <2>5 DEF SameShow
    <3> QED BY <2>1, <2>3, <2>5, <3>1, ShownStart
  <2> QED BY <2>2, <2>4, <2>5
<1>20. CASE GuardWindowExpires
  BY <1>20, WindowIs, ShownSame DEF Live
<1>21. CASE PrepareExit
  <2>1. UNCHANGED <<running, posts, starters>>
    BY <1>21 DEF PrepareExit
  <2>2. \/ m' = m /\ stopper' = stopper
        \/ /\ ~mu_stopping /\ BeginStop(FALSE, FALSE)
           /\ m'.connecting = m.connecting /\ m'.disconnecting = TRUE /\ m'.shown = ConnectionState(m')
    BY <1>21, ExitIs
  <2>3. CASE m' = m /\ stopper' = stopper
    BY <2>1, <2>3, ShownSame DEF Live, SameShow
  <2> QED BY <2>1, <2>2, <2>3, ShownStop
<1>22. CASE Rests
  BY <1>1, <1>22 DEF Rests
<1>23. CASE OwedStartRuns
  BY <1>23, ShownSame DEF OwedStartRuns, Live, SameShow
<1> QED
  BY <1>1, <1>2, <1>3, <1>4, <1>5, <1>6, <1>7, <1>10, <1>11, <1>12, <1>13, <1>14, <1>15,
     <1>16, <1>17, <1>19, <1>20, <1>21, <1>22, <1>23 DEF Next

\* When nothing is in progress, what was last shown is what runs.
THEOREM WhatIsShownRuns == Spec => []StateIsShown
<1>1. Init => IInv /\ ShownInv
  <2>1. Init => ShownInv
    BY DEF Init, ShownInv, PostsInv, Has, ConnectionState
  <2> QED BY <2>1, InitIInv
<1>2. IInv /\ ShownInv /\ [Next]_vars => IInv' /\ ShownInv'
  BY NextIInv, NextShown
<1>3. ShownInv => StateIsShown
  <2> SUFFICES ASSUME ShownInv, Quiet PROVE m.shown = IF running # None THEN "Running" ELSE "Idle"
    BY DEF StateIsShown
  <2>1. starters = {} /\ stopper.pc = "none" /\ posts = << >>
    BY DEF Quiet, mu_stopping
  <2>2. ~Live /\ ~Has(posts, "connected")
    BY <2>1 DEF Live, Has
  <2> QED BY <2>1, <2>2 DEF ShownInv, ConnectionState
<1> QED BY <1>1, <1>2, <1>3, PTL DEF Spec

-----------------------------------------------------------------------------
(* The profile that the core runs is the one the engine knows. *)

\* A stop worker and a start worker never work on the same m_running: there is a profile to stop
\* until it is cleared, none from the Start RPC on, and none behind a worker's back.
WorkInv ==
  /\ stopper.pc \in {"rpc", "clear"} => running # None
  /\ \A w \in starters :
       /\ w.pc \in {"rpc", "accepted", "recorded"} => running = None
       /\ w.pc = "wait" => running = None \/ stopper.pc \in {"rpc", "clear"}
       /\ w.pc # "release" /\ stopper.pc \in {"posted", "ui"} => running = None
\* The worker that has loaded a profile and has not recorded it yet.
Loading(p) == \E w \in starters : w.pc \in {"accepted", "recorded"} /\ w.req.id = p
\* A profile is loaded because it runs, because a worker is about to record it, or in a core whose
\* restart is under way or was cut short; only in such a core does a Start that is refused leave a
\* box behind.  Nothing of it is known of a core that has carried out an owed Start.
Doomed == m.restart # "no" /\ (cores = "restartStop" \/ exiting)
KnownInv ==
  ~core.overdue =>
    /\ core.loaded # None => running = core.loaded \/ Loading(core.loaded) \/ Doomed
    /\ core.stray => Doomed
\* An ordinary stop unloads before it clears; a crash stop clears with DS_cores waiting for it.
CrashInv ==
  /\ stopper.pc = "clear" /\ ~stopper.crash /\ ~core.overdue => core.loaded = None
  /\ stopper.pc # "none" /\ stopper.crash => cores \in {"diedStop", "restartStop"}
  /\ cores = "restartStop" => m.restart # "no"
LoadedInv == WorkInv /\ KnownInv /\ CrashInv

\* A step that leaves the workers, the core and m_running alone.
LEMMA LoadedSame ==
  ASSUME LoadedInv, UNCHANGED <<running, stopper, starters, cores>>, core' = core \/ SameBox(core, core'), exiting => exiting',
         m'.restart = "no" => m.restart = "no"
  PROVE  LoadedInv'
  BY DEF LoadedInv, WorkInv, KnownInv, Doomed, CrashInv, Loading, SameBox
\* start().
LEMMA LoadedStart ==
  ASSUME LoadedInv, NEW s, NEW r \in StartRequest, NEW b, StartEnds(s, m', r, b), s.restart = "no" => m.restart = "no",
         UNCHANGED <<running, stopper, cores, core, exiting>>
  PROVE  LoadedInv'
<1>1. CASE StartLaunches(s, m', r)
  <2>1. /\ m'.restart = s.restart /\ starters = {} /\ stopper.pc = "none" /\ starters' = {NewStarter(r)}
    BY <1>1 DEF StartLaunches, mu_stopping
  <2>2. \A v \in starters' : v.pc = "begin"
    BY <2>1 DEF NewStarter
  <2>3. WorkInv'
    BY <2>1, <2>2 DEF LoadedInv, WorkInv
  <2>4. KnownInv'
    BY <2>1 DEF LoadedInv, KnownInv, Doomed, Loading
  <2>5. CrashInv'
    BY <2>1 DEF LoadedInv, CrashInv
  <2> QED BY <2>3, <2>4, <2>5 DEF LoadedInv
<1>2. CASE ~StartLaunches(s, m', r)
  <2>1. starters' = starters /\ (m'.restart = "no" => s.restart = "no")
    BY <1>2 DEF StartEnds, StartAnswers, StartHolds, StartDefers, StartRanks
  <2> QED BY <2>1, LoadedSame
<1> QED BY <1>1, <1>2
\* The core is lost.
LEMMA LoadedLost ==
  ASSUME IInv, LoadedInv, core' = NoCore, starters' = Lost(starters), UNCHANGED <<running, stopper>>,
         stopper.pc # "none" /\ stopper.crash => cores' \in {"diedStop", "restartStop"},
         cores' = "restartStop" => m'.restart # "no"
  PROVE  LoadedInv'
<1>1. core'.loaded = None /\ core'.stray = FALSE
  BY DEF NoCore
<1>2. \A v \in starters' : \E w \in starters : v.pc = w.pc
  BY LostIs
<1>3. WorkInv'
  BY <1>2 DEF LoadedInv, WorkInv
<1> QED BY <1>1, <1>3 DEF LoadedInv, KnownInv, Doomed, CrashInv, SameBox
\* A stop that begins, for DS_cores or not.
LEMMA LoadedStop ==
  ASSUME LoadedInv, running # None, ~mu_stopping, NEW c \in BOOLEAN, NEW d, BeginStop(c, d),
         UNCHANGED <<running, starters, core>>, exiting => exiting', m'.restart = m.restart,
         ~c => cores' = cores, c => cores' \in {"diedStop", "restartStop"},
         cores' = "restartStop" => m.restart # "no", cores # "restartStop" \/ cores' = cores
  PROVE  LoadedInv'
<1>1. stopper.pc = "none" /\ stopper'.pc = "rpc" /\ stopper'.crash = c
  BY DEF mu_stopping, BeginStop
<1>2. WorkInv'
  BY <1>1 DEF LoadedInv, WorkInv
<1>3. KnownInv'
  BY DEF LoadedInv, KnownInv, Doomed, Loading
<1>4. CrashInv'
  BY <1>1 DEF LoadedInv, CrashInv
<1> QED BY <1>2, <1>3, <1>4 DEF LoadedInv

\* The worker's steps.
LEMMA StarterLoaded == ASSUME IInv, LoadedInv, StarterSteps PROVE LoadedInv'
<1>1. PICK w \in starters :
        \/ StarterBegins(w) \/ InstallGuard(w) \/ StarterLooks(w) \/ StarterStops(w) \/ StarterWaits(w)
        \/ StartAnswered(w) \/ StartTimesOut(w) \/ CommitOtp(w) \/ StarterRecords(w) \/ ReleaseGuard(w)
  BY DEF StarterSteps
<1>2. m'.restart = m.restart /\ exiting' = exiting /\ cores' = cores /\ stopper \in StopperType
  BY <1>1, StarterIs DEF IInv, TypeInv
<1>3. CASE ReleaseGuard(w)
  <2>1. starters = {w} /\ starters' = {} /\ w.pc = "release" /\ SameBox(core, core') /\ UNCHANGED <<running, stopper>>
    BY <1>3, ReleaseIs DEF ReleaseGuard
  <2> QED BY <1>2, <2>1 DEF LoadedInv, WorkInv, KnownInv, Doomed, CrashInv, Loading, SameBox
<1>4. CASE ~ReleaseGuard(w)
  <2>1. PICK v \in StarterType : starters = {w} /\ starters' = {v} /\ v.req = w.req /\ StarterSays(w, v)
    BY <1>1, <1>4, StarterDoes
  <2> DEFINE At(u) == /\ u.pc \in {"rpc", "accepted", "recorded"} => running = None
                      /\ u.pc = "wait" => running = None \/ stopper.pc \in {"rpc", "clear"}
                      /\ u.pc # "release" /\ stopper.pc \in {"posted", "ui"} => running = None
  <2>2. At(w) /\ (stopper.pc \in {"rpc", "clear"} => running # None)
    BY DEF LoadedInv, WorkInv
  <2>3. WorkInv' <=> At(v)' /\ (stopper'.pc \in {"rpc", "clear"} => running' # None)
    BY <2>1 DEF WorkInv
  <2>4. \A p : Loading(p) <=> w.pc \in {"accepted", "recorded"} /\ w.req.id = p
    BY <2>1 DEF Loading
  <2>5. \A p : Loading(p)' <=> v.pc \in {"accepted", "recorded"} /\ w.req.id = p
    BY <2>1 DEF Loading
  <2>6. CASE /\ w.pc \in {"begin", "guard", "look"} /\ v.pc \in {"guard", "look", "stop", "rpc"}
             /\ v.pc = "rpc" => running = None
             /\ SameBox(core, core') /\ UNCHANGED <<running, stopper, posts>>
    <3>1. WorkInv'
      BY <2>2, <2>3, <2>6
    <3> QED BY <1>2, <2>4, <2>5, <2>6, <3>1 DEF LoadedInv, KnownInv, Doomed, CrashInv, SameBox
  <2>7. CASE /\ w.pc = "stop" /\ v.pc = "wait" /\ SameBox(core, core') /\ running' = running
             /\ running = None \/ (mu_stopping /\ stopper' = stopper)
    <3>1. WorkInv'
      BY <1>2, <2>1, <2>2, <2>3, <2>7 DEF mu_stopping, StarterSays, StopperType
    <3>2. stopper' = stopper
      BY <2>1, <2>7 DEF StarterSays
    <3> QED BY <1>2, <2>4, <2>5, <2>7, <3>1, <3>2 DEF LoadedInv, KnownInv, Doomed, CrashInv, SameBox
  <2>8. CASE /\ w.pc = "stop" /\ v.pc = "wait" /\ SameBox(core, core') /\ running' = running
             /\ running # None /\ ~mu_stopping /\ BeginStop(FALSE, TRUE)
    <3>1. stopper'.pc = "rpc" /\ ~stopper'.crash
      BY <2>8 DEF BeginStop
    <3>2. WorkInv'
      BY <2>2, <2>3, <2>8, <3>1
    <3> QED BY <1>2, <2>4, <2>5, <2>8, <3>1, <3>2 DEF LoadedInv, KnownInv, Doomed, CrashInv, SameBox
  <2>9. CASE /\ w.pc = "wait" /\ v.pc = "rpc" /\ ~mu_stopping
             /\ SameBox(core, core') /\ UNCHANGED <<running, stopper, posts>>
    <3>1. WorkInv'
      BY <2>2, <2>3, <2>9 DEF mu_stopping
    <3> QED BY <1>2, <2>4, <2>5, <2>9, <3>1 DEF LoadedInv, KnownInv, Doomed, CrashInv, SameBox
  <2>10. CASE /\ w.pc = "rpc" /\ v.pc = "accepted" /\ CoreRunning(m) /\ core.loaded = None /\ core'.loaded = w.req.id
              /\ core'.stray = core.stray /\ core'.overdue = core.overdue
              /\ UNCHANGED <<running, stopper, posts>>
    <3>1. WorkInv' /\ running = None
      BY <2>2, <2>3, <2>10
    <3>2. KnownInv'
      BY <1>2, <2>5, <2>10 DEF LoadedInv, KnownInv, Doomed
    <3>3. CrashInv'
      BY <1>2, <2>2, <2>10, <3>1 DEF LoadedInv, CrashInv
    <3> QED BY <3>1, <3>2, <3>3 DEF LoadedInv
  <2>11. CASE /\ w.pc \in {"rpc", "accepted"} /\ v.pc = "release" /\ posts' = Ended(w, FALSE)
              /\ \/ w.pc = "rpc" /\ SameBox(core, core')
                 \/ w.pc = "rpc" /\ core.loaded # None /\ core'.loaded = None /\ core'.overdue = core.overdue
                 \/ /\ w.pc = "accepted" /\ core'.loaded = None
                    /\ core'.stray = core.stray /\ core'.overdue = core.overdue
              /\ UNCHANGED <<running, stopper>>
    <3>1. WorkInv' /\ running = None
      BY <2>2, <2>3, <2>11
    <3>2. CrashInv'
      BY <1>2, <2>11 DEF LoadedInv, CrashInv, SameBox
    <3>3. KnownInv'
      BY <1>2, <2>4, <2>5, <2>11, <3>1 DEF LoadedInv, KnownInv, Doomed, SameBox
    <3> QED BY <3>1, <3>2, <3>3 DEF LoadedInv
  <2>12. CASE /\ w.pc = "accepted" /\ v.pc = "recorded"
              /\ SameBox(core, core') /\ UNCHANGED <<running, stopper, posts>>
    <3>1. WorkInv'
      BY <2>2, <2>3, <2>12
    <3> QED BY <1>2, <2>4, <2>5, <2>12, <3>1 DEF LoadedInv, KnownInv, Doomed, CrashInv, SameBox
  <2>13. CASE /\ w.pc = "recorded" /\ v.pc = "release" /\ running' = w.req.id /\ posts' = Ended(w, TRUE)
              /\ SameBox(core, core') /\ stopper' = stopper
    <3>1. WorkInv' /\ running = None
      BY <2>2, <2>3, <2>13
    <3> QED BY <1>2, <2>4, <2>5, <2>13, <3>1 DEF LoadedInv, KnownInv, Doomed, CrashInv, SameBox
  <2> QED BY <2>1, <2>6, <2>7, <2>8, <2>9, <2>10, <2>11, <2>12, <2>13 DEF StarterSays
<1> QED BY <1>3, <1>4

\* The stop worker's steps.
LEMMA StopperLoaded ==
  ASSUME IInv, LoadedInv, IdentityInv, StopRpc \/ StopClears \/ StopTornDown
  PROVE  LoadedInv'
<1>0. stopper \in StopperType /\ core \in CoreType
  BY DEF IInv, TypeInv
<1>1. CASE StopRpc
  <2>1. /\ stopper.pc = "rpc" /\ stopper'.pc = "clear" /\ stopper'.crash = stopper.crash
        /\ UNCHANGED <<m, starters, running, cores, exiting>>
    BY <1>0, <1>1 DEF StopRpc, StopperType
  <2>2. /\ core'.loaded = IF stopper.crash THEN core.loaded ELSE None
        /\ core'.stray = core.stray /\ core'.overdue = core.overdue
    BY <1>0, <1>1 DEF StopRpc, CoreType
  <2>3. WorkInv'
    BY <2>1 DEF LoadedInv, WorkInv
  <2> QED BY <2>1, <2>2, <2>3 DEF LoadedInv, KnownInv, Doomed, CrashInv, Loading, SameBox
<1>2. CASE StopClears
  <2>1. /\ stopper.pc = "clear" /\ stopper'.pc = "posted" /\ stopper'.crash = stopper.crash /\ running' = None
        /\ UNCHANGED <<m, starters, core, cores, exiting>>
    BY <1>0, <1>2 DEF StopClears, StopperType
  <2>2. WorkInv'
    BY <2>1 DEF LoadedInv, WorkInv
  <2>3. KnownInv'
    <3>1. CASE core.loaded # None /\ ~core.overdue
      <4>1. cores \in {"diedStop", "restartStop"} /\ CoreRunning(m)
        BY <2>1, <3>1 DEF LoadedInv, CrashInv, IdentityInv, Identity
      <4>2. cores = "restartStop"
        BY <4>1 DEF IdentityInv, DeadInv, CoreRunning
      <4> QED BY <2>1, <4>2 DEF LoadedInv, CrashInv, KnownInv, Doomed
    <3>2. CASE core.loaded = None \/ core.overdue
      BY <2>1, <3>2 DEF LoadedInv, KnownInv, Doomed
    <3> QED BY <3>1, <3>2
  <2>4. CrashInv'
    BY <2>1 DEF LoadedInv, CrashInv
  <2> QED BY <2>2, <2>3, <2>4 DEF LoadedInv
<1>3. CASE StopTornDown
  <2>1. m'.restart = m.restart
    BY <1>3, TornDownIs DEF SameWait
  <2>2. /\ stopper.pc = "ui" /\ stopper'.pc = "none" /\ UNCHANGED <<starters, running, core, exiting>>
        /\ cores' \in {cores, "report"} /\ (cores = "restartStop" => cores' = cores)
    BY <1>3 DEF StopTornDown, NoStop
  <2>3. WorkInv'
    BY <2>2 DEF LoadedInv, WorkInv
  <2> QED BY <2>1, <2>2, <2>3 DEF LoadedInv, KnownInv, Doomed, CrashInv, Loading, SameBox
<1> QED BY <1>1, <1>2, <1>3

\* The closures: the one that ends a stop finds m_running cleared.
LEMMA PostLoaded == ASSUME IInv, LoadedInv, ShownInv, HandlePost PROVE LoadedInv'
<1> DEFINE p == Head(posts)
<1>1. /\ posts \in Seq(PostType) /\ posts # << >> /\ PostSays(p)
      /\ UNCHANGED <<starters, running, core, cores, exiting>> /\ stopper \in StopperType
  BY HandlePostIs DEF IInv, TypeInv
<1>2. p.op = "teardown" => stopper.pc = "posted"
  BY <1>1, HandledHas DEF ShownInv, PostsInv
<1> HIDE DEF p
<1>3. m'.restart = m.restart
  BY <1>1 DEF PostSays, SameWait
<1>4. CASE p.op = "teardown"
  <2>1. stopper.pc = "posted" /\ stopper'.pc = "ui" /\ stopper'.crash = stopper.crash
    BY <1>1, <1>2, <1>4 DEF PostSays, StopperType
  <2>2. WorkInv'
    BY <1>1, <2>1 DEF LoadedInv, WorkInv
  <2> QED BY <1>1, <1>3, <2>1, <2>2 DEF LoadedInv, KnownInv, Doomed, CrashInv, Loading, SameBox
<1>5. CASE p.op # "teardown"
  <2>1. stopper' = stopper
    BY <1>1, <1>5 DEF PostSays
  <2> QED BY <1>1, <1>3, <2>1, LoadedSame
<1> QED BY <1>4, <1>5

\* Every step keeps it.
LEMMA NextLoaded == ASSUME IInv, LoadedInv, IdentityInv, ShownInv, [Next]_vars PROVE LoadedInv'
<1>0. m \in MainType /\ core \in CoreType
  BY DEF IInv, TypeInv
<1>1. CASE UNCHANGED vars
  BY <1>1, LoadedSame DEF vars, SameBox
<1>2. ASSUME NEW p \in setup.profiles, StartAsked(p) PROVE LoadedInv'
  <2>1. PICK s \in MainType, r \in StartRequest : s.restart = m.restart /\ StartEnds(s, m', r, FALSE)
    BY <1>2, StartAskedIs DEF SameWait
  <2>2. UNCHANGED <<running, stopper, cores, core, exiting>>
    BY <1>2 DEF StartAsked
  <2> QED BY <2>1, <2>2, LoadedStart
<1>3. CASE StartRanked
  <2>1. PICK r \in ranking : StartEnds(m, m', r, TRUE)
    BY <1>3, StartRankedIs
  <2>2. r \in StartRequest /\ UNCHANGED <<running, stopper, cores, core, exiting>>
    BY <1>3 DEF StartRanked, IInv, TypeInv
  <2> QED BY <2>1, <2>2, LoadedStart
<1>4. CASE RetryAfterGeoFetch
  <2>1. PICK s \in MainType :
          /\ s.restart = m.restart
          /\ (m' = s /\ UNCHANGED <<starters, ranking>>) \/ StartEnds(s, m', Own(m.geo), FALSE)
    BY <1>4, RetryIs
  <2>2. Own(m.geo) \in StartRequest /\ UNCHANGED <<running, stopper, cores, core, exiting>>
    BY <1>4, RetryIs
  <2>3. CASE m' = s /\ UNCHANGED <<starters, ranking>>
    BY <2>1, <2>2, <2>3, LoadedSame
  <2>4. CASE StartEnds(s, m', Own(m.geo), FALSE)
    BY <2>1, <2>2, <2>4, LoadedStart
  <2> QED BY <2>1, <2>3, <2>4
<1>5. CASE StarterSteps
  BY <1>5, StarterLoaded
<1>6. ASSUME NEW manual \in BOOLEAN, StopAsked(manual) PROVE LoadedInv'
  <2>1. UNCHANGED <<running, cores, core, starters, exiting>>
    BY <1>6 DEF StopAsked
  <2>2. /\ m'.restart = m.restart
        /\ stopper' = stopper \/ (running # None /\ ~mu_stopping /\ BeginStop(FALSE, manual))
    BY <1>6, StopAskedIs
  <2>3. CASE stopper' = stopper
    BY <2>1, <2>2, <2>3, LoadedSame
  <2>4. CASE running # None /\ ~mu_stopping /\ BeginStop(FALSE, manual)
    <3>1. cores = "restartStop" => m.restart # "no"
      BY DEF LoadedInv, CrashInv
    <3> QED BY <2>1, <2>2, <2>4, <3>1, LoadedStop
  <2> QED BY <2>2, <2>3, <2>4
<1>7. CASE StopRpc \/ StopClears \/ StopTornDown
  BY <1>7, StopperLoaded
<1>10. CASE HandlePost
  BY <1>10, PostLoaded
<1>11. CASE SupervisorStarts
  BY <1>11, SupervisorStartsIs, LoadedSame
<1>12. CASE CoreAccepted
  <2>1. m' = [m EXCEPT !.st = "probing"] /\ UNCHANGED <<running, stopper, starters, core, cores, exiting>>
    BY <1>12 DEF CoreAccepted
  <2>2. m'.restart = m.restart
    BY <1>0, <2>1, CoreIs DEF SameWait
  <2> QED BY <2>1, <2>2, LoadedSame
<1>13. CASE onCoreGaveUp
  <2>1. m' = GivenUp(m) /\ UNCHANGED <<running, stopper, starters, core, cores, exiting>>
    BY <1>13 DEF onCoreGaveUp
  <2>2. m'.restart = m.restart
    BY <1>0, <2>1, GivenUpIs DEF GivenUpSays
  <2> QED BY <2>1, <2>2, LoadedSame
<1>14. CASE onCoreStarted
  <2>1. UNCHANGED <<running, stopper, core, cores, exiting>>
    BY <1>14 DEF onCoreStarted
  <2>2. PICK s \in MainType, r \in StartRequest :
          /\ UpSays(s)
          /\ \/ m' = s /\ UNCHANGED <<starters, ranking>>
             \/ m' = Finish(s, r) /\ UNCHANGED <<starters, ranking>>
             \/ StartEnds(s, m', r, FALSE)
    BY <1>14, CoreStartedIs
  <2>3. s.restart = m.restart
    BY <2>2 DEF UpSays
  <2>4. CASE m' = s /\ UNCHANGED <<starters, ranking>>
    BY <2>1, <2>3, <2>4, LoadedSame
  <2>5. CASE m' = Finish(s, r) /\ UNCHANGED <<starters, ranking>>
    <3>1. m'.restart = s.restart
      BY <2>5, FinishIs DEF FinishSays, SameWait
    <3> QED BY <2>1, <2>3, <2>5, <3>1, LoadedSame
  <2>6. CASE StartEnds(s, m', r, FALSE)
    BY <2>1, <2>3, <2>6, LoadedStart
  <2> QED BY <2>2, <2>4, <2>5, <2>6
<1>15. CASE CoreDies
  <2>1. /\ UNCHANGED <<running, stopper>> /\ starters' = Lost(starters) /\ core' = NoCore
        /\ cores = "idle" /\ cores' \in {"report", "died"}
    BY <1>15 DEF CoreDies
  <2>2. ~(stopper.pc # "none" /\ stopper.crash)
    BY <2>1 DEF LoadedInv, CrashInv
  <2> QED BY <2>1, <2>2, LoadedLost
<1>16. CASE CleanUp
  <2>1. UNCHANGED <<m, core, starters, running, exiting>> /\ cores = "died"
    BY <1>16 DEF CleanUp
  <2>2. \/ cores' = "report" /\ stopper' = stopper
        \/ running # None /\ ~mu_stopping /\ BeginStop(TRUE, FALSE) /\ cores' = "diedStop"
    BY <1>16 DEF CleanUp, CrashStop
  <2>3. CASE cores' = "report" /\ stopper' = stopper
    <3>1. WorkInv' /\ KnownInv'
      BY <2>1, <2>3 DEF LoadedInv, WorkInv, KnownInv, Doomed, Loading
    <3>2. CrashInv'
      BY <2>1, <2>3 DEF LoadedInv, CrashInv
    <3> QED BY <3>1, <3>2 DEF LoadedInv
  <2>4. CASE running # None /\ ~mu_stopping /\ BeginStop(TRUE, FALSE) /\ cores' = "diedStop"
    BY <2>1, <2>4, LoadedStop
  <2> QED BY <2>2, <2>3, <2>4
<1>17. CASE CoreExited
  <2>1. UNCHANGED <<running, stopper, starters, core, exiting>> /\ cores = "report" /\ cores' = "idle"
    BY <1>17 DEF CoreExited
  <2>2. m'.restart = m.restart
    BY <1>17, CoreExitedIs DEF GivenUpSays
  <2>3. WorkInv' /\ KnownInv'
    BY <2>1, <2>2 DEF LoadedInv, WorkInv, KnownInv, Doomed, Loading
  <2>4. CrashInv'
    BY <2>1, <2>2 DEF LoadedInv, CrashInv
  <2> QED BY <2>3, <2>4 DEF LoadedInv
<1>18. CASE TakeRestart
  <2>1. cores = "idle" /\ m.restart # "no" /\ UNCHANGED <<running, exiting>>
    BY <1>18 DEF TakeRestart
  <2>2. \/ Respawn /\ stopper' = stopper
        \/ cores' = "idle" /\ stopper' = stopper /\ UNCHANGED <<m, core, starters>>
        \/ /\ running # None /\ ~mu_stopping /\ BeginStop(TRUE, FALSE) /\ cores' = "restartStop"
           /\ UNCHANGED <<m, core, starters>>
    BY <1>18 DEF TakeRestart, CrashStop
  <2>3. CASE Respawn /\ stopper' = stopper
    <3>1. core' = NoCore /\ starters' = Lost(starters) /\ cores' = "idle"
      BY <2>3, RespawnIs
    <3>2. ~(stopper.pc # "none" /\ stopper.crash)
      BY <2>1 DEF LoadedInv, CrashInv
    <3> QED BY <2>1, <2>3, <3>1, <3>2, LoadedLost
  <2>4. CASE cores' = "idle" /\ stopper' = stopper /\ UNCHANGED <<m, core, starters>>
    BY <2>1, <2>4, LoadedSame
  <2>5. CASE /\ running # None /\ ~mu_stopping /\ BeginStop(TRUE, FALSE) /\ cores' = "restartStop"
             /\ UNCHANGED <<m, core, starters>>
    BY <2>1, <2>5, LoadedStop
  <2> QED BY <2>2, <2>3, <2>4, <2>5
<1>a. CASE RestartStopped
  <2>1. /\ cores = "restartStop" /\ ~(stopper.pc # "none" /\ stopper.crash) /\ UNCHANGED <<running, stopper, exiting>>
        /\ Respawn \/ (exiting /\ cores' = "idle" /\ UNCHANGED <<m, core, starters>>)
    BY <1>a DEF RestartStopped, mu_stopping
  <2>2. CASE Respawn
    <3>1. core' = NoCore /\ starters' = Lost(starters) /\ cores' = "idle"
      BY <2>2, RespawnIs
    <3> QED BY <2>1, <3>1, LoadedLost
  <2>3. CASE exiting /\ cores' = "idle" /\ UNCHANGED <<m, core, starters>>
    <3>1. WorkInv' /\ KnownInv'
      BY <2>1, <2>3 DEF LoadedInv, WorkInv, KnownInv, Doomed, Loading
    <3>2. CrashInv'
      BY <2>1, <2>3 DEF LoadedInv, CrashInv
    <3> QED BY <3>1, <3>2 DEF LoadedInv
  <2> QED BY <2>1, <2>2, <2>3
<1>19. ASSUME NEW k \in {"Disabled", "Arming", "Armed", "Failed"}, KillSwitchChanges(k) PROVE LoadedInv'
  <2>1. UNCHANGED <<running, stopper, core, cores, exiting>>
    BY <1>19 DEF KillSwitchChanges
  <2>2. PICK t \in MainType :
          /\ SwitchSays(k, t)
          /\ \/ m' = t /\ UNCHANGED <<starters, ranking>>
             \/ \E u \in MainType : SameWait(t, u) /\ StartEnds(u, m', m.killReq, FALSE)
    BY <1>19, SwitchIs
  <2>3. (t.restart = "no" => m.restart = "no") /\ m.killReq \in StartRequest
    BY <1>0, <2>2 DEF SwitchSays, MainType
  <2>4. CASE m' = t /\ UNCHANGED <<starters, ranking>>
    BY <2>1, <2>3, <2>4, LoadedSame
  <2>5. ASSUME NEW u \in MainType, SameWait(t, u), StartEnds(u, m', m.killReq, FALSE) PROVE LoadedInv'
    <3>1. u.restart = "no" => m.restart = "no"
      BY <2>3, <2>5 DEF SameWait
    <3> QED BY <2>1, <2>3, <2>5, <3>1, LoadedStart
  <2> QED BY <2>2, <2>4, <2>5
<1>20. CASE GuardWindowExpires
  BY <1>20, WindowIs, LoadedSame
<1>21. CASE PrepareExit
  <2>1. UNCHANGED <<running, core, cores, starters>> /\ exiting' = TRUE
    BY <1>21 DEF PrepareExit
  <2>2. \/ m' = m /\ stopper' = stopper
        \/ running # None /\ ~mu_stopping /\ BeginStop(FALSE, FALSE) /\ m'.restart = m.restart
    BY <1>21, ExitIs DEF SameWait
  <2>3. CASE m' = m /\ stopper' = stopper
    BY <2>1, <2>3, LoadedSame
  <2>4. CASE running # None /\ ~mu_stopping /\ BeginStop(FALSE, FALSE) /\ m'.restart = m.restart
    <3>1. cores = "restartStop" => m.restart # "no"
      BY DEF LoadedInv, CrashInv
    <3> QED BY <2>1, <2>4, <3>1, LoadedStop
  <2> QED BY <2>2, <2>3, <2>4
<1>22. CASE Rests
  BY <1>1, <1>22 DEF Rests
<1>23. CASE OwedStartRuns
  <2>1. UNCHANGED <<running, stopper, starters, cores, m, exiting>>
    BY <1>23 DEF OwedStartRuns
  <2>2. CASE SameBox(core, core')
    BY <2>1, <2>2, LoadedSame
  <2>3. CASE core'.overdue
    BY <2>1, <2>3 DEF LoadedInv, WorkInv, KnownInv, CrashInv
  <2> QED BY <1>0, <1>23, <2>2, <2>3, OwedRunsIs DEF SameBox
<1> QED
  BY <1>1, <1>2, <1>3, <1>4, <1>5, <1>6, <1>7, <1>10, <1>11, <1>12, <1>13, <1>14, <1>15,
     <1>16, <1>17, <1>18, <1>a, <1>19, <1>20, <1>21, <1>22, <1>23 DEF Next

\* When nothing is in progress, and no restart was cut short by the exit, the core runs the profile
\* that the engine shows and can stop and leaves no box unpublished, unless it has carried out a Start
\* that the engine gave up waiting for.
THEOREM WhatIsLoadedIsKnown == Spec => []LoadedIsKnown
<1>1. Init => IInv /\ IdentityInv /\ ShownInv /\ LoadedInv
  <2>1. Init => Identity(m) /\ DeadInv
    BY DEF Init, Identity, LateOnly, NoCore, CoreRunning, DeadInv
  <2>2. Init => ShownInv
    BY DEF Init, ShownInv, PostsInv, Has, ConnectionState
  <2>3. Init => LoadedInv
    BY DEF Init, LoadedInv, WorkInv, KnownInv, CrashInv, NoStop, NoCore
  <2> QED BY <2>1, <2>2, <2>3, InitIInv DEF IdentityInv
<1>2. IInv /\ IdentityInv /\ ShownInv /\ LoadedInv /\ [Next]_vars => IInv' /\ IdentityInv' /\ ShownInv' /\ LoadedInv'
  BY NextIInv, NextIdentity, NextShown, NextLoaded
<1>3. LoadedInv => LoadedIsKnown
  BY DEF LoadedInv, KnownInv, Doomed, LoadedIsKnown, Quiet, Loading
<1> QED BY <1>1, <1>2, <1>3, PTL DEF Spec

-----------------------------------------------------------------------------
(* A request is answered at most once. *)

\* For the main thread's fields s: the request n was issued and nobody has answered it yet.
Open(s, n) == n <= s.issued /\ s.answers[n] = 0
\* X: the serials that are held outside of the main thread's fields.  Every request that is held,
\* wherever, is open, and the two that the main thread holds are not held elsewhere.
Sound(s, X) ==
  /\ s.answers \in [1 .. MaxRequests -> 0 .. 1]
  /\ \A n \in 1 .. MaxRequests :
       /\ n > s.issued => s.answers[n] = 0
       /\ n \in X \/ n = s.coreReq.serial \/ n = s.killReq.serial => Open(s, n)
       /\ n # s.coreReq.serial \/ n # s.killReq.serial
       /\ n \in X => n # s.coreReq.serial /\ n # s.killReq.serial
\* The request r, in hand, is held nowhere else.
Free(s, X, r) ==
  r.serial = 0 \/ (Open(s, r.serial) /\ r.serial \notin X /\ r.serial # s.coreReq.serial /\ r.serial # s.killReq.serial)
\* Requests are issued and answered, never the reverse.
Mono(s, t) == s.issued <= t.issued /\ \A n \in 1 .. MaxRequests : s.answers[n] <= t.answers[n]

LEMMA MonoTrans ==
  ASSUME NEW s \in MainType, NEW t \in MainType, NEW u \in MainType, Mono(s, t), Mono(t, u)
  PROVE  Mono(s, u)
<1>1. s.issued \in Int /\ t.issued \in Int /\ u.issued \in Int
  BY BoundAssumption DEF MainType
<1>2. \A n \in 1 .. MaxRequests : s.answers[n] \in Nat /\ t.answers[n] \in Nat /\ u.answers[n] \in Nat
  BY DEF MainType
<1> QED BY <1>1, <1>2 DEF Mono
LEMMA MonoSame ==
  ASSUME NEW s \in MainType, NEW t \in MainType, SameReq(s, t)
  PROVE  Mono(s, t)
<1>1. s.issued \in Int /\ t.issued = s.issued /\ t.answers = s.answers
  BY BoundAssumption DEF MainType, SameReq
<1>2. \A n \in 1 .. MaxRequests : s.answers[n] \in Nat
  BY DEF MainType
<1> QED BY <1>1, <1>2 DEF Mono
LEMMA SoundSame ==
  ASSUME NEW s, NEW t, NEW X, NEW Y, Sound(s, X), SameReq(s, t), \A n \in 1 .. MaxRequests : n \in Y => n \in X
  PROVE  Sound(t, Y)
  BY DEF Sound, SameReq, Open

\* The request q is answered, and what is held after was open before, and is not q.
LEMMA SoundAnswer ==
  ASSUME NEW s \in MainType, NEW t \in MainType, NEW q \in StartRequest, NEW X, NEW Y, Sound(s, X),
         q.serial = 0 \/ Open(s, q.serial), t.issued = s.issued, t.answers = Finish(s, q).answers,
         \A n \in 1 .. MaxRequests :
           /\ n \in Y \/ n = t.coreReq.serial \/ n = t.killReq.serial => n # q.serial /\ Open(s, n)
           /\ n # t.coreReq.serial \/ n # t.killReq.serial
           /\ n \in Y => n # t.coreReq.serial /\ n # t.killReq.serial
  PROVE  Sound(t, Y) /\ Mono(s, t)
<1> DEFINE a == s.answers
           k == q.serial
           f == Finish(s, q)
<1>1. /\ a \in [1 .. MaxRequests -> 0 .. 1] /\ k \in 0 .. MaxRequests /\ MaxRequests \in Nat
      /\ s.issued \in 0 .. MaxRequests
  BY BoundAssumption DEF Sound, StartRequest, MainType
<1>2. f.answers = IF k = 0 THEN a ELSE [a EXCEPT ![k] = a[k] + 1]
  <2>1. FinishSays(s, f, q)
    BY FinishIs
  <2> HIDE DEF f
  <2> QED BY <2>1 DEF FinishSays
<1>3. k = 0 \/ (k <= s.issued /\ a[k] = 0)
  BY DEF Open
<1>4. \A n \in 1 .. MaxRequests : n > s.issued => a[n] = 0
  BY DEF Sound
<1>5. t.answers = f.answers
  OBVIOUS
<1> HIDE DEF a, k, f
<1>6. /\ t.answers \in [1 .. MaxRequests -> 0 .. 1]
      /\ \A n \in 1 .. MaxRequests : t.answers[n] = IF n = k THEN 1 ELSE a[n]
  <2>1. CASE k = 0
    BY <1>1, <1>2, <1>5, <2>1
  <2>2. CASE k # 0
    <3>1. k \in 1 .. MaxRequests /\ a[k] = 0
      BY <1>1, <1>3, <2>2
    <3>2. t.answers = [a EXCEPT ![k] = 1]
      BY <1>2, <1>5, <2>2, <3>1
    <3> QED BY <1>1, <3>1, <3>2
  <2> QED BY <2>1, <2>2
<1>7. \A n \in 1 .. MaxRequests : (n > t.issued => t.answers[n] = 0) /\ a[n] <= t.answers[n]
  <2> SUFFICES ASSUME NEW n \in 1 .. MaxRequests PROVE (n > t.issued => t.answers[n] = 0) /\ a[n] <= t.answers[n]
    OBVIOUS
  <2>1. CASE n = k
    BY <1>1, <1>3, <1>6, <2>1
  <2>2. CASE n # k
    BY <1>1, <1>4, <1>6, <2>2
  <2> QED BY <2>1, <2>2
<1>8. \A n \in 1 .. MaxRequests : n # k /\ Open(s, n) => Open(t, n)
  BY <1>6 DEF Open, a
<1>9. s.issued <= t.issued
  BY <1>1
<1> QED BY <1>6, <1>7, <1>8, <1>9 DEF Sound, Mono, a, k

\* A request is moved, none is answered.
LEMMA SoundMove ==
  ASSUME NEW s \in MainType, NEW t \in MainType, NEW X, NEW Y, Sound(s, X),
         t.issued = s.issued, t.answers = s.answers,
         \A n \in 1 .. MaxRequests :
           /\ n \in Y \/ n = t.coreReq.serial \/ n = t.killReq.serial => Open(s, n)
           /\ n # t.coreReq.serial \/ n # t.killReq.serial
           /\ n \in Y => n # t.coreReq.serial /\ n # t.killReq.serial
  PROVE  Sound(t, Y) /\ Mono(s, t)
<1>1. s.issued \in Int
  BY BoundAssumption DEF MainType
<1>2. \A n \in 1 .. MaxRequests : s.answers[n] \in Nat
  BY DEF MainType
<1> QED BY <1>1, <1>2 DEF Sound, Mono, Open

\* start() and the request in hand: it is answered, or it takes the place of one that is, or it is
\* held by a sweep or by a worker.
LEMMA StartSound ==
  ASSUME NEW s \in MainType, NEW r \in StartRequest, NEW b, NEW X, StartEnds(s, m', r, b), Sound(s, X), Free(s, X, r)
  PROVE  /\ Mono(s, m') /\ m' \in MainType
         /\ \/ Sound(m', X) /\ starters' = starters /\ ranking' = HeldAfter(r, b)
            \/ /\ Sound(m', X \union {r.serial})
               /\ starters = {} /\ starters' = {NewStarter(r)} /\ ranking' = HeldAfter(r, b)
            \/ Sound(m', X \union {r.serial}) /\ starters' = starters /\ ranking = {} /\ ranking' = {r}
<1> DEFINE t == m'
<1>0. t \in MainType /\ t.issued = s.issued /\ s.coreReq \in StartRequest /\ s.killReq \in StartRequest
  BY DEF StartEnds, MainType
<1>a. /\ s.coreReq.serial \in 0 .. MaxRequests /\ s.killReq.serial \in 0 .. MaxRequests /\ r.serial \in 0 .. MaxRequests
      /\ MaxRequests \in Nat
  BY <1>0, BoundAssumption DEF StartRequest
<1>b. \A n \in 1 .. MaxRequests :
        /\ n \in X \/ n = s.coreReq.serial \/ n = s.killReq.serial => Open(s, n)
        /\ n # s.coreReq.serial \/ n # s.killReq.serial
        /\ n \in X => n # s.coreReq.serial /\ n # s.killReq.serial
  BY DEF Sound
<1>c. \A n \in 1 .. MaxRequests :
        n = r.serial => Open(s, n) /\ n \notin X /\ n # s.coreReq.serial /\ n # s.killReq.serial
  BY DEF Free
<1>d. /\ s.coreReq.serial = 0 \/ s.coreReq.serial \in 1 .. MaxRequests
      /\ s.killReq.serial = 0 \/ s.killReq.serial \in 1 .. MaxRequests
      /\ r.serial = 0 \/ r.serial \in 1 .. MaxRequests
  BY <1>a
<1>1. CASE StartAnswers(s, t, r) /\ ranking' = HeldAfter(r, b)
  <2>1. t.coreReq = s.coreReq /\ t.killReq = s.killReq /\ t.answers = Finish(s, r).answers /\ starters' = starters
    BY <1>1 DEF StartAnswers
  <2>2. r.serial = 0 \/ Open(s, r.serial)
    BY DEF Free
  <2>3. \A n \in 1 .. MaxRequests :
          /\ n \in X \/ n = t.coreReq.serial \/ n = t.killReq.serial => n # r.serial /\ Open(s, n)
          /\ n # t.coreReq.serial \/ n # t.killReq.serial
          /\ n \in X => n # t.coreReq.serial /\ n # t.killReq.serial
    BY <1>b, <1>c, <2>1
  <2> HIDE DEF t
  <2>4. Sound(t, X) /\ Mono(s, t)
    BY <1>0, <2>1, <2>2, <2>3, SoundAnswer, SMTT(30)
  <2> QED BY <1>0, <1>1, <2>1, <2>4 DEF t
<1>2. CASE StartHolds(s, t, r) /\ ranking' = HeldAfter(r, b)
  <2>1. t.coreReq = s.coreReq /\ t.killReq = r /\ t.answers = Finish(s, s.killReq).answers /\ starters' = starters
    BY <1>2 DEF StartHolds
  <2>2. s.killReq.serial = 0 \/ Open(s, s.killReq.serial)
    BY <1>b, <1>d
  <2>3. \A n \in 1 .. MaxRequests :
          /\ n \in X \/ n = t.coreReq.serial \/ n = t.killReq.serial => n # s.killReq.serial /\ Open(s, n)
          /\ n # t.coreReq.serial \/ n # t.killReq.serial
          /\ n \in X => n # t.coreReq.serial /\ n # t.killReq.serial
    BY <1>b, <1>c, <2>1
  <2> HIDE DEF t
  <2>4. Sound(t, X) /\ Mono(s, t)
    BY <1>0, <2>1, <2>2, <2>3, SoundAnswer, SMTT(30)
  <2> QED BY <1>0, <1>2, <2>1, <2>4 DEF t
<1>3. CASE StartDefers(s, t, r) /\ ranking' = HeldAfter(r, b)
  <2>1. t.coreReq = r /\ t.killReq = s.killReq /\ t.answers = Finish(s, s.coreReq).answers /\ starters' = starters
    BY <1>3 DEF StartDefers
  <2>2. s.coreReq.serial = 0 \/ Open(s, s.coreReq.serial)
    BY <1>b, <1>d
  <2>3. \A n \in 1 .. MaxRequests :
          /\ n \in X \/ n = t.coreReq.serial \/ n = t.killReq.serial => n # s.coreReq.serial /\ Open(s, n)
          /\ n # t.coreReq.serial \/ n # t.killReq.serial
          /\ n \in X => n # t.coreReq.serial /\ n # t.killReq.serial
    BY <1>b, <1>c, <2>1
  <2> HIDE DEF t
  <2>4. Sound(t, X) /\ Mono(s, t)
    BY <1>0, <2>1, <2>2, <2>3, SoundAnswer, SMTT(30)
  <2> QED BY <1>0, <1>3, <2>1, <2>4 DEF t
<1>4. ASSUME t.coreReq = s.coreReq, t.killReq = s.killReq, t.answers = s.answers
      PROVE  Sound(t, X \union {r.serial}) /\ Mono(s, t)
  <2> DEFINE Y == X \union {r.serial}
  <2>1. \A n \in 1 .. MaxRequests :
          /\ n \in Y \/ n = t.coreReq.serial \/ n = t.killReq.serial => Open(s, n)
          /\ n # t.coreReq.serial \/ n # t.killReq.serial
          /\ n \in Y => n # t.coreReq.serial /\ n # t.killReq.serial
    BY <1>b, <1>c, <1>4
  <2> HIDE DEF t, Y
  <2>2. Sound(t, Y) /\ Mono(s, t)
    BY <1>0, <1>4, <2>1, SoundMove
  <2> QED BY <2>2 DEF Y
<1>5. CASE StartLaunches(s, t, r) /\ ranking' = HeldAfter(r, b)
  BY <1>0, <1>4, <1>5 DEF StartLaunches
<1>6. CASE StartRanks(s, t) /\ ranking = {} /\ ranking' = {r}
  BY <1>0, <1>4, <1>6 DEF StartRanks
<1> QED BY <1>1, <1>2, <1>3, <1>5, <1>6 DEF StartEnds

\* Who holds requests outside of the main thread's fields: the sweep, the workers that have not
\* posted their answer, and the answers that were posted.
Serials == 1 .. MaxRequests
RankSet == {n \in Serials : \E r \in ranking : r.serial = n}
LiveSet == {n \in Serials : \E w \in starters : w.pc # "release" /\ w.req.serial = n}
Answers(q, n) == \E i \in DOMAIN q : q[i].op = "finish" /\ q[i].req.serial = n
PostSet == {n \in Serials : Answers(posts, n)}
\* One answer to a request is posted.
OneAnswer(q) ==
  \A i, j \in DOMAIN q :
    q[i].op = "finish" /\ q[j].op = "finish" /\ q[i].req.serial = q[j].req.serial /\ q[i].req.serial \in Serials => i = j
Apart ==
  /\ \A r, q \in ranking : r = q
  /\ \A n \in Serials : /\ ~(n \in RankSet /\ n \in LiveSet) /\ ~(n \in RankSet /\ n \in PostSet)
                        /\ ~(n \in LiveSet /\ n \in PostSet)
  /\ OneAnswer(posts)
Outside == RankSet \union LiveSet \union PostSet
ReqInv == Sound(m, Outside) /\ Apart

\* start(), asked with the request r in hand; the sweep that hands r back holds nothing else.
LEMMA StartReq ==
  ASSUME Apart, NEW s \in MainType, NEW r \in StartRequest, NEW b \in BOOLEAN, StartEnds(s, m', r, b),
         NEW X, X = LiveSet \union PostSet \union (IF b THEN {} ELSE RankSet), Sound(s, X), Free(s, X, r),
         b => ranking = {r}, posts' = posts
  PROVE  ReqInv' /\ Mono(s, m')
<1>1. PostSet' = PostSet /\ OneAnswer(posts)'
  BY DEF PostSet, Answers, Apart, OneAnswer
<1>2. r.serial \notin X \/ r.serial \notin Serials
  BY DEF Free, Serials
<1>3. Mono(s, m') /\ m' \in MainType
  BY StartSound
<1>4. CASE Sound(m', X) /\ starters' = starters /\ ranking' = HeldAfter(r, b)
  <2>1. LiveSet' = LiveSet /\ RankSet' = IF b THEN {} ELSE RankSet
    BY <1>4 DEF LiveSet, RankSet, HeldAfter
  <2>2. Outside' = X
    BY <1>1, <2>1 DEF Outside
  <2>3. \A x, y \in ranking' : x = y
    BY <1>4 DEF HeldAfter, Apart
  <2>4. Apart'
    BY <1>1, <2>1, <2>3 DEF Apart, Serials
  <2>5. Sound(m, Outside)' <=> Sound(m', Outside')
    BY DEF Sound, Open
  <2> QED BY <1>3, <1>4, <2>2, <2>4, <2>5 DEF ReqInv
<1>5. CASE /\ Sound(m', X \union {r.serial})
           /\ starters = {} /\ starters' = {NewStarter(r)} /\ ranking' = HeldAfter(r, b)
  <2>0. NewStarter(r).pc = "begin" /\ NewStarter(r).req = r
    BY DEF NewStarter
  <2>1. LiveSet' = {n \in Serials : n = r.serial} /\ RankSet' = IF b THEN {} ELSE RankSet
    BY <1>5, <2>0 DEF LiveSet, RankSet, HeldAfter, Serials
  <2>2. \A n \in Serials : n \in Outside' => n \in X \union {r.serial}
    BY <1>1, <2>1 DEF Outside
  <2>3. \A x, y \in ranking' : x = y
    BY <1>5 DEF HeldAfter, Apart
  <2>4. Apart'
    BY <1>1, <1>2, <2>1, <2>3 DEF Apart, Serials
  <2>5. Sound(m', Outside')
    <3>1. SameReq(m', m')
      BY DEF SameReq
    <3> QED BY <1>5, <2>2, <3>1, SoundSame DEF Serials
  <2>6. Sound(m, Outside)' <=> Sound(m', Outside')
    BY DEF Sound, Open
  <2> QED BY <1>3, <2>4, <2>5, <2>6 DEF ReqInv
<1>6. CASE Sound(m', X \union {r.serial}) /\ starters' = starters /\ ranking = {} /\ ranking' = {r}
  <2>1. LiveSet' = LiveSet /\ RankSet' = {n \in Serials : n = r.serial}
    BY <1>6 DEF LiveSet, RankSet, Serials
  <2>2. \A n \in Serials : n \in Outside' => n \in X \union {r.serial}
    BY <1>1, <2>1 DEF Outside
  <2>3. \A x, y \in ranking' : x = y
    BY <1>6
  <2>4. Apart'
    BY <1>1, <1>2, <2>1, <2>3 DEF Apart, Serials
  <2>5. Sound(m', Outside')
    <3>1. SameReq(m', m')
      BY DEF SameReq
    <3> QED BY <1>6, <2>2, <3>1, SoundSame DEF Serials
  <2>6. Sound(m, Outside)' <=> Sound(m', Outside')
    BY DEF Sound, Open
  <2> QED BY <1>3, <2>4, <2>5, <2>6 DEF ReqInv
<1> QED BY <1>4, <1>5, <1>6, StartSound

\* A step of the main thread that leaves the others' requests alone.
LEMMA ReqAside ==
  ASSUME ReqInv, Sound(m', Outside), UNCHANGED <<ranking, starters, posts>>
  PROVE  ReqInv'
<1>1. RankSet' = RankSet /\ LiveSet' = LiveSet /\ PostSet' = PostSet
  BY DEF RankSet, LiveSet, PostSet, Answers
<1>2. Apart'
  BY <1>1 DEF ReqInv, Apart, OneAnswer, Serials
<1>3. Sound(m, Outside)' <=> Sound(m', Outside)
  BY <1>1 DEF Sound, Open, Outside
<1> QED BY <1>2, <1>3 DEF ReqInv
\* A step that leaves every request where it is, while notices come and go.
LEMMA ReqSame ==
  ASSUME IInv, ReqInv, SameReq(m, m'), m' \in MainType, ranking' = ranking, LiveSet' = LiveSet,
         \A n \in Serials : Answers(posts, n)' <=> Answers(posts, n), OneAnswer(posts)'
  PROVE  ReqInv' /\ Mono(m, m')
<1>1. RankSet' = RankSet /\ PostSet' = PostSet
  BY DEF RankSet, PostSet
<1>2. Apart'
  BY <1>1 DEF ReqInv, Apart, Serials
<1>3. Sound(m', Outside)
  BY SoundSame DEF ReqInv
<1>4. Sound(m, Outside)' <=> Sound(m', Outside)
  BY <1>1 DEF Sound, Open, Outside
<1> QED BY <1>2, <1>3, <1>4, MonoSame DEF ReqInv, IInv, TypeInv
\* A notice carries no request.
LEMMA NoticeAnswers ==
  ASSUME NEW q, NEW p, NEW t, Appended(q, p, t), p.op # "finish", OneAnswer(q)
  PROVE  (\A n : Answers(t, n) <=> Answers(q, n)) /\ OneAnswer(t)
<1>1. \A i \in DOMAIN t : t[i].op = "finish" => i \in DOMAIN q
  BY DEF Appended
<1>2. \A i \in DOMAIN q : i \in DOMAIN t /\ t[i] = q[i]
  BY DEF Appended
<1> QED BY <1>1, <1>2 DEF Answers, OneAnswer
\* An answer is posted.
LEMMA AnswerPosted ==
  ASSUME NEW q, NEW p, NEW t, Appended(q, p, t), p.op = "finish", OneAnswer(q),
         p.req.serial \in Serials => ~Answers(q, p.req.serial)
  PROVE  (\A n : Answers(t, n) <=> Answers(q, n) \/ n = p.req.serial) /\ OneAnswer(t)
<1>1. \A i \in DOMAIN t : i \in DOMAIN q \/ i = Len(q) + 1
  BY DEF Appended
<1>2. /\ \A i \in DOMAIN q : i \in DOMAIN t /\ t[i] = q[i]
      /\ Len(q) + 1 \in DOMAIN t /\ t[Len(q) + 1] = p
  BY DEF Appended
<1>3. \A n : Answers(t, n) <=> Answers(q, n) \/ n = p.req.serial
  BY <1>1, <1>2 DEF Answers
<1>4. OneAnswer(t)
  <2> SUFFICES ASSUME NEW i \in DOMAIN t, NEW j \in DOMAIN t, t[i].op = "finish", t[j].op = "finish",
                      t[i].req.serial = t[j].req.serial, t[i].req.serial \in Serials
               PROVE  i = j
    BY DEF OneAnswer
  <2>1. CASE i \in DOMAIN q /\ j \in DOMAIN q
    BY <1>2, <2>1 DEF OneAnswer
  <2>2. CASE i \in DOMAIN q /\ j = Len(q) + 1
    BY <1>2, <2>2 DEF Answers
  <2>3. CASE i = Len(q) + 1 /\ j \in DOMAIN q
    BY <1>2, <2>3 DEF Answers
  <2> QED BY <1>1, <2>1, <2>2, <2>3
<1> QED BY <1>3, <1>4
\* The head of the queue is taken.
LEMMA AnswerTaken ==
  ASSUME NEW q \in Seq(PostType), q # << >>, OneAnswer(q)
  PROVE  /\ OneAnswer(Tail(q)) /\ \A n : Answers(Tail(q), n) => Answers(q, n)
         /\ Head(q).op # "finish" => \A n : Answers(q, n) => Answers(Tail(q), n)
         /\ Head(q).op = "finish" =>
              /\ \A n : Answers(q, n) => Answers(Tail(q), n) \/ n = Head(q).req.serial
              /\ Answers(q, Head(q).req.serial)
              /\ Head(q).req.serial \in Serials => ~Answers(Tail(q), Head(q).req.serial)
<1>1. /\ Len(q) \in Nat /\ Len(q) >= 1 /\ DOMAIN q = 1 .. Len(q) /\ Head(q) = q[1]
      /\ DOMAIN Tail(q) = 1 .. Len(q) - 1 /\ \A i \in 1 .. Len(q) - 1 : Tail(q)[i] = q[i + 1]
  BY HandledIs
<1> DEFINE t == Tail(q)
           h == Head(q)
<1>2. DOMAIN t = 1 .. Len(q) - 1 /\ (\A i \in 1 .. Len(q) - 1 : t[i] = q[i + 1]) /\ h = q[1]
  BY <1>1
<1> HIDE DEF t, h
<1>3. \A i \in DOMAIN t : i \in Int /\ i + 1 \in DOMAIN q /\ q[i + 1] = t[i] /\ i + 1 # 1
  BY <1>1, <1>2
<1>4. \A i \in DOMAIN q : i # 1 => i - 1 \in DOMAIN t /\ t[i - 1] = q[i]
  BY <1>1, <1>2
<1>5. 1 \in DOMAIN q
  BY <1>1
<1>6. OneAnswer(t)
  <2> SUFFICES ASSUME NEW i \in DOMAIN t, NEW j \in DOMAIN t, t[i].op = "finish", t[j].op = "finish",
                      t[i].req.serial = t[j].req.serial, t[i].req.serial \in Serials
               PROVE  i = j
    BY DEF OneAnswer
  <2>1. i + 1 = j + 1
    BY <1>3 DEF OneAnswer
  <2> QED BY <1>3, <2>1
<1>7. ASSUME NEW n, Answers(t, n) PROVE Answers(q, n)
  BY <1>3, <1>7 DEF Answers
<1>8. ASSUME NEW n, Answers(q, n) PROVE Answers(t, n) \/ (h.op = "finish" /\ n = h.req.serial)
  <2>1. PICK i \in DOMAIN q : q[i].op = "finish" /\ q[i].req.serial = n
    BY <1>8 DEF Answers
  <2>2. CASE i = 1
    BY <1>2, <2>1, <2>2
  <2>3. CASE i # 1
    BY <1>4, <2>1, <2>3 DEF Answers
  <2> QED BY <2>2, <2>3
<1>9. h.op = "finish" => Answers(q, h.req.serial)
  BY <1>2, <1>5 DEF Answers
<1>10. ASSUME h.op = "finish", h.req.serial \in Serials, Answers(t, h.req.serial) PROVE FALSE
  <2>1. PICK i \in DOMAIN t : t[i].op = "finish" /\ t[i].req.serial = h.req.serial
    BY <1>10 DEF Answers
  <2>2. i + 1 \in DOMAIN q /\ q[i + 1] = t[i] /\ i + 1 # 1
    BY <1>3
  <2> QED BY <1>2, <1>5, <1>10, <2>1, <2>2 DEF OneAnswer
<1> QED BY <1>6, <1>7, <1>8, <1>9, <1>10 DEF t, h

\* Workers that keep their requests, and whether they have answered, hold what they held.
LEMMA LiveKept ==
  ASSUME NEW w, NEW v, starters = {w}, starters' = {v}, v.req = w.req, v.pc = "release" <=> w.pc = "release"
  PROVE  LiveSet' = LiveSet
  BY DEF LiveSet
LEMMA LiveLost == ASSUME IInv, starters' = Lost(starters) PROVE LiveSet' = LiveSet
<1>1. CASE starters = {} /\ starters' = {}
  BY <1>1 DEF LiveSet
<1>2. CASE \E w \in starters, v \in StarterType : starters = {w} /\ starters' = {v} /\ v.req = w.req /\ v.pc = w.pc
  BY <1>2, LiveKept
<1> QED BY <1>1, <1>2, LostIs
\* A notice is posted while every request stays where it is.
LEMMA ReqNotice ==
  ASSUME IInv, ReqInv, SameReq(m, m'), m' \in MainType, ranking' = ranking, LiveSet' = LiveSet,
         NEW op \in {"disconnecting", "cancel", "teardown"}, posts' = posts \o Post(op, NoRequest, FALSE)
  PROVE  ReqInv' /\ Mono(m, m')
<1>1. PICK p \in PostType : p.op = op /\ Appended(posts, p, posts')
  BY NoticeHas
<1> DEFINE t == posts'
<1>2. (\A n : Answers(t, n) <=> Answers(posts, n)) /\ OneAnswer(t)
  BY <1>1, NoticeAnswers DEF ReqInv, Apart
<1>3. (\A n : Answers(posts, n)' <=> Answers(t, n)) /\ (OneAnswer(posts)' <=> OneAnswer(t))
  BY DEF Answers, OneAnswer
<1> QED BY <1>2, <1>3, ReqSame
\* No closure comes or goes, and every request stays where it is.
LEMMA ReqQuiet ==
  ASSUME IInv, ReqInv, SameReq(m, m'), m' \in MainType, ranking' = ranking, LiveSet' = LiveSet, posts' = posts
  PROVE  ReqInv' /\ Mono(m, m')
  BY ReqSame DEF ReqInv, Apart, Answers, OneAnswer
\* The main thread's fields are typed after every step.
LEMMA MainTyped == ASSUME IInv, [Next]_vars PROVE m \in MainType /\ m' \in MainType
  BY NextIInv DEF IInv, TypeInv

\* The worker posts the answer to its request, and has it no more.
LEMMA EndedReq ==
  ASSUME IInv, ReqInv, SameReq(m, m'), m' \in MainType, ranking' = ranking, NEW w \in starters, NEW v,
         starters = {w}, starters' = {v}, w.pc # "release", v.pc = "release",
         NEW b \in BOOLEAN, posts' = Ended(w, b)
  PROVE  ReqInv' /\ Mono(m, m')
<1>1. PICK p \in PostType, c \in PostType, q \in Seq(PostType) :
        /\ p.op = "finish" /\ p.req = w.req /\ c.op = "connected"
        /\ Appended(posts, p, q) /\ Appended(q, c, posts')
  BY EndedIs
<1> DEFINE t == posts'
           n0 == w.req.serial
<1>2. Appended(q, c, t)
  BY <1>1
<1>3. (\A n : Answers(posts, n)' <=> Answers(t, n)) /\ (OneAnswer(posts)' <=> OneAnswer(t))
  BY DEF Answers, OneAnswer
<1> HIDE DEF t
<1>4. LiveSet = {n \in Serials : n = n0} /\ LiveSet' = {} /\ RankSet' = RankSet
  BY DEF LiveSet, RankSet
<1>5. n0 \in Serials => ~Answers(posts, n0)
  BY <1>4 DEF ReqInv, Apart, PostSet
<1>6. (\A n : Answers(q, n) <=> Answers(posts, n) \/ n = n0) /\ OneAnswer(q)
  BY <1>1, <1>5, AnswerPosted DEF ReqInv, Apart
<1>7. (\A n : Answers(t, n) <=> Answers(posts, n) \/ n = n0) /\ OneAnswer(t)
  BY <1>1, <1>2, <1>6, NoticeAnswers
<1>8. \A n \in Serials : n \in PostSet' <=> n \in PostSet \/ n = n0
  BY <1>3, <1>7 DEF PostSet
<1>9. Apart'
  <2>1. \A x, y \in ranking' : x = y
    BY DEF ReqInv, Apart
  <2>2. \A n \in Serials : ~(n \in RankSet /\ n = n0) /\ ~(n \in RankSet /\ n \in PostSet)
    BY <1>4 DEF ReqInv, Apart
  <2>3. \A n \in Serials : /\ ~(n \in RankSet' /\ n \in LiveSet') /\ ~(n \in RankSet' /\ n \in PostSet')
                           /\ ~(n \in LiveSet' /\ n \in PostSet')
    BY <1>4, <1>8, <2>2
  <2> QED BY <1>3, <1>7, <2>1, <2>3 DEF Apart, Serials
<1>10. \A n \in Serials : n \in Outside' <=> n \in Outside
  BY <1>4, <1>8 DEF Outside
<1>11. Sound(m', Outside')
  BY <1>10, SoundSame DEF ReqInv, Serials
<1>12. Sound(m, Outside)' <=> Sound(m', Outside')
  BY DEF Sound, Open
<1> QED BY <1>9, <1>11, <1>12, MonoSame DEF ReqInv, IInv, TypeInv

\* The worker's steps.
LEMMA StarterReq == ASSUME IInv, ReqInv, StarterSteps, m' \in MainType PROVE ReqInv' /\ Mono(m, m')
<1>1. PICK w \in starters :
        \/ StarterBegins(w) \/ InstallGuard(w) \/ StarterLooks(w) \/ StarterStops(w) \/ StarterWaits(w)
        \/ StartAnswered(w) \/ StartTimesOut(w) \/ CommitOtp(w) \/ StarterRecords(w) \/ ReleaseGuard(w)
  BY DEF StarterSteps
<1>2. SameReq(m, m') /\ ranking' = ranking
  BY <1>1, StarterIs
<1>3. CASE ReleaseGuard(w)
  <2>1. starters = {w} /\ starters' = {} /\ w.pc = "release" /\ posts' = posts
    BY <1>3, ReleaseIs DEF ReleaseGuard
  <2>2. LiveSet' = LiveSet
    BY <2>1 DEF LiveSet
  <2> QED BY <1>2, <2>1, <2>2, ReqQuiet
<1>4. CASE ~ReleaseGuard(w)
  <2>1. PICK v \in StarterType : starters = {w} /\ starters' = {v} /\ v.req = w.req /\ StarterSays(w, v)
    BY <1>1, <1>4, StarterDoes
  <2>2. \/ w.pc # "release" /\ v.pc # "release" /\ posts' = posts
        \/ w.pc # "release" /\ v.pc # "release" /\ posts' = posts \o Post("cancel", NoRequest, FALSE)
        \/ w.pc # "release" /\ v.pc # "release" /\ posts' = posts \o Post("disconnecting", NoRequest, FALSE)
        \/ w.pc # "release" /\ v.pc = "release" /\ (posts' = Ended(w, FALSE) \/ posts' = Ended(w, TRUE))
    BY <2>1 DEF StarterSays
  <2>3. CASE w.pc # "release" /\ v.pc # "release"
    <3>1. LiveSet' = LiveSet
      BY <2>1, <2>3, LiveKept
    <3>2. CASE posts' = posts
      BY <1>2, <3>1, <3>2, ReqQuiet
    <3>3. CASE posts' = posts \o Post("cancel", NoRequest, FALSE)
      BY <1>2, <3>1, <3>3, ReqNotice
    <3>4. CASE posts' = posts \o Post("disconnecting", NoRequest, FALSE)
      BY <1>2, <3>1, <3>4, ReqNotice
    <3> QED BY <2>2, <2>3, <3>2, <3>3, <3>4
  <2>4. ASSUME NEW b \in BOOLEAN, w.pc # "release", v.pc = "release", posts' = Ended(w, b)
        PROVE  ReqInv' /\ Mono(m, m')
    BY <1>2, <2>1, <2>4, EndedReq
  <2>5. CASE w.pc # "release" /\ v.pc = "release" /\ posts' = Ended(w, FALSE)
    BY <2>4, <2>5
  <2>6. CASE w.pc # "release" /\ v.pc = "release" /\ posts' = Ended(w, TRUE)
    BY <2>4, <2>6
  <2> QED BY <2>2, <2>3, <2>5, <2>6
<1> QED BY <1>3, <1>4

\* The closures: an answer that was posted is given.
LEMMA PostReq == ASSUME IInv, ReqInv, HandlePost, m' \in MainType PROVE ReqInv' /\ Mono(m, m')
<1> DEFINE p == Head(posts)
           t == Tail(posts)
<1>1. /\ posts \in Seq(PostType) /\ posts # << >> /\ posts' = t /\ PostSays(p) /\ p \in PostType
      /\ UNCHANGED <<starters, ranking>> /\ m \in MainType
  BY HandlePostIs DEF IInv, TypeInv
<1>2. /\ OneAnswer(t) /\ \A n : Answers(t, n) => Answers(posts, n)
      /\ p.op # "finish" => \A n : Answers(posts, n) => Answers(t, n)
      /\ p.op = "finish" =>
           /\ \A n : Answers(posts, n) => Answers(t, n) \/ n = p.req.serial
           /\ Answers(posts, p.req.serial)
           /\ p.req.serial \in Serials => ~Answers(t, p.req.serial)
  BY <1>1, AnswerTaken DEF ReqInv, Apart
<1> HIDE DEF p, t
<1>3. (\A n : Answers(posts, n)' <=> Answers(t, n)) /\ (OneAnswer(posts)' <=> OneAnswer(t))
  BY <1>1 DEF Answers, OneAnswer
<1>4. LiveSet' = LiveSet /\ RankSet' = RankSet /\ p.req \in StartRequest
  BY <1>1 DEF LiveSet, RankSet, PostType
<1>5. CASE p.op # "finish"
  <2>1. SameReq(m, m')
    BY <1>1, <1>5 DEF PostSays, SameReq
  <2> QED BY <1>1, <1>2, <1>3, <1>4, <1>5, <2>1, ReqSame
<1>6. CASE p.op = "finish"
  <2> DEFINE k == p.req.serial
  <2>1. /\ m'.issued = m.issued /\ m'.coreReq = m.coreReq /\ m'.killReq = m.killReq
        /\ m'.answers = Finish(m, p.req).answers
    BY <1>1, <1>6 DEF PostSays
  <2>2. k = 0 \/ k \in Serials
    BY <1>4, BoundAssumption DEF StartRequest, Serials
  <2>3. k \in Serials => k \in PostSet
    BY <1>2, <1>6 DEF PostSet
  <2>4. \A n \in Serials : n \in PostSet' <=> n \in PostSet /\ n # k
    BY <1>2, <1>3, <1>6 DEF PostSet
  <2>5. \A n \in Serials : n \in Outside' => n \in Outside /\ n # k
    BY <1>4, <2>3, <2>4 DEF Outside, ReqInv, Apart
  <2>6. k = 0 \/ Open(m, k)
    BY <2>2, <2>3 DEF ReqInv, Sound, Outside, Serials
  <2>7. \A n \in 1 .. MaxRequests :
          /\ n \in Outside' \/ n = m'.coreReq.serial \/ n = m'.killReq.serial => n # k /\ Open(m, n)
          /\ n # m'.coreReq.serial \/ n # m'.killReq.serial
          /\ n \in Outside' => n # m'.coreReq.serial /\ n # m'.killReq.serial
    <3>1. \A n \in Serials :
            /\ n \in Outside \/ n = m.coreReq.serial \/ n = m.killReq.serial => Open(m, n)
            /\ n # m.coreReq.serial \/ n # m.killReq.serial
            /\ n \in Outside => n # m.coreReq.serial /\ n # m.killReq.serial
      BY DEF ReqInv, Sound, Serials
    <3>2. \A n \in Serials : n = k => n \in Outside
      BY <2>3 DEF Outside
    <3>3. \A n \in Serials : n = k => n # m.coreReq.serial /\ n # m.killReq.serial
      BY <3>1, <3>2
    <3> HIDE DEF k
    <3> QED BY <2>1, <2>5, <3>1, <3>3 DEF Serials
  <2>8. Sound(m', Outside') /\ Mono(m, m')
    <3> DEFINE u == m'
               Y == Outside'
    <3>1. /\ u \in MainType /\ u.issued = m.issued /\ u.answers = Finish(m, p.req).answers
          /\ \A n \in 1 .. MaxRequests :
               /\ n \in Y \/ n = u.coreReq.serial \/ n = u.killReq.serial => n # p.req.serial /\ Open(m, n)
               /\ n # u.coreReq.serial \/ n # u.killReq.serial
               /\ n \in Y => n # u.coreReq.serial /\ n # u.killReq.serial
      BY <2>1, <2>7
    <3> HIDE DEF u, Y
    <3>2. Sound(u, Y) /\ Mono(m, u)
      BY <1>1, <1>4, <2>6, <3>1, SoundAnswer DEF ReqInv
    <3> QED BY <3>2 DEF u, Y
  <2>9. Sound(m, Outside)' <=> Sound(m', Outside')
    BY DEF Sound, Open
  <2>10. Apart'
    <3>1. \A x, y \in ranking' : x = y
      BY <1>1 DEF ReqInv, Apart
    <3>2. \A n \in Serials : /\ ~(n \in RankSet' /\ n \in LiveSet') /\ ~(n \in RankSet' /\ n \in PostSet')
                             /\ ~(n \in LiveSet' /\ n \in PostSet')
      BY <1>4, <2>4 DEF ReqInv, Apart
    <3> QED BY <1>2, <1>3, <3>1, <3>2 DEF Apart, Serials
  <2> QED BY <2>8, <2>9, <2>10 DEF ReqInv
<1> QED BY <1>5, <1>6

\* The request that waits for the core is answered, or taken in hand.
LEMMA CoreAnswered ==
  ASSUME NEW s \in MainType, NEW t \in MainType, NEW X, Sound(s, X), t.issued = s.issued, t.killReq = s.killReq,
         t.coreReq.serial = 0, t.answers = Finish(s, s.coreReq).answers
  PROVE  Sound(t, X) /\ Mono(s, t)
<1>1. /\ s.coreReq \in StartRequest
      /\ s.coreReq.serial = 0 \/ s.coreReq.serial \in 1 .. MaxRequests
  BY BoundAssumption DEF StartRequest, MainType
<1>2. \A n \in 1 .. MaxRequests :
        /\ n \in X \/ n = s.coreReq.serial \/ n = s.killReq.serial => Open(s, n)
        /\ n # s.coreReq.serial \/ n # s.killReq.serial
        /\ n \in X => n # s.coreReq.serial /\ n # s.killReq.serial
  BY DEF Sound
<1>3. \A n \in 1 .. MaxRequests : n # t.coreReq.serial
  OBVIOUS
<1>4. \A n \in 1 .. MaxRequests :
        /\ n \in X \/ n = t.coreReq.serial \/ n = t.killReq.serial => n # s.coreReq.serial /\ Open(s, n)
        /\ n # t.coreReq.serial \/ n # t.killReq.serial
        /\ n \in X => n # t.coreReq.serial /\ n # t.killReq.serial
  BY <1>2, <1>3
<1> QED BY <1>1, <1>2, <1>4, SoundAnswer
LEMMA CoreTaken ==
  ASSUME NEW s \in MainType, NEW t \in MainType, NEW X, Sound(s, X), t.issued = s.issued, t.killReq = s.killReq,
         t.coreReq.serial = 0, t.answers = s.answers
  PROVE  Sound(t, X) /\ Mono(s, t) /\ Free(t, X, s.coreReq)
<1>1. s.coreReq.serial = 0 \/ s.coreReq.serial \in 1 .. MaxRequests
  BY BoundAssumption DEF StartRequest, MainType
<1>2. \A n \in 1 .. MaxRequests :
        /\ n \in X \/ n = s.coreReq.serial \/ n = s.killReq.serial => Open(s, n)
        /\ n # s.coreReq.serial \/ n # s.killReq.serial
        /\ n \in X => n # s.coreReq.serial /\ n # s.killReq.serial
  BY DEF Sound
<1>3. \A n \in 1 .. MaxRequests :
        /\ n \in X \/ n = t.coreReq.serial \/ n = t.killReq.serial => Open(s, n)
        /\ n # t.coreReq.serial \/ n # t.killReq.serial
        /\ n \in X => n # t.coreReq.serial /\ n # t.killReq.serial
  BY <1>2
<1>4. Sound(t, X) /\ Mono(s, t)
  BY <1>3, SoundMove
<1>5. Free(t, X, s.coreReq)
  BY <1>1, <1>2 DEF Free, Open
<1> QED BY <1>4, <1>5
\* So is the one that waits for the kill switch.
LEMMA KillTaken ==
  ASSUME NEW s \in MainType, NEW t \in MainType, NEW X, Sound(s, X), t.issued = s.issued, t.coreReq = s.coreReq,
         t.killReq.serial = 0, t.answers = s.answers
  PROVE  Sound(t, X) /\ Mono(s, t) /\ Free(t, X, s.killReq)
<1>1. s.killReq.serial = 0 \/ s.killReq.serial \in 1 .. MaxRequests
  BY BoundAssumption DEF StartRequest, MainType
<1>2. \A n \in 1 .. MaxRequests :
        /\ n \in X \/ n = s.coreReq.serial \/ n = s.killReq.serial => Open(s, n)
        /\ n # s.coreReq.serial \/ n # s.killReq.serial
        /\ n \in X => n # s.coreReq.serial /\ n # s.killReq.serial
  BY DEF Sound
<1>3. \A n \in 1 .. MaxRequests :
        /\ n \in X \/ n = t.coreReq.serial \/ n = t.killReq.serial => Open(s, n)
        /\ n # t.coreReq.serial \/ n # t.killReq.serial
        /\ n \in X => n # t.coreReq.serial /\ n # t.killReq.serial
  BY <1>2
<1>4. Sound(t, X) /\ Mono(s, t)
  BY <1>3, SoundMove
<1>5. Free(t, X, s.killReq)
  BY <1>1, <1>2 DEF Free, Open
<1> QED BY <1>4, <1>5
\* A serial is issued: nobody holds it.
LEMMA SerialIssued ==
  ASSUME NEW s \in MainType, NEW t \in MainType, NEW X, Sound(s, X), s.issued < MaxRequests, t.issued = s.issued + 1,
         t.coreReq = s.coreReq, t.killReq = s.killReq, t.answers = s.answers
  PROVE  Sound(t, X) /\ Mono(s, t) /\ \A r : r.serial = s.issued + 1 => Free(t, X, r)
<1>1. s.issued \in 0 .. MaxRequests /\ MaxRequests \in Nat /\ \A n \in 1 .. MaxRequests : s.answers[n] \in Nat
  BY BoundAssumption DEF MainType
<1>2. s.issued + 1 \in 1 .. MaxRequests /\ t.issued \in Int /\ s.issued \in Int
  BY <1>1
<1>3. \A n \in 1 .. MaxRequests : Open(s, n) => Open(t, n) /\ n # s.issued + 1
  BY <1>1 DEF Open
<1>4. \A n \in 1 .. MaxRequests : n > t.issued => n > s.issued
  BY <1>1
<1>5. Sound(t, X)
  BY <1>3, <1>4 DEF Sound
<1>6. Mono(s, t)
  BY <1>1 DEF Mono
<1>7. ASSUME NEW r, r.serial = s.issued + 1 PROVE Free(t, X, r)
  <2> DEFINE n == s.issued + 1
  <2>1. n \in 1 .. MaxRequests /\ n > s.issued /\ n <= t.issued
    BY <1>1, <1>2
  <2>2. s.answers[n] = 0
    BY <2>1 DEF Sound
  <2>3. n \notin X /\ n # s.coreReq.serial /\ n # s.killReq.serial
    BY <1>3, <2>1 DEF Sound
  <2>4. Open(t, n)
    BY <2>1, <2>2 DEF Open
  <2> QED BY <1>7, <2>3, <2>4 DEF Free
<1> QED BY <1>5, <1>6, <1>7

\* The requests asked for, and the ones the sweep and the retry make.
LEMMA AskedReq ==
  ASSUME IInv, ReqInv, m' \in MainType, NEW p \in setup.profiles, StartAsked(p)
  PROVE  ReqInv' /\ Mono(m, m')
<1>1. PICK s \in MainType, r \in StartRequest :
        /\ r.serial = m.issued + 1 /\ s.issued = m.issued + 1 /\ s.answers = m.answers
        /\ s.coreReq = m.coreReq /\ s.killReq = m.killReq /\ StartEnds(s, m', r, FALSE)
  BY StartAskedIs
<1>2. m.issued < MaxRequests /\ posts' = posts /\ m \in MainType
  BY DEF StartAsked, IInv, TypeInv
<1>3. Sound(s, Outside) /\ Mono(m, s) /\ Free(s, Outside, r)
  BY <1>1, <1>2, SerialIssued DEF ReqInv
<1>4. Outside = LiveSet \union PostSet \union RankSet
  BY DEF Outside
<1>5. ReqInv' /\ Mono(s, m')
  <2> DEFINE b == FALSE
  <2>1. b \in BOOLEAN /\ ~b /\ StartEnds(s, m', r, b)
    BY <1>1
  <2> HIDE DEF b
  <2>2. Outside = LiveSet \union PostSet \union (IF b THEN {} ELSE RankSet)
    BY <1>4, <2>1
  <2> QED BY <1>2, <1>3, <2>1, <2>2, StartReq DEF ReqInv
<1> QED BY <1>2, <1>3, <1>5, MonoTrans
\* start() with a request taken in hand.
LEMMA TakenReq ==
  ASSUME IInv, ReqInv, m' \in MainType, NEW s \in MainType, NEW r \in StartRequest, StartEnds(s, m', r, FALSE),
         Sound(s, Outside), Free(s, Outside, r), Mono(m, s), posts' = posts
  PROVE  ReqInv' /\ Mono(m, m')
<1>1. m \in MainType
  BY DEF IInv, TypeInv
<1>2. ReqInv' /\ Mono(s, m')
  <2> DEFINE b == FALSE
  <2>1. b \in BOOLEAN /\ ~b /\ StartEnds(s, m', r, b)
    OBVIOUS
  <2> HIDE DEF b
  <2>2. Outside = LiveSet \union PostSet \union (IF b THEN {} ELSE RankSet)
    BY <2>1 DEF Outside
  <2> QED BY <2>1, <2>2, StartReq DEF ReqInv
<1> QED BY <1>1, <1>2, MonoTrans
LEMMA RankedReq == ASSUME IInv, ReqInv, StartRanked PROVE ReqInv' /\ Mono(m, m')
<1>1. PICK r \in ranking : StartEnds(m, m', r, TRUE)
  BY StartRankedIs
<1>2. r \in StartRequest /\ posts' = posts /\ m \in MainType /\ ranking = {r}
  BY DEF StartRanked, IInv, TypeInv, ReqInv, Apart
<1> DEFINE X == LiveSet \union PostSet
           k == r.serial
<1>3. k = 0 \/ k \in Serials
  BY <1>2, BoundAssumption DEF StartRequest, Serials
<1>4. k \in Serials => k \in RankSet
  BY <1>1 DEF RankSet
<1>5. Free(m, X, r)
  BY <1>3, <1>4 DEF Free, ReqInv, Sound, Apart, Outside, Serials
<1>6. Sound(m, X)
  <2>1. SameReq(m, m) /\ \A n \in 1 .. MaxRequests : n \in X => n \in Outside
    BY DEF SameReq, Outside
  <2> HIDE DEF X
  <2> QED BY <2>1, SoundSame DEF ReqInv
<1> HIDE DEF X
<1> DEFINE b == TRUE
<1>7. b \in BOOLEAN /\ b /\ StartEnds(m, m', r, b)
  BY <1>1
<1> HIDE DEF b
<1>8. X = LiveSet \union PostSet \union (IF b THEN {} ELSE RankSet)
  BY <1>7 DEF X
<1> QED BY <1>2, <1>5, <1>6, <1>7, <1>8, StartReq DEF ReqInv
LEMMA RetryReq == ASSUME IInv, ReqInv, m' \in MainType, RetryAfterGeoFetch PROVE ReqInv' /\ Mono(m, m')
<1>1. PICK s \in MainType :
        /\ SameReq(m, s)
        /\ (m' = s /\ UNCHANGED <<starters, ranking>>) \/ StartEnds(s, m', Own(m.geo), FALSE)
  BY RetryIs
<1>2. Own(m.geo) \in StartRequest /\ posts' = posts /\ m \in MainType /\ Own(m.geo).serial = 0
  BY RetryIs, OwnIs DEF IInv, TypeInv
<1>3. CASE m' = s /\ UNCHANGED <<starters, ranking>>
  <2>1. LiveSet' = LiveSet
    BY <1>3 DEF LiveSet
  <2> QED BY <1>1, <1>2, <1>3, <2>1, ReqQuiet
<1>4. CASE StartEnds(s, m', Own(m.geo), FALSE)
  <2>1. Sound(s, Outside) /\ Mono(m, s)
    BY <1>1, <1>2, SoundSame, MonoSame DEF ReqInv
  <2>2. Free(s, Outside, Own(m.geo))
    BY <1>2 DEF Free
  <2> QED BY <1>2, <1>4, <2>1, <2>2, TakenReq
<1> QED BY <1>1, <1>3, <1>4

\* The boot request is issued, and waits for the core.
LEMMA BootReq == ASSUME IInv, ReqInv, m' \in MainType, SupervisorStarts PROVE ReqInv' /\ Mono(m, m')
<1>1. UNCHANGED <<starters, ranking, posts>> /\ m'.killReq = m.killReq /\ m \in MainType
  BY SupervisorStartsIs DEF IInv, TypeInv
<1>2. CASE SameReq(m, m')
  <2>1. LiveSet' = LiveSet
    BY <1>1 DEF LiveSet
  <2> QED BY <1>1, <1>2, <2>1, ReqQuiet
<1>3. CASE /\ m.issued < MaxRequests /\ m'.issued = m.issued + 1 /\ m'.answers = Finish(m, m.coreReq).answers
           /\ m'.coreReq.serial = m.issued + 1
  <2> DEFINE s == [m EXCEPT !.issued = m.issued + 1]
             t == m'
             q == m.coreReq
             X == Outside
  <2>1. m.issued + 1 \in 0 .. MaxRequests /\ m.issued + 1 \in 1 .. MaxRequests /\ q \in StartRequest
    BY <1>1, <1>3, BoundAssumption DEF MainType
  <2>2. /\ s \in MainType /\ s.issued = m.issued + 1 /\ s.answers = m.answers
        /\ s.coreReq = q /\ s.killReq = m.killReq
    BY <1>1, <2>1 DEF MainType
  <2> HIDE DEF s
  <2>3. Sound(s, X) /\ Mono(m, s) /\ \A r : r.serial = m.issued + 1 => Free(s, X, r)
    BY <1>1, <1>3, <2>2, SerialIssued DEF ReqInv
  <2>4. t.answers = Finish(s, q).answers
    BY <1>1, <1>3, <2>1, <2>2, FinishAnswers
  <2>5. t \in MainType /\ t.issued = s.issued /\ t.killReq = s.killReq /\ t.coreReq.serial = m.issued + 1
    BY <1>1, <1>3, <2>2
  <2> HIDE DEF t, X
  <2>6. \A n \in 1 .. MaxRequests :
          /\ n \in X \/ n = q.serial \/ n = s.killReq.serial => Open(s, n)
          /\ n # q.serial \/ n # s.killReq.serial
          /\ n \in X => n # q.serial /\ n # s.killReq.serial
    BY <2>2, <2>3 DEF Sound
  <2>7. \A n \in 1 .. MaxRequests :
          n = m.issued + 1 => Open(s, n) /\ n \notin X /\ n # q.serial /\ n # s.killReq.serial
    <3>1. Free(s, X, t.coreReq)
      BY <2>3, <2>5
    <3> QED BY <2>1, <2>2, <2>5, <3>1 DEF Free
  <2>8. q.serial = 0 \/ Open(s, q.serial)
    BY <2>1, <2>6, BoundAssumption DEF StartRequest
  <2>9. \A n \in 1 .. MaxRequests :
          /\ n \in X \/ n = t.coreReq.serial \/ n = t.killReq.serial => n # q.serial /\ Open(s, n)
          /\ n # t.coreReq.serial \/ n # t.killReq.serial
          /\ n \in X => n # t.coreReq.serial /\ n # t.killReq.serial
    BY <2>5, <2>6, <2>7
  <2>10. Sound(t, X) /\ Mono(s, t)
    BY <2>1, <2>2, <2>3, <2>4, <2>5, <2>8, <2>9, SoundAnswer
  <2>11. Mono(m, t)
    BY <1>1, <2>2, <2>3, <2>5, <2>10, MonoTrans
  <2> QED BY <1>1, <2>10, <2>11, ReqAside DEF t, X
<1> QED BY <1>2, <1>3, SupervisorStartsIs

\* The core is given up.
LEMMA GivenUpReq ==
  ASSUME IInv, ReqInv, GivenUpSays(m, m'), UNCHANGED <<starters, ranking, posts>>
  PROVE  ReqInv' /\ Mono(m, m')
<1>1. /\ m \in MainType /\ m' \in MainType /\ m'.issued = m.issued /\ m'.killReq = m.killReq
      /\ m'.coreReq = NoRequest /\ m'.answers = Finish(m, m.coreReq).answers
  BY DEF GivenUpSays, IInv, TypeInv
<1>2. m'.coreReq.serial = 0
  BY <1>1, OwnIs DEF NoRequest
<1> DEFINE t == m'
           X == Outside
<1>3. /\ t \in MainType /\ t.issued = m.issued /\ t.killReq = m.killReq
      /\ t.coreReq.serial = 0 /\ t.answers = Finish(m, m.coreReq).answers
  BY <1>1, <1>2
<1> HIDE DEF t, X
<1>4. Sound(m, X)
  BY DEF ReqInv, X
<1>5. Sound(t, X) /\ Mono(m, t)
  BY <1>1, <1>3, <1>4, CoreAnswered
<1> QED BY <1>5, ReqAside DEF t, X

\* The core that came up: the request that waited for it is answered or in hand.
LEMMA UpReq == ASSUME IInv, ReqInv, m' \in MainType, onCoreStarted PROVE ReqInv' /\ Mono(m, m')
<1>1. PICK s \in MainType, q \in StartRequest :
        /\ UpSays(s) /\ q = IF m.coreReq.id = m.startWhenUp THEN m.coreReq ELSE Own(m.startWhenUp)
        /\ \/ m' = s /\ UNCHANGED <<starters, ranking>> /\ m.startWhenUp = None
           \/ m' = Finish(s, q) /\ UNCHANGED <<starters, ranking>>
           \/ StartEnds(s, m', q, FALSE)
  BY CoreStartedIs
<1>2. m \in MainType /\ posts' = posts
  BY CoreStartedIs DEF IInv, TypeInv
<1> DEFINE X == Outside
<1>3. Sound(m, X)
  BY DEF ReqInv
<1>4. s.issued = m.issued /\ s.killReq = m.killReq /\ s.coreReq.serial = 0
  BY <1>1, OwnIs DEF UpSays, NoRequest
<1> HIDE DEF X
<1>5. Sound(s, X) /\ Mono(m, s) /\ Free(s, X, q)
  <2>1. CASE m.coreReq.id # m.startWhenUp
    <3>1. s.answers = Finish(m, m.coreReq).answers /\ q.serial = 0
      BY <1>1, <2>1, OwnIs DEF UpSays
    <3>2. Sound(s, X) /\ Mono(m, s)
      BY <1>2, <1>3, <1>4, <3>1, CoreAnswered
    <3> QED BY <3>1, <3>2 DEF Free
  <2>2. CASE m.coreReq.id = m.startWhenUp
    <3>1. s.answers = m.answers /\ q = m.coreReq
      BY <1>1, <2>2 DEF UpSays
    <3> QED BY <1>2, <1>3, <1>4, <3>1, CoreTaken
  <2> QED BY <2>1, <2>2
<1>6. CASE m' = s /\ UNCHANGED <<starters, ranking>>
  <2>1. Sound(m', X) /\ Mono(m, m')
    BY <1>5, <1>6
  <2> QED BY <1>2, <1>6, <2>1, ReqAside DEF X
<1>7. CASE m' = Finish(s, q) /\ UNCHANGED <<starters, ranking>>
  <2> DEFINE t == m'
  <2>1. FinishSays(s, t, q)
    BY <1>1, <1>7, FinishIs
  <2>2. /\ t \in MainType /\ t.issued = s.issued /\ t.coreReq = s.coreReq /\ t.killReq = s.killReq
        /\ t.answers = Finish(s, q).answers
    BY <1>7, <2>1 DEF FinishSays
  <2> HIDE DEF t
  <2>3. q.serial = 0 \/ (Open(s, q.serial) /\ q.serial \notin X /\ q.serial # s.coreReq.serial /\ q.serial # s.killReq.serial)
    BY <1>5 DEF Free
  <2>4. \A n \in 1 .. MaxRequests :
          /\ n \in X \/ n = s.coreReq.serial \/ n = s.killReq.serial => Open(s, n)
          /\ n # s.coreReq.serial \/ n # s.killReq.serial
          /\ n \in X => n # s.coreReq.serial /\ n # s.killReq.serial
    BY <1>5 DEF Sound
  <2>5. \A n \in 1 .. MaxRequests :
          /\ n \in X \/ n = t.coreReq.serial \/ n = t.killReq.serial => n # q.serial /\ Open(s, n)
          /\ n # t.coreReq.serial \/ n # t.killReq.serial
          /\ n \in X => n # t.coreReq.serial /\ n # t.killReq.serial
    BY <2>2, <2>3, <2>4
  <2>6. Sound(t, X) /\ Mono(s, t)
    BY <1>1, <1>5, <2>2, <2>3, <2>5, SoundAnswer
  <2>7. Mono(m, t)
    BY <1>2, <1>5, <2>2, <2>6, MonoTrans
  <2> QED BY <1>2, <1>7, <2>6, <2>7, ReqAside DEF t, X
<1>8. CASE StartEnds(s, m', q, FALSE)
  BY <1>2, <1>5, <1>8, TakenReq DEF X
<1> QED BY <1>1, <1>6, <1>7, <1>8

\* The kill switch: a restart it makes answers the request that waited or keeps it, and the one that
\* was held back is started.
LEMMA SwitchReq ==
  ASSUME IInv, ReqInv, m' \in MainType, NEW k \in {"Disabled", "Arming", "Armed", "Failed"}, KillSwitchChanges(k)
  PROVE  ReqInv' /\ Mono(m, m')
<1>1. PICK t \in MainType :
        /\ SwitchSays(k, t)
        /\ \/ m' = t /\ UNCHANGED <<starters, ranking>>
           \/ \E u \in MainType :
                /\ u.issued = t.issued /\ u.answers = t.answers /\ u.coreReq = t.coreReq /\ u.killReq = NoRequest
                /\ StartEnds(u, m', m.killReq, FALSE)
  BY SwitchIs
<1>2. m \in MainType /\ posts' = posts /\ m.killReq \in StartRequest
  BY DEF KillSwitchChanges, IInv, TypeInv, MainType
<1> DEFINE X == Outside
<1>3. Sound(m, X)
  BY DEF ReqInv
<1>4. t.issued = m.issued /\ t.killReq = m.killReq
  BY <1>1 DEF SwitchSays
<1> HIDE DEF X
<1>5. Sound(t, X) /\ Mono(m, t)
  <2>1. CASE t.coreReq = m.coreReq /\ t.answers = m.answers
    <3>1. SameReq(m, t)
      BY <1>4, <2>1 DEF SameReq
    <3> QED BY <1>2, <1>3, <3>1, SoundSame, MonoSame
  <2>2. CASE t.coreReq.serial = 0 /\ t.answers = Finish(m, m.coreReq).answers
    BY <1>2, <1>3, <1>4, <2>2, CoreAnswered
  <2> QED BY <1>1, <2>1, <2>2, OwnIs DEF SwitchSays
<1>6. CASE m' = t /\ UNCHANGED <<starters, ranking>>
  <2>1. Sound(m', X) /\ Mono(m, m')
    BY <1>5, <1>6
  <2> QED BY <1>2, <1>6, <2>1, ReqAside DEF X
<1>7. ASSUME NEW u \in MainType, u.issued = t.issued, u.answers = t.answers, u.coreReq = t.coreReq,
             u.killReq = NoRequest, StartEnds(u, m', m.killReq, FALSE)
      PROVE  ReqInv' /\ Mono(m, m')
  <2>1. u.killReq.serial = 0
    BY <1>7, OwnIs DEF NoRequest
  <2>2. Sound(u, X) /\ Mono(t, u) /\ Free(u, X, t.killReq)
    BY <1>5, <1>7, <2>1, KillTaken
  <2>3. Mono(m, u)
    BY <1>2, <1>5, <2>2, MonoTrans
  <2> QED BY <1>2, <1>4, <1>7, <2>2, <2>3, TakenReq DEF X
<1> QED BY <1>1, <1>6, <1>7

\* Every step keeps it, and takes no answer back.
LEMMA NextReq == ASSUME IInv, ReqInv, [Next]_vars PROVE ReqInv' /\ Mono(m, m')
<1>0. m \in MainType /\ m' \in MainType /\ SameReq(m, m)
  BY MainTyped DEF SameReq
<1>1. CASE UNCHANGED vars
  <2>1. UNCHANGED <<m, ranking, posts, starters>>
    BY <1>1 DEF vars
  <2>2. LiveSet' = LiveSet
    BY <2>1 DEF LiveSet
  <2> QED BY <1>0, <2>1, <2>2, ReqQuiet
<1>2. CASE \E p \in setup.profiles : StartAsked(p)
  BY <1>0, <1>2, AskedReq
<1>3. CASE StartRanked
  BY <1>3, RankedReq
<1>4. CASE RetryAfterGeoFetch
  BY <1>0, <1>4, RetryReq
<1>5. CASE StarterSteps
  BY <1>0, <1>5, StarterReq
<1>6. ASSUME SameReq(m, m'), UNCHANGED <<ranking, posts>>, starters' = starters \/ starters' = Lost(starters)
      PROVE  ReqInv' /\ Mono(m, m')
  <2>1. LiveSet' = LiveSet
    BY <1>6, LiveLost DEF LiveSet
  <2> QED BY <1>0, <1>6, <2>1, ReqQuiet
<1>7. CASE StopRpc \/ StopTornDown \/ \E manual \in BOOLEAN : StopAsked(manual)
  <2>1. SameReq(m, m') /\ UNCHANGED <<ranking, posts, starters>>
    <3>1. CASE StopRpc
      BY <1>0, <3>1 DEF StopRpc
    <3>2. CASE StopTornDown
      BY <3>2, TornDownIs DEF StopTornDown
    <3>3. ASSUME NEW manual \in BOOLEAN, StopAsked(manual) PROVE SameReq(m, m') /\ UNCHANGED <<ranking, posts, starters>>
      BY <3>3, StopAskedIs DEF StopAsked
    <3> QED BY <1>7, <3>1, <3>2, <3>3
  <2> QED BY <1>6, <2>1
<1>8. CASE StopClears
  <2>1. UNCHANGED <<m, ranking, starters>> /\ posts' = posts \o Post("teardown", NoRequest, FALSE)
    BY <1>8 DEF StopClears
  <2>2. LiveSet' = LiveSet
    BY <2>1 DEF LiveSet
  <2> QED BY <1>0, <2>1, <2>2, ReqNotice
<1>10. CASE HandlePost
  BY <1>0, <1>10, PostReq
<1>11. CASE SupervisorStarts
  BY <1>0, <1>11, BootReq
<1>12. CASE CoreAccepted
  <2>1. m' = [m EXCEPT !.st = "probing"] /\ UNCHANGED <<ranking, posts, starters>>
    BY <1>12 DEF CoreAccepted
  <2>2. SameReq(m, m')
    BY <1>0, <2>1, CoreIs
  <2> QED BY <1>6, <2>1, <2>2
<1>13. CASE onCoreGaveUp
  <2>1. m' = GivenUp(m) /\ UNCHANGED <<ranking, posts, starters>>
    BY <1>13 DEF onCoreGaveUp
  <2>2. GivenUpSays(m, m')
    BY <1>0, <2>1, GivenUpIs
  <2> QED BY <2>1, <2>2, GivenUpReq
<1>14. CASE onCoreStarted
  BY <1>0, <1>14, UpReq
<1>15. CASE CoreDies
  <2>1. m' = [m EXCEPT !.st = "dead"] /\ UNCHANGED <<ranking, posts>> /\ starters' = Lost(starters)
    BY <1>15 DEF CoreDies
  <2>2. SameReq(m, m')
    BY <1>0, <2>1, CoreIs
  <2> QED BY <1>6, <2>1, <2>2
<1>16. CASE CoreExited
  <2>1. UNCHANGED <<ranking, posts, starters>>
    BY <1>16 DEF CoreExited
  <2>2. m' = m \/ SameReq(m, m') \/ GivenUpSays(m, m')
    BY <1>16, CoreExitedIs
  <2>3. CASE m' = m \/ SameReq(m, m')
    BY <1>0, <1>6, <2>1, <2>3
  <2> QED BY <2>1, <2>2, <2>3, GivenUpReq
<1>17. CASE CleanUp \/ TakeRestart \/ RestartStopped
  <2>1. ranking' = ranking
    BY <1>17 DEF CleanUp, TakeRestart, RestartStopped
  <2>2. \/ Respawn /\ posts' = posts
        \/ UNCHANGED <<m, starters, posts>>
        \/ posts' = posts \o Post("disconnecting", NoRequest, FALSE) /\ UNCHANGED <<m, starters>>
    BY <1>17 DEF CleanUp, TakeRestart, RestartStopped, CrashStop
  <2>3. CASE Respawn /\ posts' = posts
    BY <1>6, <2>1, <2>3, RespawnIs
  <2>4. CASE UNCHANGED <<m, starters, posts>>
    BY <1>0, <1>6, <2>1, <2>4
  <2>5. CASE posts' = posts \o Post("disconnecting", NoRequest, FALSE) /\ UNCHANGED <<m, starters>>
    <3>1. LiveSet' = LiveSet
      BY <2>5 DEF LiveSet
    <3> QED BY <1>0, <2>1, <2>5, <3>1, ReqNotice
  <2> QED BY <2>2, <2>3, <2>4, <2>5
<1>19. CASE \E k \in {"Disabled", "Arming", "Armed", "Failed"} : KillSwitchChanges(k)
  BY <1>0, <1>19, SwitchReq
<1>20. CASE GuardWindowExpires
  BY <1>6, <1>20, WindowIs
<1>21. CASE PrepareExit
  <2>1. UNCHANGED <<ranking, posts, starters>>
    BY <1>21 DEF PrepareExit
  <2>2. SameReq(m, m')
    BY <1>0, <1>21, ExitIs
  <2> QED BY <1>6, <2>1, <2>2
<1>22. CASE Rests
  BY <1>1, <1>22 DEF Rests
<1>23. CASE OwedStartRuns
  BY <1>0, <1>6, <1>23 DEF OwedStartRuns, SameReq
<1> QED
  BY <1>1, <1>2, <1>3, <1>4, <1>5, <1>7, <1>8, <1>10, <1>11, <1>12, <1>13, <1>14, <1>15,
     <1>16, <1>17, <1>19, <1>20, <1>21, <1>22, <1>23 DEF Next

\* The exit is not taken back.
LEMMA ExitStays == ASSUME [Next]_vars PROVE exiting' \in {exiting, TRUE}
<1>1. CASE UNCHANGED vars
  BY <1>1 DEF vars
<1>2. CASE StarterSteps
  BY <1>2 DEF StarterSteps, StarterBegins, InstallGuard, StarterLooks, StarterStops, StarterWaits, StartAnswered,
              StartTimesOut, CommitOtp, StarterRecords, ReleaseGuard
<1>3. CASE StartRanked \/ RetryAfterGeoFetch \/ \E p \in setup.profiles : StartAsked(p)
  BY <1>3 DEF StartRanked, RetryAfterGeoFetch, StartAsked
<1>4. CASE StopRpc \/ StopClears \/ StopTornDown \/ HandlePost \/ \E manual \in BOOLEAN : StopAsked(manual)
  BY <1>4 DEF StopRpc, StopClears, StopTornDown, HandlePost, StopAsked
<1>5. CASE SupervisorStarts \/ CoreAccepted \/ onCoreGaveUp \/ onCoreStarted \/ CoreDies
  BY <1>5 DEF SupervisorStarts, CoreAccepted, onCoreGaveUp, onCoreStarted, CoreDies
<1>6. CASE CleanUp \/ CoreExited \/ TakeRestart \/ RestartStopped
  BY <1>6 DEF CleanUp, CoreExited, TakeRestart, RestartStopped
<1>7. CASE GuardWindowExpires \/ PrepareExit \/ \E k \in {"Disabled", "Arming", "Armed", "Failed"} : KillSwitchChanges(k)
  BY <1>7 DEF GuardWindowExpires, PrepareExit, KillSwitchChanges
<1>8. CASE Rests \/ OwedStartRuns
  BY <1>1, <1>8 DEF Rests, OwedStartRuns
<1> QED BY <1>1, <1>2, <1>3, <1>4, <1>5, <1>6, <1>7, <1>8 DEF Next

\* No request at first.
LEMMA InitReq == Init => ReqInv
<1> SUFFICES ASSUME Init PROVE ReqInv
  OBVIOUS
<1>1. /\ m.issued = 0 /\ m.answers = [r \in 1 .. MaxRequests |-> 0] /\ m.coreReq.serial = 0 /\ m.killReq.serial = 0
      /\ ranking = {} /\ starters = {} /\ posts = << >>
  BY OwnIs DEF Init, NoRequest
<1>2. Outside = {} /\ Apart
  BY <1>1 DEF Outside, RankSet, LiveSet, PostSet, Answers, Apart, OneAnswer
<1>3. Sound(m, {})
  BY <1>1 DEF Sound
<1> QED BY <1>2, <1>3 DEF ReqInv

\* What a step does to the counts is a step of StartRequests, or leaves them alone.
LEMMA StepAnswers ==
  ASSUME IInv, IInv', ReqInv, ReqInv', Mono(m, m'), exiting' \in {exiting, TRUE}
  PROVE  Requests!Next
<1> DEFINE i == m.issued
           a == m.answers
           j == m'.issued
           c == m'.answers
           A == {r \in 1 .. MaxRequests : a[r] = 0 /\ c[r] = 1}
<1>1. /\ i \in 0 .. MaxRequests /\ j \in 0 .. MaxRequests /\ MaxRequests \in Nat /\ i <= j
      /\ \A n \in 1 .. MaxRequests : a[n] <= c[n]
  BY BoundAssumption DEF Mono, IInv, TypeInv, MainType
<1>2. /\ a \in [1 .. MaxRequests -> 0 .. 1] /\ c \in [1 .. MaxRequests -> 0 .. 1]
      /\ \A n \in 1 .. MaxRequests : n > j => c[n] = 0
  BY DEF ReqInv, Sound
<1> HIDE DEF i, j, a, c
<1>3. j \in i .. MaxRequests
  BY <1>1
<1>4. A \in SUBSET {r \in 1 .. j : a[r] = 0}
  <2> SUFFICES ASSUME NEW n \in 1 .. MaxRequests, a[n] = 0, c[n] = 1 PROVE n \in 1 .. j
    OBVIOUS
  <2>1. ~(n > j)
    BY <1>2
  <2> QED BY <1>1, <2>1
<1>5. c = [r \in 1 .. MaxRequests |-> IF r \in A THEN 1 ELSE a[r]]
  <2>1. \A n \in 1 .. MaxRequests : c[n] = IF n \in A THEN 1 ELSE a[n]
    <3> SUFFICES ASSUME NEW n \in 1 .. MaxRequests PROVE c[n] = IF n \in A THEN 1 ELSE a[n]
      OBVIOUS
    <3>1. a[n] \in 0 .. 1 /\ c[n] \in 0 .. 1 /\ a[n] <= c[n]
      BY <1>1, <1>2
    <3> QED BY <3>1
  <2> QED BY <1>2, <2>1
<1> HIDE DEF A
<1> QED BY <1>3, <1>4, <1>5 DEF i, a, j, c, Requests!Next, Requests!Request

\* No request that waits is held twice, and so a request is answered at most once: by whoever gives
\* it up, whatever held it back.  What the counts do is what StartRequests allows.
AnsweredAtMostOnce == Requests!Init /\ [][Requests!Next]_(Requests!vars)
THEOREM RequestsAreAnsweredOnce == Spec => AnsweredAtMostOnce
<1>1. Init => Requests!Init /\ IInv /\ ReqInv
  <2>1. Init => Requests!Init
    BY DEF Init, Requests!Init, Requests!Request
  <2> QED BY <2>1, InitIInv, InitReq
<1>2. IInv /\ ReqInv /\ [Next]_vars => IInv' /\ ReqInv' /\ [Requests!Next]_(Requests!vars)
  BY NextIInv, NextReq, ExitStays, StepAnswers
<1> QED BY <1>1, <1>2, PTL DEF Spec, AnsweredAtMostOnce

-----------------------------------------------------------------------------
(* What the engine shows and what runs agree. *)

LEMMA TypesAreOk == ASSUME TypeInv, ReqInv PROVE TypeOK
<1>1. m.answers \in [1 .. MaxRequests -> 0 .. 1]
  BY DEF ReqInv, Sound
<1>2. m \in [issued : 0 .. MaxRequests, answers : [1 .. MaxRequests -> 0 .. 1],
             coreReq : StartRequest, killReq : StartRequest, boot : 0 .. MaxRequests,
             guard : BOOLEAN, connecting : BOOLEAN, disconnecting : BOOLEAN,
             shown : {"Idle", "Connecting", "Stopping", "Running"},
             geo : ProfileOrNone, geoRetried : ProfileOrNone,
             ks : {"Disabled", "Arming", "Armed", "Failed"},
             st : {"new", "listenFailed", "starting", "probing", "up", "dead", "gaveUp"},
             identity : BOOLEAN, startWhenUp : ProfileOrNone, restart : {"no", "plain", "guard"}]
  BY <1>1 DEF TypeInv, MainType
<1>3. \A i \in DOMAIN posts :
        posts[i] \in [op : {"finish", "connected", "disconnecting", "cancel", "teardown"},
                      req : StartRequest, started : BOOLEAN]
  <2>1. posts \in Seq(PostType)
    BY DEF TypeInv
  <2>2. \A i \in DOMAIN posts : posts[i] \in PostType
    BY <2>1, ElementOfSeq, LenProperties
  <2> QED BY <2>2 DEF PostType
<1> QED BY <1>2, <1>3 DEF TypeInv, TypeOK, CoreType, StarterType, StopperType, CoresType

\* What the engine shows, what the core runs and what the user last asked for agree, however starts,
\* stops, deaths, restarts, the kill switch and the exit interleave.
THEOREM TheEngineIsTruthful == Spec => []EngineIsTruthful
<1>1. Init => IInv /\ ReqInv
  BY InitIInv, InitReq
<1>2. IInv /\ ReqInv /\ [Next]_vars => IInv' /\ ReqInv'
  BY NextIInv, NextReq
<1>3. IInv /\ ReqInv => TypeOK
  BY TypesAreOk DEF IInv
<1>4. AfterStop => StopIsHonoured
  BY DEF AfterStop, StopIsHonoured
<1>5. TypeOK /\ LoadedIsKnown /\ StateIsShown /\ StopIsHonoured => EngineIsTruthful
  BY DEF EngineIsTruthful
<1> QED BY <1>1, <1>2, <1>3, <1>4, <1>5, StopsAreHonoured, WhatIsShownRuns, WhatIsLoadedIsKnown, PTL DEF Spec
=============================================================================
