------------------------ MODULE AutoSelectorMonitor ------------------------
(***************************************************************************)
(* The watch over a running auto selector:                                 *)
(* src/src/stats/autoselector/AutoSelectorMonitor.cpp.                     *)
(*                                                                         *)
(* A poll thread that never ends asks the core how the members of the      *)
(* running selector fare, stores their health on the profiles, and asks    *)
(* for a rebuild when all of them have been failing for a while.  The      *)
(* start and the stop of a run tell the monitor which build runs.  The     *)
(* core names members by their position in the build, and the selector's   *)
(* group has the same tag in every build.                                  *)
(***************************************************************************)
EXTENDS Integers, Sequences

CONSTANTS Profile,      \* profiles a selector may be built from
          NoProfile,    \* nobody
          MaxMembers,   \* members of a build
          Setups,       \* the bounded commands to begin with
          Grace,        \* kPoolExhaustedGraceSecs
          BackoffMin,   \* kRebuildBackoffMinSecs
          BackoffMax,   \* kRebuildBackoffMaxSecs
          PersistEvery, \* kHealthPersistSecs
          MaxTime       \* bound: the clock

VARIABLES now,     \* the clock; a time of 0 means never
          setup,   \* what is left of the setup
          core,    \* the members of the selector the core runs, <<>> if it runs none
          worker,  \* where the run's start and stop are, and what was built for it
          mon,     \* active, tagToProfile, exhaustedSince, lastHealthPersist and the view
          back,    \* lastRebuildRequest and rebuildBackoffSecs, which outlive a build
          poll,    \* the poll thread: where it is, the answer it holds, what it makes of it
          stored,  \* each profile's latency
          select,  \* a RequestSelect under way
          pinned,  \* pinnedID, and the member the core pinned for it
          asked,   \* history: how many rebuilds were asked for since a member was last seen usable
                   \* or untested, and when the last was
          streak   \* history: since when each answer applied to this build was hopeless
vars == <<now, setup, core, worker, mon, back, poll, stored, select, pinned, asked, streak>>

State == {"untested", "ok", "cooldown", "dead"}
Build == {b \in UNION {[1 .. n -> Profile] : n \in 1 .. MaxMembers} :
            \A i, j \in DOMAIN b : b[i] = b[j] => i = j}
Builds == Build \union {<<>>}
\* When the clock starts, how many starts there are and of which builds (<<>> is an
\* ordinary profile), the tags the user may pick (0, the empty tag, unpins), and how
\* often the core may die.
Setup == [start : 1 .. MaxTime, builds : Nat, of : SUBSET Builds, picks : SUBSET (0 .. MaxMembers),
          deaths : Nat]
\* An answer of the core: a state for each member of the build it runs.
Answer(b) == [of : {b}, state : [DOMAIN b -> State], suspended : BOOLEAN, starting : BOOLEAN]
NoAnswer == [of |-> <<>>, state |-> <<>>, suspended |-> FALSE, starting |-> FALSE]
\* What the monitor makes of an answer: the profile it takes each position for.
NoView == [answer |-> NoAnswer, map |-> <<>>]
Who(map, i) == IF i \in DOMAIN map THEN map[i] ELSE NoProfile
Usable(a) == \E i \in DOMAIN a.state : a.state[i] \in {"ok", "untested"}
Probed(a) == \E i \in DOMAIN a.state : a.state[i] # "untested"

Answers == UNION {Answer(b) : b \in Build} \union {NoAnswer}
ViewOK(v) == v.answer \in Answers /\ v.map \in Builds
TypeOK ==
  /\ now \in 1 .. MaxTime /\ setup \in Setup /\ core \in Builds
  /\ worker \in [pc : {"none", "started", "noted", "stopping"}, built : Builds]
  /\ mon.active \in BOOLEAN /\ mon.map \in Builds /\ mon.exhausted \in 0 .. now
  /\ mon.persisted \in 0 .. now /\ ViewOK(mon.view)
  /\ back.last \in 0 .. now /\ back.secs \in 0 .. BackoffMax
  /\ poll.pc \in {"sleep", "query", "answered", "mapping", "mapped", "viewed", "iface"}
  /\ poll.fire \in BOOLEAN /\ ViewOK(poll.next)
  /\ stored \in [Profile -> {"none", "ok", "dead"}]
  /\ select.pc \in {"none", "asks", "saves"} /\ select.tag \in 0 .. MaxMembers
  /\ {select.member, select.told, pinned.saved, pinned.told} \subseteq Profile \union {NoProfile}
  /\ asked \in [times : 0 .. now, last : 0 .. now]
  /\ streak \in 0 .. now

Never == [times |-> 0, last |-> 0]
Init ==
  /\ setup \in Setups /\ now = setup.start /\ core = <<>> /\ worker = [pc |-> "none", built |-> <<>>]
  /\ mon = [active |-> FALSE, map |-> <<>>, exhausted |-> 0, persisted |-> 0, view |-> NoView]
  /\ back = [last |-> 0, secs |-> 0]
  /\ poll = [pc |-> "sleep", fire |-> FALSE, next |-> NoView]
  /\ stored = [p \in Profile |-> "none"]
  /\ select = [pc |-> "none", tag |-> 0, member |-> NoProfile, told |-> NoProfile]
  /\ pinned = [saved |-> NoProfile, told |-> NoProfile]
  /\ asked = Never
  /\ streak = 0

Tick ==
  /\ now < MaxTime /\ now' = now + 1
  /\ UNCHANGED <<setup, core, worker, mon, back, poll, stored, select, pinned, asked, streak>>

-----------------------------------------------------------------------------
(* Health on the profiles. *)

\* The latency a member's state stands for; a softer state keeps what is stored.
Health(v, i) ==
  CASE v.answer.state[i] = "ok" -> "ok"
    [] v.answer.state[i] = "dead" -> "dead"
    [] OTHER -> "none"
\* What a view holds of an answer: PersistHealth() tells no more apart, and looks at
\* no member of a suspended core.
Seen(v) ==
  [v EXCEPT !.answer.starting = FALSE,
            !.answer.state = [i \in DOMAIN @ |-> IF @[i] \in {"ok", "dead"} /\ ~v.answer.suspended
                                                 THEN @[i] ELSE "untested"]]
Persistable == mon.active /\ mon.view # NoView /\ ~mon.view.answer.suspended
\* The profiles a view's members stand for, and what is stored of each.
Stored(v) ==
  [p \in Profile |->
     LET Mine == {i \in DOMAIN v.answer.state :
                    Who(v.map, i) = p /\ Health(v, i) \notin {"none", stored[p]}} IN
     IF Mine = {} THEN stored[p]
     ELSE Health(v, CHOOSE i \in Mine : TRUE)]
PersistHealth == stored' = IF Persistable THEN Stored(mon.view) ELSE stored

-----------------------------------------------------------------------------
(* The worker of a start or a stop. *)

\* SetBuild with one selector: a view with no answer in it yet.
SetBuild(b) ==
  [mon EXCEPT !.active = TRUE, !.map = b, !.exhausted = 0, !.persisted = now,
              !.view = [answer |-> NoAnswer, map |-> b]]
\* What SetBuild leaves of an ordinary profile, and Clear() of any; when the health
\* was last stored means nothing then.
Asleep == [mon EXCEPT !.active = FALSE, !.map = <<>>, !.exhausted = 0, !.persisted = 0, !.view = NoView]

\* The core accepts the config of a start, of a selector or an ordinary profile ...
CoreStarts(b) ==
  /\ worker.pc = "none" /\ setup.builds > 0 /\ setup' = [setup EXCEPT !.builds = @ - 1]
  /\ core' = b /\ worker' = [pc |-> "started", built |-> b]
  /\ UNCHANGED <<now, mon, back, poll, stored, select, pinned, asked, streak>>
\* ... and noteBuilt() tells the monitor.
NoteBuilt ==
  /\ worker.pc = "started" /\ worker' = [worker EXCEPT !.pc = "noted"]
  /\ mon' = IF worker.built = <<>> THEN Asleep ELSE SetBuild(worker.built)
  /\ streak' = 0
  /\ UNCHANGED <<now, setup, core, back, poll, stored, select, pinned, asked>>
\* A stop begins with noteStopped(): Clear() stores the last health and forgets
\* the build ...
NoteStopped ==
  /\ worker.pc = "noted" /\ worker' = [worker EXCEPT !.pc = "stopping"]
  /\ PersistHealth /\ mon' = Asleep /\ streak' = 0
  /\ UNCHANGED <<now, setup, core, back, poll, select, pinned, asked>>
\* ... and the core is told to stop.
CoreStops ==
  /\ worker.pc = "stopping" /\ worker' = [pc |-> "none", built |-> <<>>] /\ core' = <<>>
  /\ UNCHANGED <<now, setup, mon, back, poll, stored, select, pinned, asked, streak>>
\* The core could not stop: the run goes on, and nothing watches it.
StopFails ==
  /\ worker.pc = "stopping" /\ worker' = [worker EXCEPT !.pc = "noted"]
  /\ UNCHANGED <<now, setup, core, mon, back, poll, stored, select, pinned, asked, streak>>
CoreDies ==
  /\ core # <<>> /\ core' = <<>>
  /\ setup.deaths > 0 /\ setup' = [setup EXCEPT !.deaths = @ - 1]
  /\ UNCHANGED <<now, worker, mon, back, poll, stored, select, pinned, asked, streak>>

-----------------------------------------------------------------------------
(* The poll thread. *)

At(pc) == poll.pc = pc
Goes(pc) == poll' = [poll EXCEPT !.pc = pc]
Sleeps == poll' = [pc |-> "sleep", fire |-> FALSE, next |-> NoView]

Wakes ==
  /\ At("sleep") /\ mon.active /\ Goes("query")
  /\ UNCHANGED <<now, setup, core, worker, mon, back, stored, select, pinned, asked, streak>>
\* The core answers for the build it runs, or the query fails.
QueryAnswered ==
  /\ At("query") /\ core # <<>>
  /\ \E a \in Answer(core) :
       poll' = [poll EXCEPT !.pc = "answered", !.next = [answer |-> a, map |-> <<>>]]
  /\ UNCHANGED <<now, setup, core, worker, mon, back, stored, select, pinned, asked, streak>>
QueryFails ==
  /\ At("query") /\ Sleeps
  /\ UNCHANGED <<now, setup, core, worker, mon, back, stored, select, pinned, asked, streak>>
\* The group tag it wants is the one of the answer, whatever build it is of.
FindsGroup ==
  /\ At("answered") /\ IF mon.active THEN Goes("mapping") ELSE Sleeps
  /\ UNCHANGED <<now, setup, core, worker, mon, back, stored, select, pinned, asked, streak>>
MapsTags ==
  /\ At("mapping") /\ poll' = [poll EXCEPT !.pc = "mapped", !.next.map = mon.map]
  /\ UNCHANGED <<now, setup, core, worker, mon, back, stored, select, pinned, asked, streak>>

\* Mutant of Hopeless: the members of a suspended core count as failed.
HopelessSuspended(a) == ~Usable(a) /\ Probed(a) /\ ~a.starting
Hopeless(a) == ~Usable(a) /\ Probed(a) /\ ~a.suspended /\ ~a.starting
Exhausted(a) == IF ~Hopeless(a) THEN 0 ELSE IF mon.exhausted = 0 THEN now ELSE mon.exhausted
Doubled(secs) ==
  IF secs = 0 THEN BackoffMin ELSE IF 2 * secs > BackoffMax THEN BackoffMax ELSE 2 * secs
Fires(a) ==
  /\ Exhausted(a) # 0 /\ now - Exhausted(a) >= Grace
  /\ back.last = 0 \/ now - back.last >= back.secs

\* For the history: all of the members fail, and the network of the core is up.
AllFail(a) == ~a.suspended /\ ~a.starting /\ \A i \in DOMAIN a.state : a.state[i] \in {"cooldown", "dead"}
Streak(a) == IF ~AllFail(a) THEN 0 ELSE IF streak = 0 THEN now ELSE streak

\* The answer becomes the view, unless the monitor was put to sleep meanwhile.
Views ==
  LET a == poll.next.answer IN
  /\ At("mapped")
  /\ IF ~mon.active THEN Sleeps /\ UNCHANGED <<mon, back, asked, streak>>
     ELSE /\ mon' = [mon EXCEPT !.view = Seen(poll.next), !.exhausted = IF Fires(a) THEN 0 ELSE Exhausted(a)]
          /\ back' = [last |-> IF Fires(a) THEN now ELSE back.last,
                      secs |-> IF Usable(a) THEN 0
                               ELSE IF Fires(a) THEN Doubled(back.secs) ELSE back.secs]
          /\ poll' = [pc |-> "viewed", fire |-> Fires(a), next |-> NoView]
          /\ streak' = IF Fires(a) THEN 0 ELSE Streak(a)
          /\ asked' = IF Usable(a) THEN Never ELSE IF Fires(a) THEN [times |-> asked.times + 1, last |-> now] ELSE asked
  /\ UNCHANGED <<now, setup, core, worker, stored, select, pinned>>
\* The health is stored once in a while; PersistHealth notes when, if it does.
PersistsSometimes ==
  /\ At("viewed")
  /\ IF now - mon.persisted >= PersistEvery
       THEN /\ PersistHealth
            /\ mon' = IF Persistable THEN [mon EXCEPT !.persisted = now] ELSE mon
       ELSE UNCHANGED <<stored, mon>>
  /\ IF poll.fire THEN Goes("iface") ELSE Sleeps
  /\ UNCHANGED <<now, setup, core, worker, back, select, pinned, asked, streak>>
\* Without a default route the pool is kept; else poolExhausted is emitted.
ChecksInterface ==
  /\ At("iface") /\ Sleeps
  /\ UNCHANGED <<now, setup, core, worker, mon, back, stored, select, pinned, asked, streak>>

-----------------------------------------------------------------------------
(* The user pins a member, or unpins with an empty tag (0). *)

RequestSelect(tag) ==
  /\ select.pc = "none" /\ mon.active /\ tag \in {0} \union DOMAIN mon.map
  /\ select' = [pc |-> "asks", tag |-> tag, member |-> Who(mon.map, tag), told |-> NoProfile]
  /\ UNCHANGED <<now, setup, core, worker, mon, back, poll, stored, pinned, asked, streak>>
NoSelect == [pc |-> "none", tag |-> 0, member |-> NoProfile, told |-> NoProfile]
\* The core pins the member in that place of the build it runs, or refuses.
CoreSelects ==
  /\ select.pc = "asks"
  /\ select' = IF core # <<>> /\ select.tag \in {0} \union DOMAIN core
               THEN [select EXCEPT !.pc = "saves", !.told = Who(core, select.tag)] ELSE NoSelect
  /\ UNCHANGED <<now, setup, core, worker, mon, back, poll, stored, pinned, asked, streak>>
SavesPin ==
  /\ select.pc = "saves" /\ select' = NoSelect
  /\ pinned' = [saved |-> select.member, told |-> select.told]
  /\ UNCHANGED <<now, setup, core, worker, mon, back, poll, stored, asked, streak>>

-----------------------------------------------------------------------------
Worker == \/ \E b \in setup.of : CoreStarts(b)
          \/ NoteBuilt \/ NoteStopped \/ CoreStops \/ StopFails \/ CoreDies
Poll == \/ Wakes \/ QueryAnswered \/ QueryFails \/ FindsGroup \/ MapsTags \/ Views
        \/ PersistsSometimes \/ ChecksInterface
Select == \/ \E tag \in setup.picks : RequestSelect(tag)
          \/ CoreSelects \/ SavesPin
Next == Tick \/ Worker \/ Poll \/ Select

\* No fairness: the properties here are about what the monitor may never do.
Spec == Init /\ [][Next]_vars

-----------------------------------------------------------------------------
(* Properties. *)

\* The wait before the n-th rebuild after the first: doubled each time, up to the maximum.
Wait(n) == LET w == BackoffMin * 2 ^ (n - 1) IN IF w > BackoffMax THEN BackoffMax ELSE w
\* As long as every answer shows all members failing, of this build and of those
\* before it, rebuilds are asked for at doubling distances
\* (kRebuildBackoffMinSecs, kRebuildBackoffMaxSecs).  A new build that is seen
\* before its first probe ends has untested members, which count as usable and
\* end the back-off: then, consecutive rebuilds do not double their distance.
RebuildsBackOff ==
  [][asked'.times > asked.times /\ asked.times > 0 => asked'.last - asked.last >= Wait(asked.times)]_vars

\* The member remembered as pinned is the one the core pinned (RequestSelect).
PinIsTheCores == pinned.saved = pinned.told
=============================================================================
