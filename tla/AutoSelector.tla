---------------------------- MODULE AutoSelector ----------------------------
(***************************************************************************)
(* Starting an auto selector: AutoSelectorController of                    *)
(* src/src/engine/autoselector/AutoSelectorController.cpp.                 *)
(*                                                                         *)
(* A start of a selector whose build was never measured is held while a    *)
(* ranking thread has the tests measure the members.  As soon as enough of *)
(* them work the start is resumed; when the sweep ends, the pool is ranked *)
(* again and the selector is rebuilt if that changes what it runs on.  A   *)
(* pool that stopped working starts such a sweep as well.  The main thread *)
(* runs the closures that threads post to it in turn.                      *)
(*                                                                         *)
(* Starts are modelled from the point where ConnectionManager::start asks  *)
(* whether to rank; what comes before it is in ConnectionManager.tla.      *)
(* A sweep's tests are a session that ends (TestRunner.tla).               *)
(***************************************************************************)
EXTENDS AutoSelectorPlan

CONSTANTS Setups,      \* the selectors and the bounded commands to begin with
          MaxRequests  \* bound: starts of the selector the user asks for

\* The members and the latencies a test may find; whether Tun is on, so that a switch
\* ends with an RPC that releases the transition guard; and how many starts of the
\* selector, poolExhausted signals, stops, starts of another profile and members lost
\* with a subscription update there are.
Setup == [members : SUBSET Member, latencies : SUBSET Int, tun : BOOLEAN, requests : 0 .. MaxRequests,
          exhausted : Nat, stops : Nat, others : Nat, changes : Nat]
ASSUME RequestsAssumption == MaxRequests \in Nat
ASSUME SetupsAssumption == \A s \in Setups : s \in Setup

VARIABLES lat,        \* the latency stored for each member
          there,      \* the members that exist
          pool,       \* selector->pool
          built,      \* selector->lastBuilt
          running,    \* what runs: "none", "sel", the selector, or "other"
          connecting, \* m_profileConnecting
          worker,     \* the start worker, which holds mu_starting
          mainq,      \* closures posted to the main thread
          inflight,   \* rankingInFlight_
          sweep,      \* the sweeps so far
          session,    \* the sweep whose tests hold the test session, 0 if none
          issued,     \* starts asked for
          answers,    \* how often each got past the ranking
          events      \* the setup, and the other commands and signals so far
selVars == <<lat, there, pool, built>>
connVars == <<running, connecting, worker>>
vars == <<selVars, connVars, mainq, inflight, sweep, session, issued, answers, events>>

Request == 1 .. MaxRequests
Sweep == 1 .. Len(sweep)
Prefixes == {s \in UNION {[1 .. n -> Member] : n \in 0 .. MaxMember} :
               \A i, j \in DOMAIN s : s[i] = s[j] => i = j}
Pc == {"begins", "asked", "wait", "earlyRead", "earlyWrite", "read", "write", "posts", "over",
       "settling", "finalRead", "finalWrite", "finalPost", "finalOver", "gone"}
TypeOK ==
  /\ lat \in [Member -> events.setup.latencies \union {0}] /\ there \subseteq events.setup.members
  /\ pool \in Prefixes /\ built \in Prefixes
  /\ running \in {"none", "sel", "other"} /\ connecting \in BOOLEAN
  /\ worker \in [pc : {"none", "switch", "starts", "unlocks"}, target : {"sel", "other"}, build : Prefixes,
                 guarded : BOOLEAN]
  /\ \A i \in DOMAIN mainq : mainq[i].what \in {"early", "over", "reranked", "settled"}
  /\ inflight = Cardinality({s \in Sweep : sweep[s].pc \notin
                                {"settling", "finalRead", "finalWrite", "finalPost", "finalOver", "gone"}})
  /\ \A s \in Sweep : /\ sweep[s].pc \in Pc /\ sweep[s].wake \in 0 .. 2
                      /\ sweep[s].working \subseteq sweep[s].measured
                      /\ sweep[s].ranked \in Prefixes
  /\ session \in 0 .. Len(sweep)
  /\ issued \in 0 .. events.setup.requests /\ answers \in [Request -> Nat]

NoWorker == [pc |-> "none", target |-> "other", build |-> <<>>, guarded |-> FALSE]
Init ==
  /\ lat = [m \in Member |-> 0] /\ pool = <<>> /\ built = <<>>
  /\ running = "none" /\ connecting = FALSE /\ worker = NoWorker
  /\ mainq = <<>> /\ inflight = 0 /\ sweep = <<>> /\ session = 0
  /\ issued = 0 /\ answers = [r \in Request |-> 0]
  /\ events \in [setup : Setups, exhausted : {0}, stops : {0}, others : {0}, changes : {0}]
  /\ there = events.setup.members

-----------------------------------------------------------------------------
(* The main thread: starts. *)

Post(c) == mainq' = Append(mainq, c)
Set(s, rec) == sweep' = [sweep EXCEPT ![s] = rec]
NewSweep(kind, r) ==
  [kind |-> kind, req |-> r, pc |-> "begins", stale |-> {}, needed |-> {}, before |-> 0, measured |-> {},
   working |-> {}, met |-> FALSE, done |-> FALSE, early |-> FALSE, wake |-> 0, ranked |-> <<>>,
   untrusted |-> {}, changed |-> FALSE]

\* A sweep whose thread has ended; where its pool is still to be ranked, pc says so.
EndedSweep(pc) == [NewSweep("start", 0) EXCEPT !.pc = pc]

\* startFinished, or the dispatch that leads to it, for the user's requests.
Answered(r) == answers' = IF r = 0 THEN answers ELSE [answers EXCEPT ![r] = @ + 1]

\* rankBeforeStart: whether the start is held.
Ranks(justRanked, flying, th, pl) ==
  flying = 0 /\ ~justRanked /\ ~PlanFails(th) /\ NeedsRanking(lat, th, pl)

\* A start's worker stops what runs first, under the guard if Tun is on.
WorkerFor(target, build) ==
  [pc |-> IF running = "none" THEN "starts" ELSE "switch", target |-> target, build |-> build,
   guarded |-> events.setup.tun /\ running # "none"]
\* start() past the ranking: the config is built here, then a worker takes over
\* unless another start holds mu_starting.
Dispatch(r, th, pl) ==
  /\ Answered(r)
  /\ IF PlanFails(th) \/ worker.pc # "none" THEN UNCHANGED connVars
     ELSE /\ connecting' = TRUE
          /\ worker' = WorkerFor("sel", PlanBuild(lat, th, pl))
          /\ UNCHANGED running

\* Starts the selector for request r, 0 for the engine's own, when flying sweeps
\* are under way, sws are all of them, th the members and pl the pool.
StartWith(r, justRanked, flying, sws, th, pl) ==
  IF Ranks(justRanked, flying, th, pl)
    THEN /\ inflight' = flying + 1 /\ sweep' = Append(sws, NewSweep("start", r))
         /\ UNCHANGED <<connVars, answers>>
    ELSE /\ inflight' = flying /\ sweep' = sws
         /\ Dispatch(r, th, pl)
StartSelector(r, justRanked, sws, flying) == StartWith(r, justRanked, flying, sws, there, pool)

UserStart ==
  /\ issued < events.setup.requests /\ issued' = issued + 1
  /\ StartSelector(issued + 1, FALSE, sweep, inflight)
  /\ UNCHANGED <<selVars, mainq, session, events>>

\* What a held start, or a pool that stopped working, waits for.
Resume(s, sws, flying) ==
  IF sweep[s].kind = "exhausted" /\ running # "sel"
    THEN inflight' = flying /\ sweep' = sws /\ UNCHANGED <<connVars, answers>>
    ELSE StartSelector(sweep[s].req, TRUE, sws, flying)

\* Mutant of EarlyWaits: the last ranking does not wait for the early start.
EarlyNeverWaits == FALSE
\* finishEarlySweep waits for connectionStateChanged while a start is under way.
EarlyWaits == connecting

Pop == mainq' = Tail(mainq)
Heads(what) == mainq # <<>> /\ Head(mainq).what = what
StartsEarly ==
  /\ Heads("early") /\ Pop
  /\ Resume(Head(mainq).s, sweep, inflight)
  /\ UNCHANGED <<selVars, session, issued, events>>
\* Mutant of StillHeld: the end of a sweep resumes its start even if it was resumed early.
HeldAnyway(sw) == TRUE
\* Whether the end of a sweep is what its start waits for.
StillHeld(sw) == ~sw.early
SweepOver ==
  LET s == Head(mainq).s IN
  /\ Heads("over") /\ Pop
  /\ IF StillHeld(sweep[s])
       THEN Resume(s, [sweep EXCEPT ![s] = EndedSweep("gone")], inflight - 1)
       ELSE /\ inflight' = inflight - 1
            /\ Set(s, EndedSweep(IF EarlyWaits THEN "settling" ELSE "finalRead"))
            /\ UNCHANGED <<connVars, answers>>
  /\ UNCHANGED <<selVars, session, issued, events>>
\* The end of a start: syncState() tells finishEarlySweep.
Settled ==
  /\ Heads("settled") /\ Pop
  /\ connecting' = FALSE
  /\ sweep' = [s \in Sweep |-> IF sweep[s].pc = "settling" THEN [sweep[s] EXCEPT !.pc = "finalRead"] ELSE sweep[s]]
  /\ UNCHANGED <<selVars, running, worker, inflight, session, issued, answers, events>>
\* The selector is rebuilt if it still runs and the full ranking changed its build.
Reranked ==
  LET s == Head(mainq).s
      sws == [sweep EXCEPT ![s] = EndedSweep("gone")] IN
  /\ Heads("reranked") /\ Pop
  /\ IF sweep[s].changed /\ ~connecting /\ running = "sel"
       THEN StartSelector(0, TRUE, sws, inflight)
       ELSE inflight' = inflight /\ sweep' = sws /\ UNCHANGED <<connVars, answers>>
  /\ UNCHANGED <<selVars, session, issued, events>>

OnPoolExhausted ==
  /\ events.exhausted < events.setup.exhausted /\ running = "sel"
  /\ events' = [events EXCEPT !.exhausted = @ + 1]
  /\ inflight' = inflight + 1 /\ sweep' = Append(sweep, NewSweep("exhausted", 0))
  /\ UNCHANGED <<selVars, connVars, mainq, session, issued, answers>>
\* A subscription update took a member: it leaves the pool and the last build, and a
\* selector that runs on it is started again.
OnSubscriptionGroupChanged(m) ==
  /\ events.changes < events.setup.changes /\ m \in there
  /\ events' = [events EXCEPT !.changes = @ + 1]
  /\ there' = there \ {m}
  /\ pool' = SelectSeq(pool, LAMBDA p : p # m) /\ built' = SelectSeq(built, LAMBDA p : p # m)
  /\ IF running = "sel" /\ m \in Elements(built)
       THEN StartWith(0, FALSE, inflight, sweep, there', pool')
       ELSE UNCHANGED <<connVars, inflight, sweep, answers>>
  /\ UNCHANGED <<lat, mainq, session, issued>>
UserStop ==
  /\ events.stops < events.setup.stops /\ events' = [events EXCEPT !.stops = @ + 1]
  /\ running # "none" /\ ~connecting /\ running' = "none"
  /\ UNCHANGED <<selVars, connecting, worker, mainq, inflight, sweep, session, issued, answers>>
OtherStart ==
  /\ events.others < events.setup.others /\ events' = [events EXCEPT !.others = @ + 1]
  /\ worker.pc = "none"
  /\ connecting' = TRUE
  /\ worker' = WorkerFor("other", <<>>)
  /\ UNCHANGED <<selVars, running, mainq, inflight, sweep, session, issued, answers>>

-----------------------------------------------------------------------------
(* The worker of a start. *)

Switches ==
  /\ worker.pc = "switch" /\ running' = "none" /\ worker' = [worker EXCEPT !.pc = "starts"]
  /\ UNCHANGED <<selVars, connecting, mainq, inflight, sweep, session, issued, answers, events>>
\* noteBuilt() records the build once the core has accepted it; the end of the
\* start is posted before mu_starting is released, at once or after an RPC.
Starts ==
  /\ worker.pc = "starts" /\ worker' = IF worker.guarded THEN [worker EXCEPT !.pc = "unlocks"] ELSE NoWorker
  /\ Post([what |-> "settled", s |-> 0])
  /\ \/ /\ running' = worker.target
        /\ built' = IF worker.target = "sel" THEN worker.build ELSE built
     \/ UNCHANGED <<running, built>>  \* the start failed
  /\ UNCHANGED <<lat, there, pool, connecting, inflight, sweep, session, issued, answers, events>>
Unlocks ==
  /\ worker.pc = "unlocks" /\ worker' = NoWorker
  /\ UNCHANGED <<selVars, running, connecting, mainq, inflight, sweep, session, issued, answers, events>>

-----------------------------------------------------------------------------
(* A ranking thread, rank(), and the tests it has run. *)

rankUnchanged == <<lat, there, built, connVars, inflight, issued, answers, events>>
Reached(sw) == sw.before + Cardinality(sw.working) >= Quorum
\* The quorum is signalled once.
Signal(sw) == IF sw.met \/ ~Reached(sw) THEN sw ELSE [sw EXCEPT !.met = TRUE, !.wake = @ + 1]
Finished(sw) == [sw EXCEPT !.done = TRUE, !.wake = @ + 1]

\* What is to be measured; the tests take the session or refuse, which ends the sweep.
Begins(s) ==
  LET stale == IF sweep[s].kind = "exhausted" THEN Elements(built) ELSE {}
      sw == [sweep[s] EXCEPT !.stale = stale, !.needed = UnmeasuredCandidates(lat, there, stale),
                             !.before = Cardinality(WorkingCandidates(lat, there, stale))] IN
  /\ sweep[s].pc = "begins"
  /\ \/ /\ sw.needed = {} /\ Set(s, [sw EXCEPT !.pc = "read"]) /\ UNCHANGED session
     \/ /\ sw.needed # {} /\ session = 0
        /\ session' = s /\ Set(s, [sw EXCEPT !.pc = "asked"])
     \/ /\ sw.needed # {} /\ Set(s, [Finished(sw) EXCEPT !.pc = "wait"]) /\ UNCHANGED session
  /\ UNCHANGED <<rankUnchanged, pool, mainq>>
\* The quorum may be there before a single result is.
LooksAtQuorum(s) ==
  /\ sweep[s].pc = "asked" /\ Set(s, [Signal(sweep[s]) EXCEPT !.pc = "wait"])
  /\ UNCHANGED <<rankUnchanged, pool, mainq, session>>
\* A result is stored, and the sweep hears of it.
Result(s, m, l) ==
  /\ session = s /\ m \in (sweep[s].needed \ sweep[s].measured) \intersect there
  /\ lat' = [lat EXCEPT ![m] = l]
  /\ Set(s, Signal([sweep[s] EXCEPT !.measured = @ \union {m},
                     !.working = IF Works(lat', m) THEN @ \union {m} ELSE @ \ {m}]))
  /\ UNCHANGED <<there, pool, built, connVars, mainq, inflight, session, issued, answers, events>>
\* The session ends, all measured or stopped.
TestsEnd(s) ==
  /\ session = s /\ session' = 0 /\ Set(s, Finished(sweep[s]))
  /\ UNCHANGED <<rankUnchanged, pool, mainq>>

\* Whether a wake-up is the one that resumes the start.
StartsNow(sw) == ~sw.early /\ sw.met
Wakes(s) ==
  LET sw == [sweep[s] EXCEPT !.wake = @ - 1] IN
  /\ sweep[s].pc = "wait" /\ sweep[s].wake > 0
  /\ Set(s, IF sw.done THEN [sw EXCEPT !.pc = IF sw.early THEN "posts" ELSE "read"]
            ELSE IF StartsNow(sw)
              THEN [sw EXCEPT !.pc = "earlyRead", !.early = TRUE, !.untrusted = sw.stale \ sw.measured]
              ELSE sw)
  /\ UNCHANGED <<rankUnchanged, pool, mainq, session>>
\* RerankAutoSelectorPool reads the latencies, sorts, and then writes the pool.
Reads(s) ==
  /\ sweep[s].pc \in {"earlyRead", "read", "finalRead"}
  /\ Set(s, [sweep[s] EXCEPT
               !.ranked = Rerank(lat, there, IF sweep[s].pc = "earlyRead" THEN sweep[s].untrusted ELSE {}),
               !.pc = CASE sweep[s].pc = "earlyRead" -> "earlyWrite"
                        [] sweep[s].pc = "read" -> "write"
                        [] sweep[s].pc = "finalRead" -> "finalWrite"])
  /\ UNCHANGED <<rankUnchanged, pool, mainq, session>>
WritesEarly(s) ==
  /\ sweep[s].pc = "earlyWrite" /\ pool' = sweep[s].ranked
  /\ Post([what |-> "early", s |-> s]) /\ Set(s, [sweep[s] EXCEPT !.pc = "wait", !.ranked = <<>>])
  /\ UNCHANGED <<rankUnchanged, session>>
\* rank() returns, with the pool ranked or the start resumed early.
Writes(s) ==
  /\ sweep[s].pc = "write" /\ pool' = sweep[s].ranked
  /\ Post([what |-> "over", s |-> s]) /\ Set(s, [sweep[s] EXCEPT !.pc = "over", !.ranked = <<>>])
  /\ UNCHANGED <<rankUnchanged, session>>
Posts(s) ==
  /\ sweep[s].pc = "posts"
  /\ Post([what |-> "over", s |-> s]) /\ Set(s, [sweep[s] EXCEPT !.pc = "over"])
  /\ UNCHANGED <<rankUnchanged, pool, session>>
\* The ranking that follows an early start, on a thread of its own.
WritesFinal(s) ==
  /\ sweep[s].pc = "finalWrite" /\ pool' = sweep[s].ranked
  /\ Set(s, [sweep[s] EXCEPT !.pc = "finalPost", !.ranked = <<>>])
  /\ UNCHANGED <<rankUnchanged, mainq, session>>
Compares(s) ==
  /\ sweep[s].pc = "finalPost"
  /\ Set(s, [sweep[s] EXCEPT !.pc = "finalOver", !.changed = BuildChanged(lat, there, pool, built)])
  /\ Post([what |-> "reranked", s |-> s])
  /\ UNCHANGED <<rankUnchanged, pool, session>>

-----------------------------------------------------------------------------
Main == StartsEarly \/ SweepOver \/ Settled \/ Reranked
User == \/ UserStart \/ OnPoolExhausted \/ UserStop \/ OtherStart
        \/ \E m \in Member : OnSubscriptionGroupChanged(m)
Worker == Switches \/ Starts \/ Unlocks
RankSteps(s) == \/ Begins(s) \/ LooksAtQuorum(s) \/ Wakes(s) \/ Reads(s) \/ WritesEarly(s) \/ Writes(s)
                \/ Posts(s) \/ WritesFinal(s) \/ Compares(s)
Tests(s) == TestsEnd(s) \/ \E m \in Member, l \in events.setup.latencies : Result(s, m, l)
Next == Main \/ User \/ Worker \/ \E s \in Sweep : RankSteps(s) \/ Tests(s)

\* Threads are scheduled, a start's worker ends, and a session of tests ends
\* (FinishedOnce of TestRunner.tla).
MaxSweeps == LET sweeps == {s.requests + s.exhausted + s.changes : s \in Setups} IN
             CHOOSE n \in sweeps : \A k \in sweeps : k <= n
Fairness ==
  /\ WF_vars(Main) /\ WF_vars(Worker)
  /\ \A s \in 1 .. MaxSweeps : WF_vars(s \in Sweep /\ RankSteps(s)) /\ WF_vars(s \in Sweep /\ TestsEnd(s))
Spec == Init /\ [][Next]_vars /\ Fairness

-----------------------------------------------------------------------------
(* Properties. *)

Requests == INSTANCE StartRequests WITH closed <- FALSE
\* A start that is held for ranking gets past it exactly once: neither forgotten
\* nor started twice, by an early resume and by the end of the sweep, nor held for
\* ever because its pool stays unranked (rankBeforeStart, rank, startRanked).
HeldStartsResumeOnce == Requests!Spec

\* Members are measured because of a request, a signal or an update, never because a
\* start is resumed, whatever its sweep found ("re-ranking on resume would loop").
NoRankingLoop == [][Len(sweep') > Len(sweep) => issued' # issued \/ events' # events]_vars

\* An early start is built first from members that this sweep, or a result not in
\* doubt, has shown to work ("The early build takes the working members first").
EarlyTakesWorking ==
  events.changes = 0 =>
    \A s \in Sweep : sweep[s].pc = "earlyWrite" =>
      \A i \in 1 .. Quorum : /\ Works(lat, sweep[s].ranked[i])
                             /\ sweep[s].ranked[i] \notin sweep[s].stale \ sweep[s].measured

\* One start of the selector, whatever stops it, and all of its work done.
Quiet ==
  /\ mainq = <<>> /\ worker.pc = "none" /\ \A s \in Sweep : sweep[s].pc = "gone"
  /\ issued = 1 /\ events.exhausted = 0 /\ events.others = 0 /\ events.changes = 0
\* When all is done, a selector started once runs on what the full ranking says
\* (finishEarlySweep: "rebuilds the selector if it still runs and the full ranking
\* changes its build").
FullRankingIsBuilt == Quiet /\ running = "sel" => ~BuildChanged(lat, there, pool, built)

\* What a user would call the better member: it works and the other does not or is
\* slower, or it may work and the other is known not to.
Better(m, b) == \/ lat[m] > 0 /\ (lat[b] <= 0 \/ lat[m] < lat[b])
                \/ lat[m] = 0 /\ lat[b] < 0
\* When all is done, a selector that was measured before it started leaves out no
\* member that did better than one it runs on (AutoSelectorPlan.cpp:
\* eligibleMembers, sortByLatency, orderMembers).
BestAreBuilt ==
  Quiet /\ running = "sel" => \A b \in Elements(built), m \in there \ Elements(built) : ~Better(m, b)

\* A start of the selector gets past the ranking, once, and is not ranked again.
StartsGetPast == HeldStartsResumeOnce /\ NoRankingLoop
=============================================================================
