----------------------------- MODULE TestRunner -----------------------------
(***************************************************************************)
(* The test sessions of the engine: TestRunner of                          *)
(* src/src/engine/tests/TestRunner.cpp, with the result buffers of the     *)
(* core (src/core/internal/probe/probe.go).                                *)
(*                                                                         *)
(* A request that gets the session lock runs its batches one after the     *)
(* other on a worker; the probes of a batch run on a pool, each blocked in *)
(* one RPC for the whole of its profiles.  While it waits, a poll thread   *)
(* drains what the core has measured so far.  Poll threads are not joined: *)
(* one may sit in its query while its batch, or its session, ends.         *)
(*                                                                         *)
(* A batch has a probe for the profiles that share one box, told apart by  *)
(* positional tags which every batch uses again (one such profile stands   *)
(* for them), and maybe one for a full config, which has no tag of ours.   *)
(***************************************************************************)
EXTENDS Naturals, FiniteSets

CONSTANTS Profile,      \* profiles to test
          NoProfile,    \* a batch without this part
          Setups,       \* the requests and the bounds the specification covers
          MaxRequests,  \* bound: requests
          MaxBatches    \* bound: batches of all sessions

Kinds == {"url", "ip", "udp", "site"}
\* What one run of the program is given: the profiles it tests, whether some
\* have a full config, the kinds of sessions asked for; and the bounds on the
\* requests, on the batches of all sessions and on the calls of stop().
Setup == [profiles : SUBSET Profile, full : BOOLEAN, kinds : SUBSET Kinds, requests : 0 .. MaxRequests,
          batches : 0 .. MaxBatches, stops : Nat]

ASSUME NoProfileAssumption == NoProfile \notin Profile
ASSUME SetupAssumption == MaxRequests \in Nat /\ MaxBatches \in Nat /\ \A s \in Setups : s \in Setup

VARIABLES issued,    \* requests made so far
          req,       \* each request: its kind, its worker, whether stop() came during its session
          fin,       \* how often the onFinished of each request was called
          session,   \* the request that holds session_, 0 if none
          gen,       \* sessionGen_
          stopReq,   \* stopRequested_
          setup,     \* the setup; its stops are what is left of them
          batch,     \* the profiles of each batch so far
          probe,     \* the probes of the last batch
          poll,      \* the poll thread of each probe so far
          job,       \* each probe's test in the core
          late,      \* history: tests whose request was under way when stop() came
          buffer,    \* the core's reporter of each kind: results nobody has drained
          stored     \* each profile: the test its stored result comes from
vars == <<issued, req, fin, session, gen, stopReq, setup, batch, probe, poll, job, late, buffer, stored>>
sessionVars == <<issued, req, fin, session, stopReq, setup>>
testVars == <<batch, probe, poll, job, late, buffer, stored>>

Request == 1 .. MaxRequests
Last == Cardinality(DOMAIN batch)
Part == {"shared", "full"}
Test == (1 .. MaxBatches) \X Part  \* a probe's test: its batch and its part
NoTest == <<0, "none">>
ProfileOf(t) == batch[t[1]][t[2]]
KindOf(t) == req[batch[t[1]].by].kind

TypeOK ==
  /\ issued \in 0 .. MaxRequests /\ session \in 0 .. MaxRequests
  /\ req \in [Request -> [kind : Kinds \union {"none"}, stopped : BOOLEAN,
                          pc : {"none", "waits", "locked", "starts", "loop", "batch", "ended", "over"}]]
  /\ fin \in [Request -> 0 .. 1]
  /\ gen \in Nat /\ stopReq \in BOOLEAN /\ setup \in Setup
  /\ DOMAIN batch \in {1 .. n : n \in 0 .. MaxBatches}
  /\ \A n \in DOMAIN batch : batch[n] \in [by : Request, shared : Profile \union {NoProfile}, full : Profile \union {NoProfile}]
  /\ probe \in [Part -> {"queued", "rpc", "apply", "done"}]
  /\ poll \in [Test -> [pc : {"none", "sleep", "asks", "holds", "applies"}, gen : Nat, stop : BOOLEAN, held : SUBSET Test]]
  /\ job \in [Test -> {"none", "asked", "running", "measured", "answered"}] /\ late \subseteq Test
  /\ buffer \in [Kinds -> SUBSET Test] /\ stored \in [Profile -> Test \union {NoTest}]

NoPoll == [pc |-> "none", gen |-> 0, stop |-> FALSE, held |-> {}]
Init ==
  /\ issued = 0 /\ session = 0
  /\ req = [r \in Request |-> [kind |-> "none", stopped |-> FALSE, pc |-> "none"]]
  /\ fin = [r \in Request |-> 0]
  /\ gen = 0 /\ stopReq = FALSE /\ setup \in Setups
  /\ batch = [n \in {} |-> NoTest] /\ probe = [k \in Part |-> "done"]
  /\ poll = [t \in Test |-> NoPoll] /\ job = [t \in Test |-> "none"] /\ late = {}
  /\ buffer = [k \in Kinds |-> {}] /\ stored = [p \in Profile |-> NoTest]

-----------------------------------------------------------------------------
(* Requests. *)

Free == session = 0
Finish(r) == fin' = [fin EXCEPT ![r] = @ + 1]

\* tryLock() failed.
Refuses(r) == Finish(r)

\* tryLock(), which may also find the lock held for a moment by another
\* thread's isRunning(), which takes it to find out.
Ask(kind) ==
  /\ issued < setup.requests /\ issued' = issued + 1
  /\ LET r == issued + 1 IN
     \/ /\ Free /\ session' = r
        /\ req' = [req EXCEPT ![r].kind = kind, ![r].pc = "locked"]
        /\ UNCHANGED fin
     \/ /\ Refuses(r)
        /\ req' = [req EXCEPT ![r].kind = kind, ![r].pc = "over"]
        /\ UNCHANGED session
  /\ UNCHANGED <<gen, stopReq, setup, testVars>>
\* runUrlTests, runIpTests, runUdpTests.
Run(kind) == kind # "site" /\ Ask(kind)
RunSites == "site" \in setup.kinds /\ Ask("site")
\* Nothing is left to test once the selectors are taken out.
RunNothing(kind) ==
  /\ issued < setup.requests /\ issued' = issued + 1
  /\ req' = [req EXCEPT ![issued + 1].kind = kind, ![issued + 1].pc = "over"] /\ Finish(issued + 1)
  /\ UNCHANGED <<session, gen, stopReq, setup, testVars>>
\* queueUrlTests, on a thread of its own.
Queue ==
  /\ "url" \in setup.kinds /\ issued < setup.requests /\ issued' = issued + 1
  /\ req' = [req EXCEPT ![issued + 1].kind = "url", ![issued + 1].pc = "waits"]
  /\ UNCHANGED <<fin, session, gen, stopReq, setup, testVars>>
Locks(r) ==
  /\ req[r].pc = "waits" /\ Free
  /\ session' = r /\ req' = [req EXCEPT ![r].pc = "locked"]
  /\ UNCHANGED <<issued, fin, gen, stopReq, setup, testVars>>

\* Mutant of ResetHere: on the worker, after a stop() it does not see.
ResetOnWorker(pc) == pc = "starts"
\* "Reset here, not on the worker": with the session, before its worker runs.
ResetHere(pc) == pc = "locked"
Begins(r) ==
  /\ req[r].pc \in {"locked", "starts"}
  /\ gen' = IF req[r].pc = "locked" THEN gen + 1 ELSE gen
  /\ req' = [req EXCEPT ![r].pc = IF @ = "locked" THEN "starts" ELSE "loop"]
  /\ stopReq' = IF ResetHere(req[r].pc) THEN FALSE ELSE stopReq
  /\ UNCHANGED <<issued, fin, session, setup, testVars>>

\* stop(): the flag, and cancelAndRearm(): the core ends the tests it has begun
\* early, which is one of their outcomes, and begins others as before.
InSession(r) == session = r /\ req[r].pc \in {"starts", "loop", "batch"}
Stop ==
  /\ setup.stops > 0 /\ setup' = [setup EXCEPT !.stops = @ - 1]
  /\ stopReq' = TRUE
  /\ req' = [r \in Request |-> IF InSession(r) THEN [req[r] EXCEPT !.stopped = TRUE] ELSE req[r]]
  /\ late' = late \union {t \in Test : job[t] = "asked"}
  /\ UNCHANGED <<issued, fin, session, gen, batch, probe, poll, job, buffer, stored>>

-----------------------------------------------------------------------------
(* The worker of a session. *)

\* The next batch: sessionGen_ goes up first, so that polls of the last one are
\* stale (the site test has no polls).  A batch that cannot be built, or is left
\* with nothing to test, has no probes.
BeginsBatch(r) ==
  /\ req[r].pc = "loop" /\ ~stopReq /\ Last < setup.batches
  /\ gen' = IF req[r].kind = "site" THEN gen ELSE gen + 1
  /\ \E s, f \in setup.profiles \union {NoProfile} :
       /\ s = f \/ ~setup.full => f = NoProfile
       /\ batch' = [n \in 1 .. Last + 1 |-> IF n <= Last THEN batch[n] ELSE [by |-> r, shared |-> s, full |-> f]]
       /\ probe' = [k \in Part |-> IF batch'[Last + 1][k] = NoProfile THEN "done" ELSE "queued"]
  /\ req' = [req EXCEPT ![r].pc = "batch"]
  /\ UNCHANGED <<issued, fin, session, stopReq, setup, poll, job, late, buffer, stored>>
BatchDone(r) ==
  /\ req[r].pc = "batch" /\ \A k \in Part : probe[k] = "done"
  /\ req' = [req EXCEPT ![r].pc = "loop"]
  /\ UNCHANGED <<issued, fin, session, gen, stopReq, setup, testVars>>
\* No profile is left, or stop() came: the lock goes first, then onFinished.
Unlocks(r) ==
  /\ req[r].pc = "loop"
  /\ session' = 0 /\ req' = [req EXCEPT ![r].pc = "ended"]
  /\ UNCHANGED <<issued, fin, gen, stopReq, setup, testVars>>
Finishes(r) ==
  /\ req[r].pc = "ended" /\ req' = [req EXCEPT ![r].pc = "over"] /\ Finish(r)
  /\ UNCHANGED <<issued, session, gen, stopReq, setup, testVars>>

-----------------------------------------------------------------------------
(* A probe, and its test in the core. *)

This(k) == <<Last, k>>
Kind == req[session].kind
StopPoll(t) == poll' = [poll EXCEPT ![t].stop = TRUE]

\* runUrlProbe, runIpProbe, runUdpProbe, runSiteProbe: the check, and the RPC.
ProbeChecks(k) ==
  /\ probe[k] = "queued"
  /\ IF stopReq
     THEN probe' = [probe EXCEPT ![k] = "done"] /\ UNCHANGED <<poll, job>>
     ELSE /\ probe' = [probe EXCEPT ![k] = "rpc"] /\ job' = [job EXCEPT ![This(k)] = "asked"]
          /\ poll' = IF Kind = "site" THEN poll
                     ELSE [poll EXCEPT ![This(k)] = [NoPoll EXCEPT !.pc = "sleep", !.gen = gen]]
  /\ UNCHANGED <<sessionVars, gen, batch, late, buffer, stored>>

\* The core has built the box, and takes its context for tests: one that no
\* stop() of before cancels.
CoreBegins(t) ==
  /\ job[t] = "asked" /\ job' = [job EXCEPT ![t] = "running"]
  /\ UNCHANGED <<sessionVars, gen, batch, probe, poll, late, buffer, stored>>
\* Or it cannot build it.
Waited(t) == t = This(t[2]) /\ probe[t[2]] = "rpc"
Rejects(t) ==
  /\ job[t] = "asked" /\ job' = [job EXCEPT ![t] = "answered"]
  /\ IF Waited(t)
     THEN probe' = [probe EXCEPT ![t[2]] = "done"] /\ StopPoll(t)
     ELSE UNCHANGED <<probe, poll>>
  /\ UNCHANGED <<sessionVars, gen, batch, late, buffer, stored>>
\* The core has a result, and publishes it.
Measures(t) ==
  /\ job[t] = "running" /\ job' = [job EXCEPT ![t] = "measured"]
  /\ buffer' = IF KindOf(t) = "site" THEN buffer ELSE [buffer EXCEPT ![KindOf(t)] = @ \union {t}]
  /\ UNCHANGED <<sessionVars, gen, batch, late, probe, poll, stored>>

Reclaim(t) == [buffer EXCEPT ![KindOf(t)] = @ \ {t}]
\* It answers, with what it published taken back.
Answers(t) ==
  /\ job[t] = "measured" /\ job' = [job EXCEPT ![t] = "answered"]
  /\ buffer' = Reclaim(t)
  /\ IF Waited(t)
     THEN probe' = [probe EXCEPT ![t[2]] = "apply"] /\ StopPoll(t)
     ELSE UNCHANGED <<probe, poll>>
  /\ UNCHANGED <<sessionVars, gen, batch, late, stored>>
\* The deadline of Test and IPTest covers the worst case of a batch; UDPTest and
\* SiteTest have the default one, and their test goes on in the core.
Covered(kind) == kind \in {"url", "ip"}
RpcTimesOut(k) ==
  /\ probe[k] = "rpc" /\ ~Covered(Kind)
  /\ probe' = [probe EXCEPT ![k] = "done"] /\ StopPoll(This(k))
  /\ UNCHANGED <<sessionVars, gen, batch, late, job, buffer, stored>>

\* The answer is stored under the profile of its tag, or of the full config.
Stores(k) ==
  /\ probe[k] = "apply" /\ Kind # "site" /\ probe' = [probe EXCEPT ![k] = "done"]
  /\ stored' = [stored EXCEPT ![ProfileOf(This(k))] = This(k)]
  /\ UNCHANGED <<sessionVars, gen, batch, late, poll, job, buffer>>
\* That of a site test goes to its report.
ReportsSites(k) ==
  /\ probe[k] = "apply" /\ Kind = "site" /\ probe' = [probe EXCEPT ![k] = "done"]
  /\ UNCHANGED <<sessionVars, gen, batch, late, poll, job, buffer, stored>>

-----------------------------------------------------------------------------
(* The poll thread of a probe. *)

Ticks(t) ==
  /\ poll[t].pc = "sleep"
  /\ poll' = IF poll[t].stop THEN [poll EXCEPT ![t] = NoPoll]
             ELSE IF poll[t].gen # gen THEN poll
             ELSE [poll EXCEPT ![t].pc = "asks"]
  /\ UNCHANGED <<sessionVars, gen, batch, late, probe, job, buffer, stored>>
\* The core hands over each result once.
Drains(t) ==
  /\ poll[t].pc = "asks"
  /\ poll' = [poll EXCEPT ![t].pc = "holds", ![t].held = buffer[KindOf(t)]]
  /\ buffer' = [buffer EXCEPT ![KindOf(t)] = {}]
  /\ UNCHANGED <<sessionVars, gen, batch, late, probe, job, stored>>
\* Mutant of StillFresh: the generation is checked before the query only.
CheckedOnce(t) == TRUE
StillFresh(t) == poll[t].gen = gen
ChecksAgain(t) ==
  /\ poll[t].pc = "holds"
  /\ poll' = IF StillFresh(t) THEN [poll EXCEPT ![t].pc = "applies"]
             ELSE [poll EXCEPT ![t].pc = "sleep", ![t].held = {}]
  /\ UNCHANGED <<sessionVars, gen, batch, late, probe, job, buffer, stored>>
\* testRunnerResolveEntID: the poll of a full config knows no tag, that of the
\* shared box finds its own profile under the tag of any batch's.
Applies(t) ==
  /\ poll[t].pc = "applies"
  /\ poll' = [poll EXCEPT ![t].pc = "sleep", ![t].held = {}]
  /\ \/ /\ t[2] = "shared"
        /\ \E x \in poll[t].held : x[2] = "shared" /\ stored' = [stored EXCEPT ![ProfileOf(t)] = x]
     \/ /\ t[2] = "full" \/ \A x \in poll[t].held : x[2] = "full"
        /\ UNCHANGED stored
  /\ UNCHANGED <<sessionVars, gen, batch, late, probe, job, buffer>>

-----------------------------------------------------------------------------
WorkerSteps(r) == Locks(r) \/ Begins(r) \/ BeginsBatch(r) \/ BatchDone(r) \/ Unlocks(r) \/ Finishes(r)
ProbeSteps(k) == ProbeChecks(k) \/ RpcTimesOut(k) \/ Stores(k) \/ ReportsSites(k)
CoreSteps(t) == CoreBegins(t) \/ Rejects(t) \/ Measures(t) \/ Answers(t)
PollSteps(t) == Ticks(t) \/ Drains(t) \/ ChecksAgain(t) \/ Applies(t)
Rests == issued = setup.requests /\ setup.requests > 0 /\ (\A r \in 1 .. issued : req[r].pc = "over") /\ UNCHANGED vars

Next ==
  \/ (\E kind \in setup.kinds : Run(kind) \/ RunNothing(kind)) \/ RunSites \/ Queue \/ Stop \/ Rests
  \/ \E r \in Request : WorkerSteps(r)
  \/ \E k \in Part : ProbeSteps(k)
  \/ \E t \in Test : CoreSteps(t) \/ PollSteps(t)

\* Fair: threads, and the core, whose probes have a time limit each.
Spec == Init /\ [][Next]_vars
Fairness ==
  /\ \A r \in Request : WF_vars(WorkerSteps(r))
  /\ \A k \in Part : WF_vars(ProbeSteps(k))
  /\ \A t \in Test : WF_vars(CoreSteps(t))
FairSpec == Spec /\ Fairness

-----------------------------------------------------------------------------
\* A stored result is a measurement of that profile, whichever poll of whichever
\* batch delivered it: tags are used again, but never read through the map of
\* another batch.
OwnResult == TypeOK /\ \A p \in Profile : stored[p] # NoTest => ProfileOf(stored[p]) = p

\* "A stop() that lands before the worker runs must still count": once stop()
\* has come during a session, the core begins another test of it only when its
\* probe had checked the flag before and its request was on the way.
StopCounts ==
  [][\A t \in Test : job[t] = "asked" /\ job'[t] = "running" =>
        ~req[batch[t[1]].by].stopped \/ t \in late]_vars

\* "onFinished fires either way", "must fire on every exit path": each request
\* is answered exactly once, whether it ran, was refused, had nothing to test,
\* or waited for the session.
Requests == INSTANCE StartRequests WITH answers <- fin, closed <- FALSE
FinishedOnce == Requests!Spec

\* A request ends once, and soon after it was stopped.
RequestsEnd == FinishedOnce /\ StopCounts
=============================================================================
