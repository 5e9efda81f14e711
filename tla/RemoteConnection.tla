-------------------------- MODULE RemoteConnection --------------------------
(***************************************************************************)
(* The requests of the remote API that start, restart and stop the         *)
(* connection, and those that wait for the outcome: Router of              *)
(* src/src/api/remote/Router.cpp.                                          *)
(*                                                                         *)
(* The router lives on the main thread.  A request that waits is held by a *)
(* waiter with a deadline, and is filed where the change it waits for will *)
(* find it: starts_ under the serial of its start, stops_, or settling_    *)
(* when its start has ended and the state is still Connecting.             *)
(*                                                                         *)
(* The engine is ConnectionManager (module ConnectionManager), abstracted  *)
(* to the signals the router hears: a start is refused inside the call,    *)
(* waits for the core, or goes to a worker that posts its end before the   *)
(* end of Connecting; a stop is posted by its own worker; others start and *)
(* stop too.                                                               *)
(***************************************************************************)
EXTENDS Naturals, Sequences

CONSTANTS MaxRequests,  \* bound: requests
          MaxOthers     \* bound: starts and stops of others

VARIABLES m,        \* the main thread's fields, the router's and the engine's
          running,  \* a profile runs (set and cleared on workers)
          starter,  \* the start worker
          stopper,  \* the stop worker
          posts,    \* closures posted to the main thread
          tests,    \* requests whose candidates are being tested
          env       \* whether the timers of the waiters fire, and the starts and stops of
                    \* others still to come
vars == <<m, running, starter, stopper, posts, tests, env>>

Request == 1 .. MaxRequests
NoStart == 0
Foreign == MaxRequests + 1  \* a start the router has no part in

TypeOK ==
  /\ m \in [issued : 0 .. MaxRequests, answers : [Request -> Nat],
            told : [Request -> {"none", "refused", "ok", "accepted", "failed"}],
            waiters : SUBSET Request,
            starts : SUBSET Request, stops : SUBSET Request, settling : SUBSET Request,
            deferred : 0 .. Foreign, connecting : BOOLEAN, disconnecting : BOOLEAN,
            shown : {"Idle", "Connecting", "Stopping", "Running"}]
  /\ m.starts \union m.stops \union m.settling \subseteq m.waiters
  /\ running \in BOOLEAN
  /\ starter \in [pc : {"none", "begin", "rpc"}, serial : 0 .. Foreign]
  /\ stopper \in {"none", "rpc", "posted"}
  /\ \A i \in DOMAIN posts :
       posts[i] \in [op : {"finish", "connected", "disconnecting", "teardown", "pick"},
                     serial : 0 .. Foreign, ok : BOOLEAN]
  /\ tests \subseteq Request /\ env \in [deadlines : BOOLEAN, others : 0 .. MaxOthers]

NoStarter == [pc |-> "none", serial |-> NoStart]
Init ==
  /\ m = [issued |-> 0, answers |-> [r \in Request |-> 0], told |-> [r \in Request |-> "none"],
          waiters |-> {}, starts |-> {}, stops |-> {}, settling |-> {}, deferred |-> NoStart,
          connecting |-> FALSE, disconnecting |-> FALSE, shown |-> "Idle"]
  /\ running = FALSE /\ starter = NoStarter /\ stopper = "none" /\ posts = << >>
  /\ tests = {} /\ env \in [deadlines : BOOLEAN, others : {MaxOthers}]

Post(op, serial, ok) == <<[op |-> op, serial |-> serial, ok |-> ok]>>

-----------------------------------------------------------------------------
(* What the router does when the engine reports; s is m. *)

\* answer() and fail(): a waiter that is done, or a request without one, is left out.
Answer(s, R, what) ==
  LET now == {r \in R \intersect s.waiters : s.answers[r] = 0} IN
  [s EXCEPT !.answers = [r \in Request |-> IF r \in now THEN 1 ELSE @[r]],
            !.told = [r \in Request |-> IF r \in now THEN what ELSE @[r]]]
\* respond() itself, whatever was answered before.
Respond(s, r, what) == [s EXCEPT !.answers[r] = @ + 1, !.told[r] = what]
\* What a handler says at the end, to a waiter or to the client.
Reply(s, r, what) == IF r \in s.waiters THEN Answer(s, {r}, what) ELSE Respond(s, r, what)

ConnectionState(s, run) ==
  IF s.connecting THEN "Connecting" ELSE IF s.disconnecting THEN "Stopping"
  ELSE IF run THEN "Running" ELSE "Idle"

\* syncState() of the engine, and the router's slot for connectionStateChanged.
SyncState(s, run) ==
  LET state == ConnectionState(s, run) IN
  IF state = s.shown THEN s
  ELSE IF state = "Connecting" THEN [s EXCEPT !.shown = state]
  ELSE [Answer(s, s.settling, "ok") EXCEPT !.shown = state, !.settling = {}]

CompleteStart(s, r, ok) ==
  IF s.answers[r] # 0 THEN s
  ELSE IF ~ok THEN Answer(s, {r}, "failed")
  ELSE IF s.connecting THEN [s EXCEPT !.settling = @ \union {r}]
  ELSE Answer(s, {r}, "ok")

\* startFinished; a serial nobody filed is another's.
StartFinished(s, serial, ok) ==
  IF serial \notin s.starts THEN s
  ELSE CompleteStart([s EXCEPT !.starts = @ \ {serial}], serial, ok)

\* stopFinished.
StopFinished(s) == [Answer(s, s.stops, "ok") EXCEPT !.stops = {}]

-----------------------------------------------------------------------------
(* The engine. *)

Stopping == stopper # "none"
\* Somebody else's turn.
OtherComes == env.others > 0 /\ env' = [env EXCEPT !.others = @ - 1]

\* A start that waits for the core replaces the one that waited.
Defer(s, serial) == [(IF s.deferred = NoStart THEN s ELSE StartFinished(s, s.deferred, FALSE))
                     EXCEPT !.deferred = serial]

\* start() on the main thread: refused inside the call, deferred until the core,
\* the kill switch or a ranking is ready, or handed to a worker.
Start(s, serial) ==
  \/ m' = StartFinished(s, serial, FALSE) /\ UNCHANGED starter
  \/ m' = Defer(s, serial) /\ UNCHANGED starter
  \/ /\ starter.pc = "none" /\ ~Stopping
     /\ m' = SyncState([s EXCEPT !.connecting = TRUE], running)
     /\ starter' = [pc |-> "begin", serial |-> serial]

\* What the start waits for is there, or given up.
CoreComesUp ==
  /\ m.deferred # NoStart
  /\ Start([m EXCEPT !.deferred = NoStart], m.deferred)
  /\ UNCHANGED <<running, stopper, posts, tests, env>>

\* The worker stops what runs and waits for that stop: its end is a signal too.
StarterSwitches ==
  /\ starter.pc = "begin" /\ ~Stopping
  /\ starter' = [starter EXCEPT !.pc = "rpc"]
  /\ IF running THEN stopper' = "rpc" /\ posts' = posts \o Post("disconnecting", NoStart, FALSE)
     ELSE UNCHANGED <<stopper, posts>>
  /\ UNCHANGED <<m, running, tests, env>>

StarterEnds(ok) ==
  /\ starter.pc = "rpc" /\ ~Stopping
  /\ starter' = NoStarter
  /\ running' = (running \/ ok)
  /\ posts' = posts \o Post("finish", starter.serial, ok) \o Post("connected", NoStart, FALSE)
  /\ UNCHANGED <<m, stopper, tests, env>>

\* stop() on the main thread.
Stop(s) ==
  IF ~running \/ Stopping THEN m' = s /\ UNCHANGED stopper
  ELSE m' = SyncState([s EXCEPT !.disconnecting = TRUE], running) /\ stopper' = "rpc"

\* A crash stop, on the thread of the core's process.
CrashStops ==
  /\ running /\ ~Stopping /\ OtherComes
  /\ stopper' = "rpc" /\ posts' = posts \o Post("disconnecting", NoStart, FALSE)
  /\ UNCHANGED <<m, running, starter, tests>>

StopperClears ==
  /\ stopper = "rpc"
  /\ stopper' = "posted" /\ running' = FALSE
  /\ posts' = posts \o Post("teardown", NoStart, FALSE)
  /\ UNCHANGED <<m, starter, tests, env>>

OtherStarts ==
  /\ OtherComes
  /\ Start(m, Foreign)
  /\ UNCHANGED <<running, stopper, posts, tests>>
OtherStops ==
  /\ OtherComes
  /\ Stop(m)
  /\ UNCHANGED <<running, starter, posts, tests>>

-----------------------------------------------------------------------------
(* The handlers. *)

NewRequest(s, wait) ==
  [s EXCEPT !.issued = @ + 1, !.waiters = IF wait THEN @ \union {s.issued + 1} ELSE @]

\* Mutant of File: the callback is filed after the call.
FileNot(s, r) == s
\* starts_.insert() of a request with a waiter, before the call.
File(s, r) == IF r \in s.waiters THEN [s EXCEPT !.starts = @ \union {r}] ELSE s

ConnectionBusy(s) == ConnectionState(s, running) \in {"Connecting", "Stopping"}
\* The answer at once of a request that has no waiter.
Accept(s, r) == IF r \in s.waiters THEN s ELSE Respond(s, r, "accepted")

\* launch(): busy, already running that profile, or started; and what is made of
\* that by the request's handler, or by a pick, whose request was told "accepted"
\* before if it has no waiter.
Launch(s, r, handler) ==
  LET Now(what) == m' = (IF handler THEN Reply(s, r, what) ELSE Answer(s, {r}, what)) /\ UNCHANGED starter IN
  IF ConnectionBusy(s) THEN Now("refused")
  ELSE \/ running /\ Now("ok")
       \/ Start(IF handler THEN Accept(File(s, r), r) ELSE File(s, r), r)

\* A request that does not parse, or names something unknown or unfit.
Refuse ==
  /\ m.issued < MaxRequests
  /\ m' = Respond(NewRequest(m, FALSE), m.issued + 1, "refused")
  /\ UNCHANGED <<running, starter, stopper, posts, tests, env>>

PutConnection(wait) ==
  /\ m.issued < MaxRequests
  /\ Launch(NewRequest(m, wait), m.issued + 1, TRUE)
  /\ UNCHANGED <<running, stopper, posts, tests, env>>

\* startBestCandidate(): no candidate passed, or the best one is launched.
StartBestCandidate(s, r) ==
  \/ m' = Answer(s, {r}, "failed") /\ UNCHANGED starter
  \/ Launch(s, r, FALSE)

\* startLowestLatency(): at once, or once the candidates without a result are tested.
StartLowestLatency(wait) ==
  /\ m.issued < MaxRequests /\ ~ConnectionBusy(m)
  /\ LET r == m.issued + 1
         s == Accept(NewRequest(m, wait), r) IN
     \/ StartBestCandidate(s, r) /\ UNCHANGED tests
     \/ m' = s /\ tests' = tests \union {r} /\ UNCHANGED starter
  /\ UNCHANGED <<running, stopper, posts, env>>
TestsEnd(r) ==
  /\ r \in tests /\ tests' = tests \ {r}
  /\ posts' = posts \o Post("pick", r, FALSE)
  /\ UNCHANGED <<m, running, starter, stopper, env>>

\* Mutant of Unfile: the serial stays filed although nothing was started.
UnfileNot(s, r) == s
Unfile(s, r) == [s EXCEPT !.starts = @ \ {r}]
\* putModes(), putActiveRoute(): the change restarts what was started, or not.
ApplyWithRestart(wait) ==
  /\ m.issued < MaxRequests /\ ~ConnectionBusy(m)
  /\ LET r == m.issued + 1
         s == File(NewRequest(m, wait), r) IN
     \/ Start(Accept(s, r), r)
     \/ m' = Reply(Unfile(s, r), r, IF wait THEN "ok" ELSE "accepted") /\ UNCHANGED starter
  /\ UNCHANGED <<running, stopper, posts, tests, env>>

\* Idle: still a stop, of a resume that waits.
DeleteConnection(wait) ==
  /\ m.issued < MaxRequests
  /\ LET r == m.issued + 1
         s == NewRequest(m, wait) IN
     CASE ConnectionState(m, running) = "Idle" -> m' = Respond(s, r, "ok") /\ UNCHANGED stopper
       [] ConnectionBusy(m) -> m' = Respond(s, r, "refused") /\ UNCHANGED stopper
       [] OTHER -> Stop(IF wait THEN [s EXCEPT !.stops = @ \union {r}] ELSE Respond(s, r, "accepted"))
  /\ UNCHANGED <<running, starter, posts, tests, env>>

StopEnded(s) == StopFinished(SyncState([s EXCEPT !.disconnecting = FALSE], running))

HandlePost ==
  /\ posts # << >> /\ posts' = Tail(posts)
  /\ LET p == Head(posts) IN
     /\ CASE p.op = "finish" -> m' = StartFinished(m, p.serial, p.ok) /\ UNCHANGED starter
          [] p.op = "connected" -> m' = SyncState([m EXCEPT !.connecting = FALSE], running) /\ UNCHANGED starter
          [] p.op = "disconnecting" -> m' = SyncState([m EXCEPT !.disconnecting = TRUE], running) /\ UNCHANGED starter
          [] p.op = "teardown" -> m' = StopEnded(m) /\ UNCHANGED starter
          [] p.op = "pick" -> StartBestCandidate(m, p.serial)
     /\ stopper' = IF p.op = "teardown" THEN "none" ELSE stopper
  /\ UNCHANGED <<running, tests, env>>

Deadline(r) ==
  /\ env.deadlines /\ r \in m.waiters /\ m.answers[r] = 0
  /\ m' = Answer(m, {r}, "accepted")
  /\ UNCHANGED <<running, starter, stopper, posts, tests, env>>

Next ==
  \/ CoreComesUp \/ StarterSwitches \/ \E ok \in BOOLEAN : StarterEnds(ok)
  \/ CrashStops \/ StopperClears \/ OtherStarts \/ OtherStops
  \/ Refuse
  \/ \E wait \in BOOLEAN : PutConnection(wait) \/ StartLowestLatency(wait)
                           \/ ApplyWithRestart(wait) \/ DeleteConnection(wait)
  \/ \E r \in Request : TestsEnd(r) \/ Deadline(r)
  \/ HandlePost

\* Threads run, the main thread works its posts off, tests end, a core that is
\* awaited comes up or is given up, and timers fire.
Fairness ==
  /\ WF_vars(CoreComesUp) /\ WF_vars(StarterSwitches) /\ WF_vars(\E ok \in BOOLEAN : StarterEnds(ok))
  /\ WF_vars(StopperClears) /\ WF_vars(HandlePost)
  /\ \A r \in Request : WF_vars(TestsEnd(r)) /\ WF_vars(Deadline(r))

Spec == Init /\ [][Next]_vars /\ Fairness

-----------------------------------------------------------------------------
(* Properties. *)

\* A serial stays filed only while the engine still has that start to finish:
\* the table the router keeps does not grow with requests that started nothing.
Pending == {m.deferred, starter.serial} \union {posts[i].serial : i \in DOMAIN posts}
NothingFiledForever == m.starts \subseteq Pending

\* A request is told "ok" only when the connection has settled: the end of a
\* start reaches the router before Connecting ends, and a client that reads the
\* status in its answer would see "connecting".
SettledWhenTold ==
  [][\A r \in Request : (m.told[r] # "ok" /\ m'.told[r] = "ok") => ~m'.connecting]_vars

=============================================================================
