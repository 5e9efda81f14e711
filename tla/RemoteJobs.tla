----------------------------- MODULE RemoteJobs -----------------------------
(***************************************************************************)
(* The test jobs of the remote API: Router of                              *)
(* src/src/api/remote/RouterTests.cpp, with the waiters of Router.cpp.     *)
(*                                                                         *)
(* The router lives on the main thread.  A job's tests run in a session of *)
(* the test runner (module TestRunner), whose worker releases the session  *)
(* first, then looks whether a stop was asked, and then posts finishJob(). *)
(* Between the release and the look another session may start and clear    *)
(* the runner's flag.  A DELETE asks for the stop on a thread of its own,  *)
(* which may come to it after the session, or in the next one.             *)
(***************************************************************************)
EXTENDS Naturals, Sequences, SequencesExt

CONSTANTS KeptJobs,     \* kKeptJobs
          MaxRequests,  \* bound: requests
          MaxOthers     \* bound: sessions and stops of other clients of the runner

VARIABLES issued,    \* requests received so far
          answers,   \* how often each was answered
          job,       \* each job: its state, cancelRequested and its waiters
          lastJobId, \* lastJobId_
          jobs,      \* jobs_: the jobs the router still knows, the newest first
          session,   \* whose session holds the runner: a job, Other or Free
          ended,     \* jobs whose worker has released the session only
          stopReq,   \* stopRequested_ of the runner
          stoppers,  \* threads of DELETE requests that have not called stopTests() yet
          posts,     \* finishJob() calls posted to the main thread
          env        \* whether the timers of the waiters fire, and the sessions and stops of
                     \* other clients still to come
vars == <<issued, answers, job, lastJobId, jobs, session, ended, stopReq, stoppers, posts, env>>

Request == 1 .. MaxRequests
JobId == 1 .. MaxRequests
Free == 0
Other == MaxRequests + 1  \* the window's tests, the ranking of a pool

TypeOK ==
  /\ issued \in 0 .. MaxRequests /\ answers \in [Request -> Nat]
  /\ job \in [JobId -> [state : {"none", "running", "cancelled", "done"},
                        cancelRequested : BOOLEAN, waiters : SUBSET Request]]
  /\ lastJobId \in 0 .. MaxRequests
  /\ jobs \in Seq(JobId) /\ Len(jobs) \in 0 .. KeptJobs
  /\ session \in 0 .. Other /\ ended \subseteq JobId /\ stopReq \in BOOLEAN
  /\ stoppers \in 0 .. MaxRequests
  /\ \A i \in DOMAIN posts : posts[i] \in [id : JobId, stopped : BOOLEAN]
  /\ env \in [deadlines : BOOLEAN, others : 0 .. MaxOthers]

Init ==
  /\ issued = 0 /\ answers = [r \in Request |-> 0]
  /\ job = [j \in JobId |-> [state |-> "none", cancelRequested |-> FALSE, waiters |-> {}]]
  /\ lastJobId = 0 /\ jobs = << >> /\ session = Free /\ ended = {} /\ stopReq = FALSE
  /\ stoppers = 0 /\ posts = << >> /\ env \in [deadlines : BOOLEAN, others : {MaxOthers}]

-----------------------------------------------------------------------------
(* Waiters. *)

\* A waiter that is done is left alone.
Answer(R) == answers' = [r \in Request |-> IF r \in R /\ answers[r] = 0 THEN 1 ELSE answers[r]]

NewRequest == issued < MaxRequests /\ issued' = issued + 1
AnsweredNow == NewRequest /\ Answer({issued + 1})

\* onDeadline(): the answer carries the job as it is.
Deadline(r) ==
  /\ env.deadlines /\ r \in 1 .. issued /\ answers[r] = 0
  /\ Answer({r})
  /\ UNCHANGED <<issued, job, lastJobId, jobs, session, ended, stopReq, stoppers, posts, env>>

-----------------------------------------------------------------------------
(* POST /v1/tests. *)

\* Mutant of Known: findJob() looks at the newest job only.
KnownIfNewest(j) == jobs # << >> /\ Head(jobs) = j
\* findJob().
Known(j) == j \in Range(jobs)

\* A body in error, no profile to test, or testsRunning(); isRunning() of
\* another thread holds the lock for a moment too.
PostRefused ==
  /\ AnsweredNow
  /\ UNCHANGED <<job, lastJobId, jobs, session, ended, stopReq, stoppers, posts, env>>

\* runTests() refuses although testsRunning() said no: onFinished has run for a
\* job the router never lists.
PostLosesTheSession ==
  /\ AnsweredNow
  /\ lastJobId' = lastJobId + 1
  /\ posts' = Append(posts, [id |-> lastJobId + 1, stopped |-> stopReq])
  /\ UNCHANGED <<job, jobs, session, ended, stopReq, stoppers, env>>

\* The oldest jobs leave the list.
Listed(j) == SubSeq(<<j>> \o jobs, 1, IF Len(jobs) < KeptJobs THEN Len(jobs) + 1 ELSE KeptJobs)

PostTest(wait) ==
  /\ session = Free
  /\ IF wait THEN NewRequest /\ UNCHANGED answers ELSE AnsweredNow
  /\ lastJobId' = lastJobId + 1
  /\ session' = lastJobId + 1 /\ stopReq' = FALSE
  /\ job' = [job EXCEPT ![lastJobId + 1] =
               [@ EXCEPT !.state = "running", !.waiters = IF wait THEN {issued + 1} ELSE {}]]
  /\ jobs' = Listed(lastJobId + 1)
  /\ UNCHANGED <<ended, stoppers, posts, env>>

-----------------------------------------------------------------------------
(* DELETE /v1/tests/{id}. *)

\* Of a job the router does not know (any more), or that is over.
DeleteNothing ==
  /\ AnsweredNow
  /\ \E j \in JobId : ~Known(j) \/ job[j].state # "running"
  /\ UNCHANGED <<job, lastJobId, jobs, session, ended, stopReq, stoppers, posts, env>>

DeleteTest(j) ==
  /\ NewRequest /\ Known(j) /\ job[j].state = "running"
  /\ job' = [job EXCEPT ![j] = [@ EXCEPT !.cancelRequested = TRUE, !.waiters = @ \union {issued + 1}]]
  /\ stoppers' = stoppers + 1
  /\ UNCHANGED <<answers, lastJobId, jobs, session, ended, stopReq, posts, env>>

\* stopTests(), whatever session there is by now.
StopTests ==
  /\ stoppers > 0 /\ stoppers' = stoppers - 1
  /\ stopReq' = TRUE
  /\ UNCHANGED <<issued, answers, job, lastJobId, jobs, session, ended, posts, env>>

-----------------------------------------------------------------------------
(* The runner. *)

OtherComes == env.others > 0 /\ env' = [env EXCEPT !.others = @ - 1]

OtherStop ==
  /\ OtherComes
  /\ stopReq' = TRUE
  /\ UNCHANGED <<issued, answers, job, lastJobId, jobs, session, ended, stoppers, posts>>

OtherSession ==
  /\ session = Free /\ OtherComes
  /\ session' = Other /\ stopReq' = FALSE
  /\ UNCHANGED <<issued, answers, job, lastJobId, jobs, ended, stoppers, posts>>

\* session_.unlock(): the tests are over, or a stop broke them off.
SessionEnds ==
  /\ session # Free
  /\ session' = Free
  /\ ended' = IF session = Other THEN ended ELSE ended \union {session}
  /\ UNCHANGED <<issued, answers, job, lastJobId, jobs, stopReq, stoppers, posts, env>>

\* onFinished, on the worker.
OnFinished(j) ==
  /\ j \in ended /\ ended' = ended \ {j}
  /\ posts' = Append(posts, [id |-> j, stopped |-> stopReq])
  /\ UNCHANGED <<issued, answers, job, lastJobId, jobs, session, stopReq, stoppers, env>>

FinalState(p) == IF p.stopped \/ job[p.id].cancelRequested THEN "cancelled" ELSE "done"
\* The waiters of the POST and of every DELETE.
Heard(p) == job[p.id].waiters

\* finishJob(), on the main thread.
FinishJob ==
  /\ posts # << >> /\ posts' = Tail(posts)
  /\ LET p == Head(posts) IN
     IF Known(p.id) /\ job[p.id].state = "running"
     THEN /\ job' = [job EXCEPT ![p.id] = [@ EXCEPT !.state = FinalState(p), !.waiters = {}]]
          /\ Answer(Heard(p))
     ELSE UNCHANGED <<job, answers>>
  /\ UNCHANGED <<issued, lastJobId, jobs, session, ended, stopReq, stoppers, env>>

Next ==
  \/ \E r \in Request : Deadline(r)
  \/ PostRefused \/ PostLosesTheSession \/ \E wait \in BOOLEAN : PostTest(wait)
  \/ DeleteNothing \/ \E j \in JobId : DeleteTest(j)
  \/ StopTests \/ OtherStop \/ OtherSession \/ SessionEnds
  \/ \E j \in JobId : OnFinished(j)
  \/ FinishJob

\* The timers fire, threads run, the main thread works its posts off, and a
\* session ends (FinishedOnce of module TestRunner).
Fairness ==
  /\ \A r \in Request : WF_vars(Deadline(r))
  /\ WF_vars(StopTests) /\ WF_vars(SessionEnds) /\ WF_vars(FinishJob)
  /\ \A j \in JobId : WF_vars(OnFinished(j))

Spec == Init /\ [][Next]_vars /\ Fairness

-----------------------------------------------------------------------------
(* Properties. *)

\* A job its client has cancelled never reports that it was done: although the
\* stop it asks for may come after the tests, and although a session that starts
\* meanwhile clears the flag by which the worker would have seen it.
CancelIsReported == \A j \in JobId : job[j].cancelRequested => job[j].state # "done"

\* The requests whose job left the list before it was over: only their deadline
\* answers them.
Forgotten == UNION {job[j].waiters : j \in JobId \ Range(jobs)}

\* A job the router knows does not stay "running".
JobsEnd == \A j \in JobId : (j \in Range(jobs) /\ job[j].state = "running")
                            ~> (j \notin Range(jobs) \/ job[j].state # "running")
=============================================================================
