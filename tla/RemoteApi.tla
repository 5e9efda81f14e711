----------------------------- MODULE RemoteApi -----------------------------
(***************************************************************************)
(* The remote API: the parts of Router (src/include/api/remote/Router.hpp) *)
(* and the exits that its restart and its restores lead to.                *)
(*                                                                         *)
(* The parts live on the main thread and share no state: what a request    *)
(* about a connection, a job or a transfer does is neither read nor        *)
(* written by another part.  So a behaviour here has requests for one part *)
(* only, and the properties, which are about one part or about requests in *)
(* general, are checked of every part.                                     *)
(***************************************************************************)
EXTENDS RemoteConnection

CONSTANTS KeptJobs, MaxJobRequests,
          KeptBackups, OpenUploads, Chunks, MaxTransferRequests, MaxTransfers,
          Topic, MaxWrites,
          MaxLines, MaxBytes, Sizes, Limits, MaxLogged,
          MaxExits

ASSUME RequestBounds == {MaxRequests, MaxJobRequests, MaxTransferRequests, MaxOthers, MaxExits, MaxWrites} \subseteq Nat
ASSUME TransferBounds == {KeptBackups, OpenUploads, MaxTransfers} \subseteq Nat /\ {KeptJobs, Chunks} \subseteq Nat \ {0}
\* kMaxLineLength: a line always fits into the ring.
ASSUME LogBounds == {MaxLines, MaxLogged} \subseteq Nat \ {0} /\ Sizes \subseteq 1 .. MaxBytes /\ Limits \subseteq Nat \ {0}

VARIABLES
  part,   \* the part the requests are for; env is shared by those that have waiters
  issued, answers, job, lastJobId, jobs, session, ended, stopReq, stoppers, jobPosts,  \* RemoteJobs
  transfers, files, workers, reports, conn,                                            \* RemoteTransfers
  value, signals, writes, changeSeq, topicSeq, hashed, held, listed, settle, poll, exiting, client,  \* RemoteEvents
  ring, lastSeq, logHeld, logClient,                                                   \* RemoteLogs
  queued, inProgress, exitReason, unattended, asking, teardown, restarting, retry, launched, over,
  exits, crossed                                                                       \* ExitRequests

connectionVars == <<m, running, starter, stopper, posts, tests>>
jobVars == <<issued, answers, job, lastJobId, jobs, session, ended, stopReq, stoppers, jobPosts>>
transferVars == <<transfers, files, workers, reports, conn>>
eventVars == <<value, signals, writes, changeSeq, topicSeq, hashed, held, listed, settle, poll, exiting, client>>
logVars == <<ring, lastSeq, logHeld, logClient>>
exitVars == <<queued, inProgress, exitReason, unattended, asking, teardown, restarting, retry, launched, over,
              exits, crossed>>
apiVars == <<part, env, connectionVars, jobVars, transferVars, eventVars, logVars, exitVars>>

Jobs == INSTANCE RemoteJobs WITH MaxRequests <- MaxJobRequests, posts <- jobPosts
Transfers == INSTANCE RemoteTransfers WITH MaxRequests <- MaxTransferRequests, m <- transfers, posts <- reports
Events == INSTANCE RemoteEvents
Logs == INSTANCE RemoteLogs WITH held <- logHeld, client <- logClient
Exits == INSTANCE ExitRequests WITH ended <- over

ApiInit ==
  /\ Init /\ Jobs!Init /\ Transfers!Init /\ Events!Init /\ Logs!Init /\ Exits!Init
  /\ part \in {"connection", "jobs", "transfers", "events", "logs", "exit"}
  /\ part \in {"events", "logs", "exit"} => env.deadlines
  /\ part # "transfers" => conn = "Idle"

ConnectionNext == part = "connection" /\ Next
                  /\ UNCHANGED <<part, jobVars, transferVars, eventVars, logVars, exitVars>>
JobsNext == part = "jobs" /\ Jobs!Next
            /\ UNCHANGED <<part, connectionVars, transferVars, eventVars, logVars, exitVars>>
TransfersNext == part = "transfers" /\ Transfers!Next
                 /\ UNCHANGED <<part, connectionVars, jobVars, eventVars, logVars, exitVars>>
EventsNext == part = "events" /\ Events!Next
              /\ UNCHANGED <<part, env, connectionVars, jobVars, transferVars, logVars, exitVars>>
LogsNext == part = "logs" /\ Logs!Next
            /\ UNCHANGED <<part, env, connectionVars, jobVars, transferVars, eventVars, exitVars>>
ExitsNext == part = "exit" /\ Exits!Next
             /\ UNCHANGED <<part, env, connectionVars, jobVars, transferVars, eventVars, logVars>>
ApiNext == ConnectionNext \/ JobsNext \/ TransfersNext \/ EventsNext \/ LogsNext \/ ExitsNext

\* The fairness of each part; a client follows a feed only where that is the part.
FeedFairness ==
  /\ \A t \in Topic : WF_eventVars(Events!Signal(t)) /\ WF_eventVars(Events!ClientReads(t))
  /\ WF_eventVars(part = "events" /\ Events!ClientAsks)
  /\ WF_eventVars(Events!SettleEvents) /\ WF_eventVars(Events!PollStatus)
  /\ WF_logVars(part = "logs" /\ \E limit \in Limits : Logs!GetLogs(limit))
  /\ WF_logVars(Logs!PollLogs) /\ WF_logVars(logHeld.pc = "newer" /\ Logs!Respond)
ApiSpec == ApiInit /\ [][ApiNext]_apiVars
           /\ Fairness /\ Jobs!Fairness /\ Transfers!Fairness /\ FeedFairness /\ Exits!Fairness

-----------------------------------------------------------------------------
(* Properties. *)

\* The fields of every part have their types; a full list of jobs is cut, a held
\* request is listed, an entry that rests has no waiter, and no exit launches twice.
ApiTypeOK == TypeOK /\ Jobs!TypeOK /\ Transfers!TypeOK /\ Events!TypeOK /\ Logs!TypeOK /\ Exits!TypeOK

Issued == CASE part = "jobs" -> issued [] part = "transfers" -> transfers.issued [] OTHER -> m.issued
Answered(r) == CASE part = "jobs" -> answers[r] [] part = "transfers" -> transfers.answers[r] [] OTHER -> m.answers[r]
AnyRequest == 1 .. MaxTransferRequests
AllAnswers == [r \in AnyRequest |-> IF r <= Issued THEN Answered(r) ELSE 0]

\* Requests of a job that left the full list, when no timer will answer them.
Abandoned == part = "jobs" /\ ~env.deadlines /\ Jobs!Forgotten # {}
Requests == INSTANCE StartRequests WITH MaxRequests <- MaxTransferRequests, issued <- Issued,
                                        answers <- AllAnswers, closed <- Abandoned
\* "Answered exactly once: by the change it waits for, or with onDeadline() once
\* its timer fires" (Router.hpp), whatever order the signals, the refusals inside
\* a call, the reports of threads, the deletions and the timers come in.  No request
\* even needs its timer: where none fires, the change it waits for still finds it,
\* unless its job left the full list.
AnsweredOnce == Requests!Spec

\* A job its client has cancelled never reports that it was done: although the
\* stop it asks for may come after the tests, and although a session that starts
\* meanwhile clears the flag by which the worker would have seen it.
CancelIsReported == Jobs!CancelIsReported
\* A job the router knows does not stay "running".
JobsEnd == Jobs!JobsEnd

\* What is offered for download or may be restored is the archive that was built
\* or announced, whatever writes failed on the way: the digest is over the bytes
\* received, not over the file.
CompleteIsIntact == Transfers!CompleteIsIntact
\* No file outlives its entry unless a thread's report is still to remove it: a
\* build puts its file there although the entry was deleted or swept meanwhile.
NoOrphanFile == Transfers!NoOrphanFile

\* What a client of the event feed has read is what there is, unless it has still
\* to read it, a number above its cursor tells of the change, a signal is on its
\* way or the next poll finds it, once the poll has begun.
NoChangeIsLost == Events!NoChangeIsLost
\* A client of the log feed gets the lines in order, none twice, and is told how
\* many left the ring before it came.
EveryLineAccounted == Logs!EveryLineAccounted
\* A client that follows a feed catches up: with every change, the silent ones
\* after the first poll included, unless the program exits; and with every line.
ClientCatchesUp ==
  /\ \A t \in Topic : (client.seen[t] # value[t] /\ part = "events")
                      ~> (client.seen[t] = value[t] \/ exiting \/ writes.blind)
  /\ lastSeq > logClient.cursor ~> lastSeq = logClient.cursor

\* An exit starts from scratch: what an exit that was declined or turned away set
\* does not turn the next one into a restart, or into one nobody attends.
FreshExit == Exits!FreshExit
\* The program that quits has started what its exit was for, once: the instance
\* the UAC prompt already started is not started again, and a request made during
\* the teardown changes nothing.
EndsAsBegun == Exits!EndsAsBegun
\* "the restored database must not keep running" (RouterBackup.cpp): once a restore
\* was applied the program exits, unless the window asks while the exit is queued.
RestartFollows == restarting ~> (Exits!PrepareExit \/ crossed)

\* A request is answered once, and told ok only when the state has settled.
RequestsAreAnswered == AnsweredOnce /\ SettledWhenTold
\* A job ends, and as its client asked.
JobsEndAsAsked == []CancelIsReported /\ JobsEnd
\* An answered request stays in no table and a transfer that is gone leaves no file.
NothingLeftBehind == ApiTypeOK /\ NothingFiledForever /\ NoOrphanFile
\* No change and no line is lost on the way to a client that follows a feed.
FeedsAreFollowed == []NoChangeIsLost /\ []EveryLineAccounted /\ ClientCatchesUp
\* An exit that is asked for happens, and happens as it was asked for.
ExitsAsAsked == []FreshExit /\ []EndsAsBegun /\ RestartFollows
=============================================================================
