-------------------------- MODULE RemoteTransfers --------------------------
(***************************************************************************)
(* Backups kept for download and archives uploaded for a restore: the      *)
(* Transfer entries of Router, src/src/api/remote/RouterBackup.cpp.        *)
(*                                                                         *)
(* The entries live on the main thread; an archive is built, inspected and *)
(* checked on a thread of its own, which knows the transfer by its id and  *)
(* its path only and posts a report.  The entry may be gone by then:       *)
(* deleted, or idle for ten minutes and swept.  A restore stops the running *)
(* profile first (afterStop) and ends in a restart, see ExitRequests.      *)
(*                                                                         *)
(* A file is the sequence of the chunks written to it, 0 for the rest of a *)
(* write that fell short; the archive a client means to upload, and the    *)
(* one Build writes, is Whole.  Truncating and removing a file succeed, as *)
(* they do on Linux even while it is open.                                 *)
(***************************************************************************)
EXTENDS Naturals, Sequences, FiniteSets

CONSTANTS KeptBackups,   \* kKeptBackups
          OpenUploads,   \* kOpenUploads
          Chunks,        \* bound: chunks of an archive
          MaxRequests,   \* bound: requests
          MaxTransfers,  \* bound: transfers
          MaxOthers      \* bound: starts and stops of others

VARIABLES m,       \* the router's fields, and what its requests were told
          files,   \* the transfers' files
          workers, \* threads that build, inspect or check an archive
          posts,   \* their reports, posted to the main thread
          conn,    \* the connection, as the engine shows it
          env      \* whether the timers of the waiters fire, and the starts and stops of
                   \* others still to come
vars == <<m, files, workers, posts, conn, env>>

Request == 1 .. MaxRequests
Id == 1 .. MaxTransfers
NoRequest == 0
NoFile == <<Chunks + 2>>
Whole == [i \in 1 .. Chunks |-> i]
Content == Seq(0 .. Chunks + 2)

\* Transfer; hashed is what hash has seen.  The announced digest is that of Whole.
Transfer == [upload : BOOLEAN, listed : BOOLEAN, working : BOOLEAN, complete : BOOLEAN,
             failed : BOOLEAN, received : 0 .. Chunks, hashed : Content, waiter : 0 .. MaxRequests]
NoTransfer == [upload |-> FALSE, listed |-> FALSE, working |-> FALSE, complete |-> FALSE,
               failed |-> FALSE, received |-> 0, hashed |-> << >>, waiter |-> NoRequest]
NoStop == [id |-> 0, req |-> NoRequest]
Worker == [job : {"build", "inspect", "check"}, id : Id, req : 0 .. MaxRequests]
Report == [job : {"build", "inspect", "check"}, id : Id, req : 0 .. MaxRequests, ok : BOOLEAN]

TypeOK ==
  /\ m \in [issued : 0 .. MaxRequests, answers : [Request -> Nat], waiters : SUBSET Request,
            last : 0 .. MaxTransfers, t : [Id -> Transfer],
            stops : [id : 0 .. MaxTransfers, req : 0 .. MaxRequests],
            restarting : BOOLEAN, exiting : BOOLEAN]
  /\ \A i \in Id : m.t[i].waiter # NoRequest => m.t[i].working
  /\ files \in [Id -> Content]
  /\ workers \subseteq Worker /\ posts \in Seq(Report)
  /\ conn \in {"Idle", "Connecting", "Running", "Stopping"} /\ env \in [deadlines : BOOLEAN, others : 0 .. MaxOthers]

Init ==
  /\ m = [issued |-> 0, answers |-> [r \in Request |-> 0], waiters |-> {}, last |-> 0,
          t |-> [i \in Id |-> NoTransfer], stops |-> NoStop,
          restarting |-> FALSE, exiting |-> FALSE]
  /\ files = [i \in Id |-> NoFile]
  /\ workers = {} /\ posts = << >> /\ conn \in {"Idle", "Running"} /\ env \in [deadlines : BOOLEAN, others : {MaxOthers}]

-----------------------------------------------------------------------------
(* Requests and entries; s is m, f is files. *)

NewRequest(s, wait) ==
  [s EXCEPT !.issued = @ + 1, !.waiters = IF wait THEN @ \union {s.issued + 1} ELSE @]
\* answer(), fail(), and respond() of a request without a waiter.
Answer(s, r) == IF r = NoRequest \/ s.answers[r] # 0 THEN s ELSE [s EXCEPT !.answers[r] = 1]
\* The answer at once of a request that does not wait.
Accept(s, r) == IF r \in s.waiters THEN s ELSE Answer(s, r)
\* The waiter an entry or a closure keeps.
Waiter(s, r) == IF r \in s.waiters THEN r ELSE NoRequest

Listed(s, upload) == {i \in Id : s.t[i].listed /\ s.t[i].upload = upload}
ConnectionBusy == conn \in {"Connecting", "Stopping"}

Remove(f, i) == [f EXCEPT ![i] = NoFile]
Unlist(s, i) == [s EXCEPT !.t[i] = NoTransfer]

\* The guard of every handler that changes something: 503 otherwise.
Handled == m.issued < MaxRequests /\ ~m.restarting /\ ~m.exiting

\* A request that is refused before it changes anything, or reads only: GET of a
\* slice or of a transfer's state, a malformed or unknown one, a wrong offset or
\* state, a full list, 503.
Refuse ==
  /\ m.issued < MaxRequests
  /\ m' = Answer(NewRequest(m, FALSE), m.issued + 1)
  /\ UNCHANGED <<files, workers, posts, conn, env>>

-----------------------------------------------------------------------------
(* Backups. *)

\* keep(), with the waiter that waits for the build.
PostBackup(wait) ==
  /\ Handled /\ Cardinality(Listed(m, FALSE)) < KeptBackups /\ m.last < MaxTransfers
  /\ LET r == m.issued + 1
         i == m.last + 1
         s == Accept(NewRequest(m, wait), r) IN
     /\ m' = [s EXCEPT !.last = i,
                       !.t[i] = [NoTransfer EXCEPT !.listed = TRUE, !.working = TRUE, !.waiter = Waiter(s, r)]]
     /\ workers' = workers \union {[job |-> "build", id |-> i, req |-> NoRequest]}
  /\ UNCHANGED <<files, posts, conn, env>>

\* deleteBackup(), deleteRestore(): the waiter of a build, an inspection or a
\* check is answered 404.
Delete(i) ==
  /\ Handled /\ m.t[i].listed
  /\ LET s == Answer(NewRequest(m, FALSE), m.issued + 1) IN
     m' = Unlist(Answer(s, m.t[i].waiter), i)
  /\ files' = Remove(files, i)
  /\ UNCHANGED <<workers, posts, conn, env>>

\* The sweep: any entry nothing works on may have been idle for kIdleMs.
Sweep(i) ==
  /\ m.t[i].listed /\ ~m.t[i].working
  /\ m' = Unlist(m, i) /\ files' = Remove(files, i)
  /\ UNCHANGED <<workers, posts, conn, env>>

\* What every report does first.
Rested(s, i) == [s EXCEPT !.t[i].working = FALSE, !.t[i].waiter = NoRequest]

-----------------------------------------------------------------------------
(* Uploads. *)

PostRestore ==
  /\ Handled /\ Cardinality(Listed(m, TRUE)) < OpenUploads /\ m.last < MaxTransfers
  /\ LET i == m.last + 1 IN
     /\ m' = [Answer(NewRequest(m, FALSE), m.issued + 1)
              EXCEPT !.last = i, !.t[i] = [NoTransfer EXCEPT !.upload = TRUE, !.listed = TRUE]]
     /\ files' = [files EXCEPT ![i] = << >>]
  /\ UNCHANGED <<workers, posts, conn, env>>

\* Mutant of Truncate: what a short write left stays.
TruncateNot(f, n) == f
Truncate(f, n) == SubSeq(f, 1, n)

\* The write fell short: an error, and the upload is where it was.
PutRestoreFails(i) ==
  /\ Handled /\ m.t[i].listed /\ m.t[i].upload
  /\ ~m.t[i].failed /\ ~m.t[i].working /\ ~m.t[i].complete
  /\ m' = Answer(NewRequest(m, FALSE), m.issued + 1)
  /\ \E written \in {files[i], Append(files[i], 0)} :
       files' = [files EXCEPT ![i] = Truncate(written, m.t[i].received)]
  /\ UNCHANGED <<workers, posts, conn, env>>

\* A chunk at the offset expected.  The last one is followed by the digest: a
\* mismatch discards the upload, otherwise the archive is inspected.
PutRestore(i, chunk, wait) ==
  /\ Handled /\ m.t[i].listed /\ m.t[i].upload
  /\ ~m.t[i].failed /\ ~m.t[i].working /\ ~m.t[i].complete
  /\ LET r == m.issued + 1
         n == m.t[i].received + 1
         f == [files EXCEPT ![i] = Append(@, chunk)]
         hashed == Append(m.t[i].hashed, chunk)
         s == [NewRequest(m, wait) EXCEPT !.t[i].received = n, !.t[i].hashed = hashed] IN
     CASE n < Chunks ->
            /\ ~wait /\ m' = Answer(s, r) /\ files' = f /\ UNCHANGED workers
       [] n = Chunks /\ hashed # Whole ->
            /\ ~wait /\ m' = Unlist(Answer(s, r), i) /\ files' = Remove(f, i) /\ UNCHANGED workers
       [] OTHER ->
            /\ m' = [Accept(s, r) EXCEPT !.t[i].working = TRUE, !.t[i].hashed = << >>, !.t[i].waiter = Waiter(s, r)]
            /\ files' = f
            /\ workers' = workers \union {[job |-> "inspect", id |-> i, req |-> NoRequest]}
  /\ UNCHANGED <<posts, conn, env>>

\* postRestoreApply() of a complete archive, nothing starting, stopping, testing,
\* updating or being edited.
PostRestoreApply(i, wait) ==
  /\ Handled /\ m.t[i].listed /\ m.t[i].complete /\ m.t[i].upload /\ ~m.t[i].working
  /\ ~ConnectionBusy
  /\ LET r == m.issued + 1
         s == Accept(NewRequest(m, wait), r) IN
     /\ m' = [s EXCEPT !.t[i].working = TRUE, !.t[i].waiter = Waiter(s, r)]
     /\ workers' = workers \union {[job |-> "check", id |-> i, req |-> Waiter(s, r)]}
  /\ UNCHANGED <<files, posts, conn, env>>

-----------------------------------------------------------------------------
(* The threads. *)

\* Build puts the whole archive at the path at once (QSaveFile), and may still fail
\* at the digest; Inspect and CheckUntrusted only read it.  Then the report.
WorkerEnds(i) ==
  \E w \in workers, ok \in BOOLEAN :
    /\ w.id = i /\ workers' = workers \ {w}
    /\ IF w.job = "build" THEN files' \in {[files EXCEPT ![i] = Whole]} \union (IF ok THEN {} ELSE {files})
       ELSE (ok => files[i] # NoFile) /\ UNCHANGED files
    /\ posts' = Append(posts, [job |-> w.job, id |-> i, req |-> w.req, ok |-> ok])
    /\ UNCHANGED <<m, conn, env>>

ReportedGone(i) == Remove(files, i)
\* The report of a build or an inspection.
Reported(p) ==
  LET t == m.t[p.id]
      s == Rested(m, p.id) IN
  CASE ~t.listed -> m' = m /\ files' = ReportedGone(p.id)
    [] t.listed /\ p.ok -> m' = Answer([s EXCEPT !.t[p.id].complete = TRUE], t.waiter) /\ UNCHANGED files
    [] t.listed /\ ~p.ok /\ (p.job = "build" \/ (t.waiter # NoRequest /\ m.answers[t.waiter] = 0)) ->
         m' = Unlist(Answer(s, t.waiter), p.id) /\ files' = Remove(files, p.id)
    [] OTHER -> m' = [s EXCEPT !.t[p.id].failed = TRUE] /\ UNCHANGED files

\* The closure apply: the restore was deleted, the program exits, something is
\* busy, or Apply fails; or the archive replaces the database.
ApplyRestore(s, i, r) ==
  \/ m' = Answer(s, r) /\ UNCHANGED files
  \/ /\ s.t[i].listed /\ ~s.exiting
     /\ m' = [Answer(Unlist(s, i), r) EXCEPT !.restarting = TRUE]
     /\ files' = Remove(files, i)

\* The report of the check, and afterStop().  The one restore that waits for a
\* stop keeps the connection Stopping, so that afterStop turns a second one away.
Checked(p) ==
  LET s == Rested(m, p.id) IN
  IF ~m.t[p.id].listed THEN UNCHANGED <<m, files, conn>>
  ELSE IF ~p.ok \/ ConnectionBusy THEN m' = Answer(s, p.req) /\ UNCHANGED <<files, conn>>
  ELSE IF conn = "Running"
  THEN m' = [s EXCEPT !.stops = [id |-> p.id, req |-> p.req]] /\ conn' = "Stopping" /\ UNCHANGED files
  ELSE ApplyRestore(s, p.id, p.req) /\ UNCHANGED conn

HandlePost ==
  /\ posts # << >> /\ posts' = Tail(posts)
  /\ LET p == Head(posts) IN
     IF p.job = "check" THEN Checked(p) ELSE Reported(p) /\ UNCHANGED conn
  /\ UNCHANGED <<workers, env>>

-----------------------------------------------------------------------------
(* The engine and the program. *)

\* stopFinished.
StopFinishes ==
  /\ conn = "Stopping" /\ conn' = "Idle"
  /\ IF m.stops = NoStop THEN UNCHANGED <<m, files>>
     ELSE ApplyRestore([m EXCEPT !.stops = NoStop], m.stops.id, m.stops.req)
  /\ UNCHANGED <<workers, posts, env>>
StartFinishes ==
  /\ conn = "Connecting" /\ conn' \in {"Idle", "Running"}
  /\ UNCHANGED <<m, files, workers, posts, env>>
\* A start or a stop of another.
OtherChanges ==
  /\ env.others > 0 /\ env' = [env EXCEPT !.others = @ - 1]
  /\ \/ conn \in {"Idle", "Running"} /\ conn' = "Connecting"
     \/ conn = "Running" /\ conn' = "Stopping"
  /\ UNCHANGED <<m, files, workers, posts>>

\* prepare_exit, for whatever reason.
Exit ==
  /\ ~m.exiting /\ m' = [m EXCEPT !.exiting = TRUE]
  /\ UNCHANGED <<files, workers, posts, conn, env>>

Deadline(r) ==
  /\ env.deadlines /\ r \in m.waiters /\ m.answers[r] = 0
  /\ m' = Answer(m, r)
  /\ UNCHANGED <<files, workers, posts, conn, env>>

Next ==
  \/ Refuse \/ PostRestore \/ HandlePost \/ StopFinishes \/ StartFinishes \/ OtherChanges \/ Exit
  \/ \E wait \in BOOLEAN : PostBackup(wait)
  \/ \E i \in Id : \/ Delete(i) \/ Sweep(i) \/ PutRestoreFails(i) \/ WorkerEnds(i)
                   \/ \E wait \in BOOLEAN : \/ PostRestoreApply(i, wait)
                                            \/ \E c \in 1 .. Chunks + 1 : PutRestore(i, c, wait)
  \/ \E r \in Request : Deadline(r)

\* Threads run, the main thread works its posts off, starts and stops finish, and
\* timers fire.
Fairness ==
  /\ WF_vars(HandlePost) /\ WF_vars(StopFinishes) /\ WF_vars(StartFinishes)
  /\ \A i \in Id : WF_vars(WorkerEnds(i))
  /\ \A r \in Request : WF_vars(Deadline(r))

Spec == Init /\ [][Next]_vars /\ Fairness

-----------------------------------------------------------------------------
(* Properties. *)

\* What is offered for download or may be restored is the archive that was built
\* or announced, whatever writes failed on the way: the digest is over the bytes
\* received, not over the file.
CompleteIsIntact == \A i \in Id : m.t[i].complete => files[i] = Whole

\* No file outlives its entry unless a thread's report is still to remove it: a
\* build puts its file there although the entry was deleted or swept meanwhile
\* (RouterBackup.cpp, drop and the reports).
Working == {w.id : w \in workers} \union {posts[k].id : k \in DOMAIN posts}
NoOrphanFile == \A i \in Id : files[i] # NoFile => m.t[i].listed \/ i \in Working
=============================================================================
