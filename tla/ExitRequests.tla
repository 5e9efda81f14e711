---------------------------- MODULE ExitRequests ----------------------------
(***************************************************************************)
(* How the program with a window comes to its end: ExitController          *)
(* (src/src/engine/app/ExitController.cpp), the window's exit              *)
(* (mainwindow_system.cpp) and the restart after a restore                 *)
(* (RouterBackup.cpp).                                                     *)
(*                                                                         *)
(* All of it is on the main thread, in three depths: an event, the nested  *)
(* loop of a question (the UAC prompt, or the message that the updater     *)
(* cannot run) asked before the teardown, and the nested loops of the      *)
(* teardown.  Events go on in both.  The questions are those of the        *)
(* Windows build; elsewhere every exit goes to its teardown at once.       *)
(***************************************************************************)
EXTENDS Naturals

CONSTANTS MaxExits  \* bound: exits asked for by window, API and restore

VARIABLES queued,     \* m_exitQueued, and the call it stands for
          inProgress, \* m_exitInProgress
          exitReason, \* exit_reason
          unattended, \* m_exitUnattended
          asking,     \* the exit whose question is open
          teardown,   \* the exit whose shutdown() runs; prepare_exit
          restarting, \* restarting_ of the router
          retry,      \* the timer of requestRestart()
          launched,   \* instances and updaters started
          ended,      \* the program has quit
          exits,      \* exits asked for so far
          crossed     \* history: the window asked a question while an exit was queued
vars == <<queued, inProgress, exitReason, unattended, asking, teardown, restarting, retry, launched, ended, exits, crossed>>

Elevated == {"RestartWithTun", "RestartElevated"}
Restarts == Elevated \union {"Restart"}
ExitReason == Restarts \union {"None", "RunUpdater"}
\* RunUpdater asks when the updater cannot be prepared, which is a refusal.
Asks == Elevated \union {"RunUpdater"}
Launches == Restarts \union {"RunUpdater"}
\* A call of on_menu_exit_triggered(): reason is its own copy, fromQueue whether
\* it was made by the queued exit.
Nothing == [on |-> FALSE, reason |-> "None", fromQueue |-> FALSE, launches |-> 0]
Call == [on : BOOLEAN, reason : ExitReason, fromQueue : BOOLEAN, launches : Nat]
Asked == [on : BOOLEAN, reason : ExitReason, unattended : BOOLEAN, run : BOOLEAN]
NotQueued == [on |-> FALSE, reason |-> "None", unattended |-> FALSE, run |-> FALSE]

TypeOK ==
  /\ queued \in Asked /\ inProgress \in BOOLEAN /\ exitReason \in ExitReason /\ unattended \in BOOLEAN
  /\ asking \in Call /\ teardown \in Call /\ (asking.on \/ teardown.on => inProgress)
  /\ restarting \in BOOLEAN /\ retry \in BOOLEAN /\ launched \in 0 .. 1
  /\ ended \in BOOLEAN /\ exits \in 0 .. MaxExits /\ crossed \in BOOLEAN

Init ==
  /\ queued = NotQueued /\ inProgress = FALSE /\ exitReason = "None" /\ unattended = FALSE
  /\ asking = Nothing /\ teardown = Nothing /\ restarting = FALSE /\ retry = FALSE
  /\ launched = 0 /\ ended = FALSE /\ exits = 0 /\ crossed = FALSE

PrepareExit == teardown.on
Turned == PrepareExit \/ inProgress

-----------------------------------------------------------------------------
(* The window's exit. *)

\* shutdown() begins, with what was started before it.
Shutdown(reason, launches) ==
  teardown' = [on |-> TRUE, reason |-> reason, fromQueue |-> FALSE, launches |-> launches]

\* on_menu_exit_triggered() with exit_reason set to reason: turned away, or a
\* question first, or the teardown at once.
OnMenuExit(reason, fromQueue) ==
  IF Turned THEN exitReason' = reason /\ UNCHANGED <<inProgress, asking, teardown>>
  ELSE /\ inProgress' = TRUE /\ exitReason' = reason
       /\ \/ /\ reason \in Asks
             /\ asking' = [on |-> TRUE, reason |-> reason, fromQueue |-> fromQueue, launches |-> 0]
             /\ UNCHANGED teardown
          \/ /\ reason \notin Elevated
             /\ Shutdown(reason, 0) /\ UNCHANGED asking

\* An exit the window makes in the event of a click; closing it leaves
\* exit_reason as it is.
WindowExits(reason) ==
  /\ ~ended /\ exits < MaxExits /\ exits' = exits + 1
  /\ crossed' = (crossed \/ (queued.on /\ reason \in Asks))
  /\ OnMenuExit(IF reason = "None" THEN exitReason ELSE reason, FALSE)
  /\ UNCHANGED <<queued, unattended, restarting, retry, launched, ended>>

\* The prompt was declined, or the updater cannot be prepared.
Declined == inProgress' = FALSE /\ exitReason' = "None"

\* The end of the queued call: once that exit was turned away or declined, a new
\* request may run.
QueuedReturns(exiting) == IF exiting THEN queued ELSE NotQueued

\* The question is answered, its call returns or goes on to the teardown.
AnswerComes ==
  /\ asking.on /\ asking' = Nothing
  /\ \/ /\ Declined
        /\ queued' = IF asking.fromQueue THEN QueuedReturns(FALSE) ELSE queued
        /\ UNCHANGED <<teardown, launched>>
     \/ /\ asking.reason \in Elevated
        /\ launched' = launched + 1 /\ Shutdown(asking.reason, 1)
        /\ UNCHANGED <<queued, inProgress, exitReason>>
  /\ UNCHANGED <<unattended, restarting, retry, ended, exits, crossed>>

\* Read before the teardown, during which a request may overwrite exit_reason.
ReasonAtEnd == teardown.reason

\* The prompt has already started the new instance.
Relaunched == teardown.launches = 1

\* shutdown() has returned: the new instance or the updater, and quit().
TeardownEnds ==
  /\ teardown.on /\ ~ended /\ ended' = TRUE
  /\ launched' = IF ReasonAtEnd \in Launches /\ ~Relaunched THEN launched + 1 ELSE launched
  /\ UNCHANGED <<queued, inProgress, exitReason, unattended, asking, teardown, restarting, retry, exits, crossed>>

-----------------------------------------------------------------------------
(* The queued exit. *)

CanQueue == ~queued.on /\ ~Turned
Queued(reason, alone) == [on |-> TRUE, reason |-> reason, unattended |-> alone, run |-> FALSE]

\* requestExit() of POST /v1/restart and /v1/shutdown, of the settings and of
\* the kill switch's dialog; refused when it cannot be queued.
RequestExit(reason, alone) ==
  /\ ~ended /\ exits < MaxExits /\ exits' = exits + 1
  /\ alone => reason \in {"None", "Restart"}
  /\ CanQueue /\ queued' = Queued(reason, alone)
  /\ UNCHANGED <<inProgress, exitReason, unattended, asking, teardown, restarting, retry, launched, ended, crossed>>

\* The queued call: exitProgram(), request_unattended_exit().
RunQueued ==
  /\ ~ended /\ queued.on /\ ~queued.run
  /\ IF queued.unattended
     THEN IF Turned THEN UNCHANGED <<inProgress, exitReason, unattended, asking, teardown>>
          ELSE unattended' = TRUE /\ OnMenuExit(queued.reason, TRUE)
     ELSE OnMenuExit(queued.reason, TRUE) /\ UNCHANGED unattended
  /\ queued' = IF asking'.on /\ ~asking.on THEN [queued EXCEPT !.run = TRUE] ELSE QueuedReturns(teardown'.on)
  /\ UNCHANGED <<restarting, retry, launched, ended, exits, crossed>>

\* Mutant of RequestRestart: one attempt.
RequestRestartOnce ==
  /\ queued' = IF CanQueue THEN Queued("Restart", TRUE) ELSE queued
  /\ retry' = FALSE
\* requestRestart(): tried again in a second unless it was queued or the program
\* already exits.
RequestRestart ==
  /\ queued' = IF CanQueue THEN Queued("Restart", TRUE) ELSE queued
  /\ retry' = (~CanQueue /\ ~PrepareExit)

\* A restore was applied (module RemoteTransfers).
RestoreApplied ==
  /\ ~ended /\ exits < MaxExits /\ exits' = exits + 1
  /\ ~restarting /\ ~PrepareExit /\ restarting' = TRUE
  /\ RequestRestart
  /\ UNCHANGED <<inProgress, exitReason, unattended, asking, teardown, launched, ended, crossed>>
Retry ==
  /\ ~ended /\ retry /\ RequestRestart
  /\ UNCHANGED <<inProgress, exitReason, unattended, asking, teardown, restarting, launched, ended, exits, crossed>>

Next ==
  \/ \E reason \in {"None", "RestartWithTun", "RunUpdater"} : WindowExits(reason)
  \/ \E reason \in {"None", "Restart", "RestartElevated"}, alone \in BOOLEAN : RequestExit(reason, alone)
  \/ RunQueued \/ RestoreApplied \/ Retry \/ AnswerComes \/ TeardownEnds

\* The main thread works its events off, the timer fires, and a question is
\* answered.
Fairness == WF_vars(RunQueued) /\ WF_vars(Retry) /\ WF_vars(AnswerComes) /\ WF_vars(TeardownEnds)

Spec == Init /\ [][Next]_vars /\ Fairness

-----------------------------------------------------------------------------
(* Properties. *)

\* An exit starts from scratch: what an exit that was declined or turned away set
\* does not turn the next one into a restart, or into one nobody attends.
FreshExit == ~inProgress => exitReason = "None" /\ ~unattended

\* The program that quits has started what its exit was for, once: the instance
\* the UAC prompt already started is not started again, and a request made during
\* the teardown changes nothing.
EndsAsBegun == ended => launched = (IF teardown.reason \in Launches THEN 1 ELSE 0)
=============================================================================
