---------------------------- MODULE TestSessions ----------------------------
(***************************************************************************)
(* The sessions of the test runner together: the latency, IP, UDP and site *)
(* sessions (TestRunner) and the speed-test session (SpeedTest).  They are *)
(* sessions of one object, share sessionGen_ and are kept apart by the     *)
(* session lock, so a setup has either requests or a speed-test session.   *)
(***************************************************************************)
EXTENDS TestRunner

CONSTANTS SpeedProfile,   \* profiles a speed-test session tests
          MaxSpeedTests,  \* bound: speed tests
          MaxTraffic      \* bound: credits of one profile

ASSUME SpeedAssumption == MaxSpeedTests \in Nat /\ MaxTraffic \in Nat

\* The variables of SpeedTest; its poll threads are speedPoll, gen is shared.
VARIABLES pc, sessions, tested, speedPoll, traffic, pending, flush, saved, dropped
speedVars == <<pc, sessions, tested, speedPoll, traffic, pending, flush, saved, dropped>>

Speed == INSTANCE SpeedTest WITH Profile <- SpeedProfile, MaxSessions <- MaxSpeedTests,
                                 MaxTests <- MaxSpeedTests, poll <- speedPoll

SessionsInit == Init /\ Speed!Init
SessionsNext ==
  \/ setup.requests > 0 /\ Next /\ UNCHANGED speedVars
  \/ setup.requests = 0 /\ Speed!Next /\ UNCHANGED <<sessionVars, testVars>>

SessionsSpec == SessionsInit /\ [][SessionsNext]_<<vars, speedVars>> /\ Fairness

-----------------------------------------------------------------------------
\* No credit is forgotten: a profile whose traffic in memory is not what the
\* database has is marked for the next flush or part of one under way, although
\* the session thread and a late poll thread both credit and flush it; or its
\* mark went with a transaction that failed or with a session that began.
CreditsAreKept == Speed!TypeOK /\ Speed!CreditsAreKept
=============================================================================
