--------------------------- MODULE WatchedSelector ---------------------------
(***************************************************************************)
(* The auto selector and the watch over it: the starts of a selector       *)
(* (AutoSelector) and the monitor of a running one (AutoSelectorMonitor).  *)
(*                                                                         *)
(* All that passes from the monitor to the controller is poolExhausted,    *)
(* which AutoSelector takes at any time, and all that passes back is the   *)
(* build that runs, any of which AutoSelectorMonitor takes.  So a setup    *)
(* either has starts for the controller or runs for the monitor.           *)
(***************************************************************************)
EXTENDS AutoSelector

CONSTANTS Profile, NoProfile, MaxMembers, Grace, BackoffMin, BackoffMax, PersistEvery, MaxTime,
          Runs  \* the setups of the monitor

ASSUME NoProfileAssumption == NoProfile \notin Profile
ASSUME TimesAssumption ==
  /\ {MaxMembers, Grace, BackoffMin, BackoffMax, PersistEvery, MaxTime} \subseteq Nat \ {0}
  /\ BackoffMin <= BackoffMax

\* The variables of AutoSelectorMonitor; its worker is runner.
VARIABLES now, setup, core, runner, mon, back, poll, stored, select, pinned, asked, streak
watchVars == <<now, setup, core, runner, mon, back, poll, stored, select, pinned, asked, streak>>

Watch == INSTANCE AutoSelectorMonitor WITH Setups <- Runs, worker <- runner

Idle == [start |-> 1, builds |-> 0, of |-> {}, picks |-> {}, deaths |-> 0]
WatchedInit == /\ Init /\ Watch!Init
               /\ (events.setup.requests = 0) = (setup # Idle)
WatchedNext ==
  \/ Next /\ UNCHANGED watchVars
  \/ events.setup.requests = 0 /\ Watch!Next /\ UNCHANGED vars

WatchedSpec == WatchedInit /\ [][WatchedNext]_<<vars, watchVars>> /\ Fairness

-----------------------------------------------------------------------------
\* A rebuild is asked for only after every answer about the running build, for the
\* whole grace period, showed all of its members failing with the network up
\* (poll(); SetBuild and Clear end the period).
ExhaustionIsEarned == [][back'.last # back.last => streak # 0 /\ now - streak >= Grace]_watchVars

\* Rebuilds follow earned exhaustion, and as long as no member is seen usable or
\* untested, in this build and in those before it, at doubling distances up to the
\* maximum (kRebuildBackoffMinSecs, kRebuildBackoffMaxSecs).
RebuildsAreEarned == ExhaustionIsEarned /\ Watch!RebuildsBackOff

\* The selection is right: when all is done the selector runs on the best members,
\* and within one run the member remembered as pinned is the one the core pinned,
\* even if the run stops while the request is under way (RequestSelect).
SelectionIsRight ==
  TypeOK /\ Watch!TypeOK /\ FullRankingIsBuilt /\ BestAreBuilt /\ Watch!PinIsTheCores
=============================================================================
