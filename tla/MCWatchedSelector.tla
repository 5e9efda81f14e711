-------------------------- MODULE MCWatchedSelector --------------------------
(* The setups of WatchedSelector for TLC. *)
EXTENDS WatchedSelector

CONSTANTS p1, p2

Profiles == {p1, p2}
\* Two members that work or fail.
Two == [members |-> {1, 2}, latencies |-> {-1, 1}, tun |-> TRUE, requests |-> 2,
        exhausted |-> 0, stops |-> 0, others |-> 0, changes |-> 0]
MCSetups ==
  {\* three members of every kind, started once, with a stop
   [Two EXCEPT !.members = {1, 2, 3}, !.latencies = {-1, 0, 1, 2}, !.requests = 1, !.stops = 1],
   \* the pool stops working during or after the first sweep
   [Two EXCEPT !.requests = 1, !.exhausted = 1],
   \* a second start, and one of another profile
   [Two EXCEPT !.others = 1],
   \* a second start, and a member that goes
   [Two EXCEPT !.changes = 1],
   \* none: the monitor's runs
   [Two EXCEPT !.requests = 0]}
MCRuns ==
  {Idle,
   \* an ordinary profile
   [Idle EXCEPT !.builds = 1, !.of = {<<>>}],
   \* one member, built twice, long enough for three rebuilds in a row of one build
   \* or of both
   [Idle EXCEPT !.builds = 2, !.of = {<<p1>>}],
   \* one member, and a core that dies
   [Idle EXCEPT !.start = 3, !.builds = 1, !.of = {<<p1>>}, !.deaths = 1],
   \* two members, of which the user pins the second, and a core that dies
   [Idle EXCEPT !.start = MaxTime, !.builds = 1, !.of = {<<p1, p2>>}, !.picks = {0, 2}, !.deaths = 1]}
=============================================================================
