------------------------ MODULE MCConnectionManager ------------------------
EXTENDS ConnectionManager

CONSTANTS p1, p2

Plain == [profiles |-> {p1}, ranked |-> {}, tun |-> FALSE, geo |-> FALSE, mayExit |-> FALSE,
          stops |-> 0, deaths |-> 1, switches |-> 0, slow |-> 0]
\* Switches between two profiles under the TUN, a stop under the TUN, a kill
\* switch that changes, and pool rankings with geo retries, each with a core that
\* dies; and the rankings and retries, and a kill switch that changes, with an exit.
\* And a Start that outlasts its RPC, with a kill switch that changes, with a stop,
\* and with a death of the core.
MCSetups == {[Plain EXCEPT !.profiles = {p1, p2}, !.tun = TRUE],
             [Plain EXCEPT !.tun = TRUE, !.stops = 1],
             [Plain EXCEPT !.switches = 1],
             [Plain EXCEPT !.ranked = {p1}, !.geo = TRUE],
             [Plain EXCEPT !.ranked = {p1}, !.geo = TRUE, !.mayExit = TRUE, !.deaths = 0],
             [Plain EXCEPT !.switches = 1, !.mayExit = TRUE, !.deaths = 0],
             [Plain EXCEPT !.slow = 1, !.switches = 1, !.deaths = 0],
             [Plain EXCEPT !.slow = 1, !.stops = 1, !.deaths = 0],
             [Plain EXCEPT !.slow = 1]}
=============================================================================
