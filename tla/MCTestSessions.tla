--------------------------- MODULE MCTestSessions ---------------------------
EXTENDS TestSessions

CONSTANTS p, q

\* Three batches of two profiles that share a box; one batch with a full config
\* as well; two requests that run, wait, are refused or are stopped, over two
\* batches and over one with a full config; and a speed-test session.
MCSetups ==
  {[profiles |-> {p, q}, full |-> FALSE, kinds |-> {"url"}, requests |-> 1, batches |-> 3, stops |-> 0],
   [profiles |-> {p, q}, full |-> TRUE, kinds |-> {"ip"}, requests |-> 1, batches |-> 1, stops |-> 0],
   [profiles |-> {p}, full |-> FALSE, kinds |-> {"url", "site"}, requests |-> 2, batches |-> 2, stops |-> 1],
   [profiles |-> {p}, full |-> TRUE, kinds |-> {"url", "site"}, requests |-> 2, batches |-> 1, stops |-> 1],
   [profiles |-> {}, full |-> FALSE, kinds |-> {}, requests |-> 0, batches |-> 0, stops |-> 0]}
=============================================================================
