-------------------------- MODULE MCCoreSupervisor --------------------------
EXTENDS CoreSupervisor

\* Three generations of the core without an exit, and two with the kill switch
\* on and an exit at any moment.
MCSetups == {[killSwitch |-> FALSE, mayExit |-> FALSE, gens |-> 3, requests |-> 1],
             [killSwitch |-> TRUE, mayExit |-> TRUE, gens |-> 2, requests |-> 1]}
=============================================================================
