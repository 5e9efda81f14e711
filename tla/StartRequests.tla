--------------------------- MODULE StartRequests ---------------------------
(***************************************************************************)
(* What ConnectionManager promises of a start request: "startFinished      *)
(* fires once per request" (ConnectionManager.h).  A request that was      *)
(* issued is answered once, whoever answers it, and no request waits for   *)
(* ever unless the program closes.                                         *)
(***************************************************************************)
EXTENDS Naturals

CONSTANT MaxRequests  \* bound: requests issued

VARIABLES issued,   \* requests issued so far; they are numbered from 1
          answers,  \* how often startFinished fired for each request
          closed    \* the program is exiting
vars == <<issued, answers, closed>>

Request == 1 .. MaxRequests

Init == issued = 0 /\ answers = [r \in Request |-> 0] /\ closed = FALSE

\* Requests are issued, some that wait are answered (a request may be answered
\* in the step that issues it), or the program starts to exit.
Next ==
  /\ issued' \in issued .. MaxRequests
  /\ \E A \in SUBSET {r \in 1 .. issued' : answers[r] = 0} :
       answers' = [r \in Request |-> IF r \in A THEN 1 ELSE answers[r]]
  /\ closed' \in {closed, TRUE}

Answered(r) == r \in 1 .. issued ~> (answers[r] = 1 \/ closed)

Spec == Init /\ [][Next]_vars /\ \A r \in Request : Answered(r)
=============================================================================
