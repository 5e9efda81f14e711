------------------------------ MODULE SpeedTest ------------------------------
(***************************************************************************)
(* Speed tests and the traffic they are credited with: runSpeedTests(),    *)
(* runSpeedProbe(), pollSpeedTest(), creditTraffic() and                   *)
(* flushTrafficCredits() of src/src/engine/tests/TestRunner.cpp, with      *)
(* SaveTrafficBatch() and Save() of the profiles' repository.              *)
(*                                                                         *)
(* The session thread tests one profile after the other; the poll thread   *)
(* of a test, which is not joined, credits the bytes the core shows        *)
(* meanwhile, and the session thread those of the answer.  Both write what *)
(* is marked to the database now and then.  The core is out of the model:  *)
(* a poll or an answer, of whichever test, brings new bytes or none.       *)
(***************************************************************************)
EXTENDS Naturals, FiniteSets

CONSTANTS Profile,
          MaxSessions,  \* bound: sessions
          MaxTests,     \* bound: tests of all sessions
          MaxTraffic    \* bound: credits of one profile

VARIABLES pc,        \* the session thread
          sessions,  \* sessions so far
          gen,       \* sessionGen_
          tested,    \* the profile of each test so far
          poll,      \* the poll thread of each test
          traffic,   \* each profile's traffic, in memory
          pending,   \* pendingTraffic_
          flush,     \* each thread in flushTrafficCredits(): the profiles it took,
                     \* and what its transaction wrote of them so far
          saved,     \* each profile's traffic, in the database
          dropped    \* history: profiles whose mark went, until their traffic is saved
vars == <<pc, sessions, gen, tested, poll, traffic, pending, flush, saved, dropped>>
creditVars == <<traffic, pending>>
flushVars == <<flush, saved, dropped>>

Test == 1 .. MaxTests
Last == Cardinality(DOMAIN tested)
Main == 0                        \* the session thread; the others are poll threads
Thread == {Main} \union Test
Sums == [Profile -> 0 .. MaxTraffic]

TypeOK ==
  /\ pc \in {"idle", "opening", "clear", "loop", "rpc", "answered", "final", "again", "save", "closing"}
  /\ sessions \in 0 .. MaxSessions /\ gen \in Nat
  /\ DOMAIN tested \in {1 .. n : n \in 0 .. MaxTests} /\ \A n \in DOMAIN tested : tested[n] \in Profile
  /\ poll \in [Test -> [pc : {"none", "sleep", "asks", "holds", "credits", "flushes"}, gen : Nat, stop : BOOLEAN]]
  /\ traffic \in Sums /\ saved \in Sums /\ pending \subseteq Profile /\ dropped \subseteq Profile
  /\ \A th \in DOMAIN flush :
       /\ th \in Thread /\ flush[th].taken \subseteq Profile
       /\ DOMAIN flush[th].rows \subseteq flush[th].taken
       /\ flush[th].rows \in [DOMAIN flush[th].rows -> 0 .. MaxTraffic]

NoPoll == [pc |-> "none", gen |-> 0, stop |-> FALSE]
NoRows == [p \in {} |-> 0]
Init ==
  /\ pc = "idle" /\ sessions = 0 /\ gen = 0 /\ tested = [n \in {} |-> 0]
  /\ poll = [n \in Test |-> NoPoll]
  /\ traffic = [p \in Profile |-> 0] /\ pending = {}
  /\ flush = [th \in {} |-> NoRows] /\ saved = [p \in Profile |-> 0] /\ dropped = {}

-----------------------------------------------------------------------------
(* creditTraffic(), flushTrafficCredits() and the repository. *)

\* What the tag has moved since it was last seen, if anything.
CreditTraffic(p) ==
  \/ /\ traffic[p] < MaxTraffic
     /\ traffic' = [traffic EXCEPT ![p] = @ + 1] /\ pending' = pending \union {p}
  \/ UNCHANGED creditVars

\* Mutant of ClearsWhen: the marks stay until their traffic is saved.
ClearsWhenWritten(step) == step = "written"
\* pendingTraffic_.clear() comes before SaveTrafficBatch().
ClearsWhen(step) == step = "taken"

\* trafficFlushMu_ and the repository's mutex.
FlushMuFree == DOMAIN flush = {}
RepoFree == \A th \in DOMAIN flush : flush[th].rows = NoRows

Flushing(th) == IF th = Main THEN pc \in {"opening", "answered", "again", "closing"} ELSE poll[th].pc = "flushes"
Takes(th) ==
  /\ Flushing(th) /\ FlushMuFree
  /\ flush' = [x \in {th} |-> [taken |-> pending, rows |-> NoRows]]
  /\ pending' = IF ClearsWhen("taken") THEN {} ELSE pending
  /\ UNCHANGED <<pc, sessions, gen, tested, poll, traffic, saved, dropped>>
\* SaveTrafficBatch() reads a profile's totals when it writes its row.
WritesRow(th, p) ==
  /\ th \in DOMAIN flush /\ p \in flush[th].taken \ DOMAIN flush[th].rows
  /\ flush' = [flush EXCEPT ![th].rows = [x \in DOMAIN @ \union {p} |-> IF x = p THEN traffic[p] ELSE @[x]]]
  /\ UNCHANGED <<pc, sessions, gen, tested, poll, creditVars, saved, dropped>>
\* The end of the transaction, and back to the caller: committed, or rolled back
\* at any row, which nobody looks at.
Returns(th) ==
  /\ flush' = NoRows
  /\ pending' = IF ClearsWhen("written") THEN {} ELSE pending
  /\ IF th = Main
     THEN /\ pc' = [opening |-> "clear", answered |-> "final", again |-> "save", closing |-> "idle"][pc]
          /\ UNCHANGED poll
     ELSE poll' = [poll EXCEPT ![th].pc = "sleep"] /\ UNCHANGED pc
  /\ UNCHANGED <<sessions, gen, tested, traffic>>
Commits(th) ==
  /\ th \in DOMAIN flush /\ DOMAIN flush[th].rows = flush[th].taken
  /\ saved' = [p \in Profile |-> IF p \in flush[th].taken THEN flush[th].rows[p] ELSE saved[p]]
  /\ dropped' = dropped \ {p \in flush[th].taken : flush[th].rows[p] = traffic[p]}
  /\ Returns(th)
RollsBack(th) ==
  /\ th \in DOMAIN flush /\ flush[th].taken # {}
  /\ dropped' = dropped \union flush[th].taken
  /\ Returns(th) /\ UNCHANGED saved

-----------------------------------------------------------------------------
(* The session thread. *)

RunSpeedTests ==
  /\ pc = "idle" /\ sessions < MaxSessions
  /\ pc' = "opening" /\ sessions' = sessions + 1 /\ gen' = gen + 1
  /\ UNCHANGED <<tested, poll, creditVars, flushVars>>
\* "Fresh per-tag byte baselines for this speed-test session", and no marks: that
\* of a credit made since the flush, by a poll of the session before, is lost.
Clears ==
  /\ pc = "clear" /\ pc' = "loop"
  /\ pending' = {} /\ dropped' = dropped \union pending
  /\ UNCHANGED <<sessions, gen, tested, poll, traffic, flush, saved>>
RunSpeedProbe(p) ==
  /\ pc = "loop" /\ Last < MaxTests
  /\ pc' = "rpc" /\ gen' = gen + 1
  /\ tested' = [n \in 1 .. Last + 1 |-> IF n <= Last THEN tested[n] ELSE p]
  /\ poll' = [poll EXCEPT ![Last + 1] = [NoPoll EXCEPT !.pc = "sleep", !.gen = gen + 1]]
  /\ UNCHANGED <<sessions, creditVars, flushVars>>
\* Every profile is tested, or stop() came.
EndSession ==
  /\ pc = "loop" /\ pc' = "closing"
  /\ UNCHANGED <<sessions, gen, tested, poll, creditVars, flushVars>>
RpcReturns ==
  /\ pc = "rpc" /\ pc' = "answered" /\ poll' = [poll EXCEPT ![Last].stop = TRUE]
  /\ UNCHANGED <<sessions, gen, tested, creditVars, flushVars>>
\* After the flush.  The RPC failed or brought nothing; or its bytes are credited
\* and maybe flushed, and the profile is saved unless the test was cancelled.
CreditsAnswer ==
  /\ pc = "final"
  /\ \/ pc' = "loop" /\ UNCHANGED creditVars
     \/ pc' \in {"again", "save", "loop"} /\ CreditTraffic(tested[Last])
  /\ UNCHANGED <<sessions, gen, tested, poll, flushVars>>
\* Save(), under the repository's mutex; it may fail.
SavesProfile ==
  /\ pc = "save" /\ pc' = "loop" /\ RepoFree
  /\ \/ /\ saved' = [saved EXCEPT ![tested[Last]] = traffic[tested[Last]]]
        /\ dropped' = dropped \ {tested[Last]}
     \/ UNCHANGED <<saved, dropped>>
  /\ UNCHANGED <<sessions, gen, tested, poll, creditVars, flush>>

-----------------------------------------------------------------------------
(* pollSpeedTest(), on the poll thread of test n. *)

PollTicks(n) ==
  /\ poll[n].pc = "sleep"
  /\ poll' = IF poll[n].stop THEN [poll EXCEPT ![n] = NoPoll]
             ELSE IF poll[n].gen = gen THEN [poll EXCEPT ![n].pc = "asks"] ELSE poll
  /\ UNCHANGED <<pc, sessions, gen, tested, creditVars, flushVars>>
\* It has its answer, or the core is between tests.
PollQueries(n) ==
  /\ poll[n].pc = "asks" /\ \E next \in {"holds", "sleep"} : poll' = [poll EXCEPT ![n].pc = next]
  /\ UNCHANGED <<pc, sessions, gen, tested, creditVars, flushVars>>
PollChecks(n) ==
  /\ poll[n].pc = "holds"
  /\ poll' = [poll EXCEPT ![n].pc = IF poll[n].gen = gen THEN "credits" ELSE "sleep"]
  /\ UNCHANGED <<pc, sessions, gen, tested, creditVars, flushVars>>
PollCredits(n) ==
  /\ poll[n].pc = "credits" /\ CreditTraffic(tested[n])
  /\ \E next \in {"sleep", "flushes"} : poll' = [poll EXCEPT ![n].pc = next]
  /\ UNCHANGED <<pc, sessions, gen, tested, flushVars>>

-----------------------------------------------------------------------------
SessionSteps == Clears \/ (\E p \in Profile : RunSpeedProbe(p)) \/ EndSession \/ RpcReturns \/ CreditsAnswer \/ SavesProfile
FlushSteps(th) == Takes(th) \/ (\E p \in Profile : WritesRow(th, p)) \/ Commits(th) \/ RollsBack(th)
PollSteps(n) == PollTicks(n) \/ PollQueries(n) \/ PollChecks(n) \/ PollCredits(n)
Idle == pc = "idle" /\ \A n \in Test : poll[n].pc = "none"
Rests == Idle /\ UNCHANGED vars

Next ==
  \/ RunSpeedTests \/ SessionSteps \/ Rests
  \/ \E th \in Thread : FlushSteps(th)
  \/ \E n \in Test : PollSteps(n)
Spec == Init /\ [][Next]_vars

-----------------------------------------------------------------------------
\* No credit is forgotten: a profile whose traffic in memory is not what the
\* database has is marked for the next flush or part of one under way, although
\* two threads credit and flush it; or its mark went with a transaction that
\* failed or with a session that began, and it has not been saved since.
CreditsAreKept ==
  \A p \in Profile :
    saved[p] # traffic[p] => p \in pending \union dropped \/ \E th \in DOMAIN flush : p \in flush[th].taken
=============================================================================
