---------------------------- MODULE RemoteEvents ----------------------------
(***************************************************************************)
(* The event feed of the remote API: GET /v1/events of Router              *)
(* (src/src/api/remote/RouterFeeds.cpp), and a client that follows it.     *)
(*                                                                         *)
(* What a client can read (topics) is written on many threads.  Most       *)
(* writes are followed by a signal that reaches the router's thread later; *)
(* silent ones are found by a poll that compares what it hashed the last   *)
(* time, and that runs only while a request is held.  The client asks with *)
(* the cursor of its last answer, reads the topics the answer names, and   *)
(* asks again.                                                             *)
(***************************************************************************)
EXTENDS Naturals

CONSTANTS Topic,      \* topics of the feed
          MaxWrites   \* bound: writes

VARIABLES value,     \* what a read of each topic returns
          signals,   \* topics with a signal on its way to the router's thread
          writes,    \* writes so far, and whether one was silent before the first poll
          changeSeq, \* changeSeq_
          topicSeq,  \* topicSeqs_
          hashed,    \* statusHash_, groupsHash_ and settingsHash_: the values of the last poll
          held,      \* the cursor of the held request, or NotHeld
          listed,    \* eventWaiters_ has an entry, be it one that is done
          settle,    \* eventSettle_ is active
          poll,      \* statusPoll_ is active
          exiting,   \* prepare_exit
          client     \* the client: whether it knows the instance, its cursor, what it has to
                     \* read, and what it has read
vars == <<value, signals, writes, changeSeq, topicSeq, hashed, held, listed, settle, poll, exiting, client>>

Value == 0 .. MaxWrites
NotHeld == MaxWrites * 3 + 1
Unset == MaxWrites + 1  \* no poll yet
Seq0 == 0 .. NotHeld - 1

TypeOK ==
  /\ value \in [Topic -> Value] /\ signals \subseteq Topic /\ writes \in [n : 0 .. MaxWrites, blind : BOOLEAN]
  /\ changeSeq \in Seq0 /\ topicSeq \in [Topic -> 0 .. changeSeq]
  /\ hashed \in [Topic -> Value \union {Unset}]
  /\ held \in Seq0 \union {NotHeld}
  /\ listed \in BOOLEAN /\ settle \in BOOLEAN /\ poll \in BOOLEAN /\ exiting \in BOOLEAN
  /\ client \in [known : BOOLEAN, cursor : 0 .. changeSeq, todo : SUBSET Topic, seen : [Topic -> Value \union {Unset}]]
  /\ held # NotHeld => listed /\ client.todo = {}

Init ==
  /\ value = [t \in Topic |-> 0] /\ signals = {} /\ writes = [n |-> 0, blind |-> FALSE]
  /\ changeSeq = 0 /\ topicSeq = [t \in Topic |-> 0] /\ hashed = [t \in Topic |-> Unset]
  /\ held = NotHeld /\ listed = FALSE /\ settle = FALSE /\ poll = FALSE /\ exiting = FALSE
  /\ client = [known |-> FALSE, cursor |-> 0, todo |-> {}, seen |-> [t \in Topic |-> Unset]]

feedVars == <<changeSeq, topicSeq, hashed, held, listed, settle, poll>>

-----------------------------------------------------------------------------
(* The program behind the feed. *)

Polled == \A t \in Topic : hashed[t] # Unset

\* A signal follows the write; a silent write has none.  A value that comes back is
\* left out: the poll compares two values and cannot tell it from one that stayed.
Write(t, silent) ==
  /\ writes.n < MaxWrites
  /\ writes' = [n |-> writes.n + 1, blind |-> writes.blind \/ (silent /\ ~Polled)]
  /\ value' = [value EXCEPT ![t] = @ + 1]
  /\ signals' = IF silent THEN signals ELSE signals \union {t}
  /\ UNCHANGED <<feedVars, exiting, client>>

\* Mutant of SettleStarts: a change does not wake the held request.
SettleStartsNot(T) == settle
\* A held request makes the change settle for a moment.
SettleStarts(T) == settle \/ (T # {} /\ listed')

\* noteChanged(): one number for all topics of a report.
NoteChanged(T) ==
  /\ changeSeq' = IF T = {} THEN changeSeq ELSE changeSeq + 1
  /\ topicSeq' = [t \in Topic |-> IF t \in T THEN changeSeq' ELSE topicSeq[t]]
  /\ settle' = SettleStarts(T)

\* The slot of EngineControl::changed.
Signal(t) ==
  /\ t \in signals /\ signals' = signals \ {t}
  /\ listed' = listed /\ NoteChanged({t})
  /\ UNCHANGED <<value, writes, hashed, held, poll, exiting, client>>

Exit ==
  /\ ~exiting /\ exiting' = TRUE
  /\ UNCHANGED <<value, signals, writes, feedVars, client>>

-----------------------------------------------------------------------------
(* The feed. *)

ChangedAfter(after) == \E t \in Topic : topicSeq[t] > after
Changes(after) == {t \in Topic : topicSeq[t] > after}

\* The topics, and the newest number as the next cursor.
EventsResponse(T) == client' = [client EXCEPT !.known = TRUE, !.cursor = changeSeq, !.todo = @ \union T]

\* releaseFeedsOnExit(): nothing is held any more, and no timer runs.
ReleaseFeedsOnExit ==
  /\ held' = NotHeld /\ listed' = FALSE /\ settle' = FALSE /\ poll' = FALSE
  /\ UNCHANGED <<changeSeq, topicSeq, hashed, client>>

\* The first poll has nothing to compare with.
Differs == {t \in Topic : hashed[t] # Unset /\ hashed[t] # value[t]}

\* pollStatus() and pollRepos() with a request listed.
PollCompares == NoteChanged(Differs) /\ hashed' = value

\* GET /v1/events with a timeout.  A client of another process is told
\* everything.
ClientAsks ==
  /\ held = NotHeld /\ client.todo = {} /\ ~exiting
  /\ IF ~client.known THEN EventsResponse(Topic) /\ UNCHANGED feedVars
     ELSE IF ChangedAfter(client.cursor) THEN EventsResponse(Changes(client.cursor)) /\ UNCHANGED feedVars
     ELSE /\ held' = client.cursor /\ listed' = TRUE
          /\ poll' = TRUE
          /\ IF poll THEN UNCHANGED <<changeSeq, topicSeq, hashed, settle>> ELSE PollCompares
          /\ UNCHANGED client
  /\ UNCHANGED <<value, signals, writes, exiting>>

\* The timer of eventSettle_; the entries that are done leave the list.
SettleEvents ==
  /\ settle
  /\ IF exiting THEN ReleaseFeedsOnExit
     ELSE /\ settle' = FALSE
          /\ IF held # NotHeld /\ ChangedAfter(held)
             THEN EventsResponse(Changes(held)) /\ held' = NotHeld
             ELSE UNCHANGED <<client, held>>
          /\ listed' = (held' # NotHeld)
          /\ UNCHANGED <<changeSeq, topicSeq, hashed, poll>>
  /\ UNCHANGED <<value, signals, writes, exiting>>

\* A tick of statusPoll_: it stops on one that finds nothing held.
PollStatus ==
  /\ poll
  /\ IF exiting THEN ReleaseFeedsOnExit
     ELSE /\ listed' = (held # NotHeld)
          /\ IF listed' THEN PollCompares /\ UNCHANGED poll
             ELSE poll' = FALSE /\ UNCHANGED <<changeSeq, topicSeq, hashed, settle>>
          /\ UNCHANGED <<held, client>>
  /\ UNCHANGED <<value, signals, writes, exiting>>

\* onDeadline() of the held request; its entry stays in the list for now.
Deadline ==
  /\ held # NotHeld
  /\ EventsResponse(Changes(held)) /\ held' = NotHeld
  /\ UNCHANGED <<value, signals, writes, changeSeq, topicSeq, hashed, listed, settle, poll, exiting>>

\* The client's request for a topic it was told of.
ClientReads(t) ==
  /\ t \in client.todo /\ ~exiting
  /\ client' = [client EXCEPT !.todo = @ \ {t}, !.seen[t] = value[t]]
  /\ UNCHANGED <<value, signals, writes, feedVars, exiting>>

Next ==
  \/ \E t \in Topic : Signal(t) \/ ClientReads(t) \/ \E silent \in BOOLEAN : Write(t, silent)
  \/ Exit \/ ClientAsks \/ SettleEvents \/ PollStatus \/ Deadline

\* Posted signals arrive, timers fire, and the client goes on following the feed.
Fairness ==
  /\ \A t \in Topic : WF_vars(Signal(t)) /\ WF_vars(ClientReads(t))
  /\ WF_vars(ClientAsks) /\ WF_vars(SettleEvents) /\ WF_vars(PollStatus)

Spec == Init /\ [][Next]_vars /\ Fairness

-----------------------------------------------------------------------------
(* Properties. *)

\* What the client has read is what there is, unless it has still to read it, a
\* number above its cursor tells of the change, a signal is on its way, or the
\* next poll finds it: "Safety net for status changes no signal reports",
\* "Catches writes made straight to the repos, as the window's are" (Router.hpp).
\* The poll does so from its first tick on.
NoChangeIsLost ==
  ~writes.blind => \A t \in Topic :
    client.seen[t] # value[t] =>
      \/ ~client.known \/ t \in client.todo \/ topicSeq[t] > client.cursor
      \/ t \in signals \/ t \in Differs

=============================================================================
