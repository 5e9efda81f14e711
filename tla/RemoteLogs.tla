----------------------------- MODULE RemoteLogs -----------------------------
(***************************************************************************)
(* The log feed of the remote API: the ring of src/src/global/LogBuffer.cpp*)
(* and GET /v1/logs of Router (src/src/api/remote/RouterFeeds.cpp), with a *)
(* client that follows it.  Any thread logs, at any moment; the router     *)
(* looks at the newest number and then takes a slice, under the ring's     *)
(* mutex each time, and lines leave the ring in between.                   *)
(***************************************************************************)
EXTENDS Naturals, Sequences

CONSTANTS MaxLines,  \* kMaxLines
          MaxBytes,  \* kMaxBytes
          Sizes,     \* sizes of a line
          Limits,    \* limits a client asks with
          MaxLogged  \* bound: lines logged

VARIABLES ring,    \* the lines held, the oldest first
          lastSeq, \* lastSeq
          held,    \* the request that waits: its cursor and limit, and whether the
                   \* poll has seen a newer line
          client   \* the client: whether it knows the instance, its cursor, where it
                   \* began, the lines it got, how many it was told it missed
vars == <<ring, lastSeq, held, client>>

Line == [seq : 1 .. MaxLogged, size : Sizes]
NoRequest == [pc |-> "none", after |-> 0, limit |-> 0]

TypeOK ==
  /\ ring \in Seq(Line) /\ Len(ring) \in 0 .. MaxLines /\ lastSeq \in 0 .. MaxLogged
  /\ held \in [pc : {"none", "held", "newer"}, after : 0 .. MaxLogged, limit : Limits \union {0}]
  /\ client \in [known : BOOLEAN, cursor : 0 .. MaxLogged, base : 0 .. MaxLogged,
                 got : Seq(1 .. MaxLogged), dropped : 0 .. MaxLogged, more : BOOLEAN]

Init ==
  /\ ring = << >> /\ lastSeq = 0 /\ held = NoRequest
  /\ client = [known |-> FALSE, cursor |-> 0, base |-> 0, got |-> << >>, dropped |-> 0, more |-> FALSE]

-----------------------------------------------------------------------------
(* The ring. *)

\* The bytes of the lines from i on.
Bytes(lines, i) == LET sum[k \in 0 .. Len(lines)] == IF k = 0 THEN 0 ELSE sum[k - 1] + IF k < i THEN 0 ELSE lines[k].size
                   IN sum[Len(lines)]
\* The oldest lines leave until both limits are kept.
Trimmed(lines) ==
  LET fits(i) == Len(lines) - i + 1 <= MaxLines /\ Bytes(lines, i) <= MaxBytes
      first == CHOOSE i \in 1 .. Len(lines) : fits(i) /\ \A k \in 1 .. i - 1 : ~fits(k) IN
  SubSeq(lines, first, Len(lines))

\* BufferUserLog(), one line of it at a time.
BufferUserLog(size) ==
  /\ lastSeq < MaxLogged /\ lastSeq' = lastSeq + 1
  /\ ring' = Trimmed(Append(ring, [seq |-> lastSeq + 1, size |-> size]))
  /\ UNCHANGED <<held, client>>

\* slice() from an index on.
Slice(first, limit) ==
  LET end == IF first + limit - 1 < Len(ring) THEN first + limit - 1 ELSE Len(ring) IN
  [lines |-> [i \in 1 .. end - first + 1 |-> ring[first + i - 1].seq], more |-> end < Len(ring),
   newest |-> lastSeq, oldest |-> IF ring = << >> THEN 0 ELSE ring[1].seq]

\* Held numbers are contiguous: the place of a line is known from its number.
BufferedLinesAfter(after, limit) ==
  IF ring = << >> \/ after >= lastSeq THEN Slice(Len(ring) + 1, limit)
  ELSE Slice(IF after < ring[1].seq THEN 1 ELSE after - ring[1].seq + 2, limit)
BufferedTail(limit) == Slice(IF limit < Len(ring) THEN Len(ring) - limit + 1 ELSE 1, limit)

-----------------------------------------------------------------------------
(* The feed. *)

Last(s) == s[Len(s)]
Dropped(slice, after) ==
  LET firstHeld == IF slice.oldest > 0 THEN slice.oldest ELSE slice.newest + 1 IN
  IF firstHeld > after + 1 THEN firstHeld - after - 1 ELSE 0

\* logsResponse() to a client of this instance, and to one of another.
LogsResponse(after, limit) ==
  LET slice == BufferedLinesAfter(after, limit) IN
  client' = [client EXCEPT !.cursor = IF slice.lines = << >> THEN after ELSE Last(slice.lines),
                           !.got = @ \o slice.lines, !.more = slice.more,
                           !.dropped = @ + Dropped(slice, after)]
FirstLogsResponse(limit) ==
  LET slice == BufferedTail(limit)
      cursor == IF slice.lines = << >> THEN slice.newest ELSE Last(slice.lines) IN
  client' = [client EXCEPT !.known = TRUE, !.cursor = cursor, !.got = slice.lines, !.more = slice.more,
                           !.base = cursor - Len(slice.lines)]

\* GET /v1/logs with a timeout.
GetLogs(limit) ==
  /\ held.pc = "none"
  /\ IF ~client.known THEN FirstLogsResponse(limit) /\ UNCHANGED held
     ELSE IF lastSeq > client.cursor THEN held' = [pc |-> "newer", after |-> client.cursor, limit |-> limit] /\ UNCHANGED client
     ELSE held' = [pc |-> "held", after |-> client.cursor, limit |-> limit] /\ UNCHANGED client
  /\ UNCHANGED <<ring, lastSeq>>

\* A tick of logPoll_.
PollLogs ==
  /\ held.pc = "held" /\ lastSeq > held.after
  /\ held' = [held EXCEPT !.pc = "newer"]
  /\ UNCHANGED <<ring, lastSeq, client>>

\* The slice is taken after the look; a deadline takes it whatever there is.
Respond ==
  /\ held.pc # "none"
  /\ LogsResponse(held.after, held.limit) /\ held' = NoRequest
  /\ UNCHANGED <<ring, lastSeq>>

Next ==
  \/ \E size \in Sizes : BufferUserLog(size)
  \/ \E limit \in Limits : GetLogs(limit)
  \/ PollLogs \/ Respond

\* The client goes on following the feed, and the poll ticks.
Fairness == WF_vars(\E limit \in Limits : GetLogs(limit)) /\ WF_vars(PollLogs) /\ WF_vars(held.pc = "newer" /\ Respond)

Spec == Init /\ [][Next]_vars /\ Fairness

-----------------------------------------------------------------------------
(* Properties. *)

\* The client gets the lines in order, none twice, and is told how many left the
\* ring before it came: what it got and what it was told it missed are exactly
\* the lines up to its cursor; "more" is said only when there are more.
EveryLineAccounted ==
  /\ \A i, j \in DOMAIN client.got : i < j => client.got[i] < client.got[j]
  /\ \A i \in DOMAIN client.got : client.got[i] \in client.base + 1 .. client.cursor
  /\ Len(client.got) + client.dropped = client.cursor - client.base
  /\ client.more => lastSeq > client.cursor
=============================================================================
