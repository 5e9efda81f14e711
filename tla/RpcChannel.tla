----------------------------- MODULE RpcChannel -----------------------------
(***************************************************************************)
(* The channel to the core: Client::LocalSocketChannel of                  *)
(* src/src/api/RPC.cpp, and the answering loop of the core                 *)
(* (src/core/internal/rpc/dispatch.go).                                    *)
(*                                                                         *)
(* Callers of any thread block in Call(); the io thread alone touches the  *)
(* socket and the read buffer and runs what was queued to io_anchor in     *)
(* order; the main thread hands over a new socket with Reconnect().  They  *)
(* share the map of pending calls (pending_mu), each call's own lock and   *)
(* the connected_ flag.  A frame is two tokens, so that it can arrive in   *)
(* two parts, as its header and its data do.                               *)
(***************************************************************************)
EXTENDS Naturals, Sequences, FiniteSets

CONSTANTS Caller,    \* threads that make calls
          MaxCalls,  \* bound: calls, which are their ids
          MaxSocks   \* bound: cores that dial, one socket each

ASSUME BoundAssumption == MaxCalls \in Nat /\ MaxSocks \in Nat

VARIABLES caller,     \* where each caller is in Call(), with which id
          nextId,     \* next_id
          pending,    \* ids in the map of pending calls
          call,       \* the PendingCall of each id
          connected,  \* connected_
          queue,      \* what is queued to io_anchor
          io,         \* what the io thread does
          sock,       \* the io thread's socket, 0 if none
          buf,        \* read_buf
          main,       \* where the main thread is in Reconnect()
          dialed,     \* sockets handed to Reconnect() so far
          wire        \* each socket: whether it is up, requests in the core, bytes back
vars == <<caller, nextId, pending, call, connected, queue, io, sock, buf, main, dialed, wire>>

Id == 1 .. MaxCalls
Sock == 1 .. MaxSocks
Token == [part : {"header", "data"}, id : Id]
Garbage == 0
Answer == Id \union {Garbage}

TypeOK ==
  /\ caller \in [Caller -> [pc : {"idle"}, id : {0}]
                           \union [pc : {"checked", "registered", "waiting", "timedOut", "claimed"}, id : Id]]
  /\ nextId \in 1 .. MaxCalls + 1 /\ pending \subseteq Id /\ connected \in BOOLEAN
  /\ call \in [Id -> [state : {"none", "open", "answered", "failed", "closed"}, data : Answer,
                      over : 0 .. MaxSocks]]
  /\ \A i \in DOMAIN queue : queue[i] \in [op : {"write"}, n : Id] \union [op : {"swap"}, n : Sock]
  /\ io \in [pc : {"idle", "fill", "wake"}, id : 0 .. MaxCalls, data : Answer]
  /\ sock \in 0 .. MaxSocks /\ \A i \in DOMAIN buf : buf[i] \in Token
  /\ main \in {"idle", "wake", "post", "store"} /\ dialed \in 0 .. MaxSocks
  /\ wire \in [Sock -> [up : BOOLEAN, hup : BOOLEAN, asked : SUBSET Id, back : Seq(Token)]]

IoIdle == [pc |-> "idle", id |-> 0, data |-> Garbage]
Init ==
  /\ caller = [c \in Caller |-> [pc |-> "idle", id |-> 0]]
  /\ nextId = 1 /\ pending = {} /\ connected = FALSE
  /\ call = [i \in Id |-> [state |-> "none", data |-> Garbage, over |-> 0]]
  /\ queue = << >> /\ io = IoIdle /\ sock = 0 /\ buf = << >> /\ main = "idle" /\ dialed = 0
  /\ wire = [s \in Sock |-> [up |-> FALSE, hup |-> FALSE, asked |-> {}, back |-> << >>]]

Go(c, pc) == caller' = [caller EXCEPT ![c].pc = pc]

-----------------------------------------------------------------------------
(* Call(). *)

\* CallNotConnected returns at once.
Checks(c) ==
  /\ caller[c].pc = "idle" /\ nextId <= MaxCalls /\ connected
  /\ caller' = [caller EXCEPT ![c] = [pc |-> "checked", id |-> nextId]]
  /\ nextId' = nextId + 1
  /\ call' = [call EXCEPT ![nextId].state = "open", ![nextId].over = dialed]
  /\ UNCHANGED <<pending, connected, queue, io, sock, buf, main, dialed, wire>>

Registers(c) ==
  /\ caller[c].pc = "checked" /\ Go(c, "registered")
  /\ pending' = pending \union {caller[c].id}
  /\ UNCHANGED <<nextId, call, connected, queue, io, sock, buf, main, dialed, wire>>

DispatchesWrite(c) ==
  /\ caller[c].pc = "registered" /\ Go(c, "waiting")
  /\ queue' = Append(queue, [op |-> "write", n |-> caller[c].id])
  /\ UNCHANGED <<nextId, pending, call, connected, io, sock, buf, main, dialed, wire>>

Done(i) == call[i].state \in {"answered", "failed"}
\* The call is over; a status that is not 0 or a wake-up without one is an error.
Return(c) == caller' = [caller EXCEPT ![c] = [pc |-> "idle", id |-> 0]]
Woken(c) ==
  /\ caller[c].pc \in {"waiting", "claimed"} /\ Done(caller[c].id)
  /\ Return(c)
  /\ UNCHANGED <<nextId, pending, call, connected, queue, io, sock, buf, main, dialed, wire>>

TimesOut(c) ==
  /\ caller[c].pc = "waiting" /\ ~Done(caller[c].id) /\ Go(c, "timedOut")
  /\ UNCHANGED <<nextId, pending, call, connected, queue, io, sock, buf, main, dialed, wire>>

\* Mutant of HoldsCallMu: pending_mu is taken with call->mu held.
KeepsCallMu(i) == \E c \in Caller : caller[c].id = i /\ caller[c].pc = "timedOut"
\* The lock of the call is never held while pending_mu is taken.
HoldsCallMu(i) == FALSE
\* pending_mu is held while the io or the main thread wakes every call.
PendingMuFree == io.pc # "wake" /\ main # "wake"

Unregistered(i) == pending \ {i}
\* The slot is reclaimed, unless the reader took it: then its answer is on the way.
Reclaims(c) ==
  /\ caller[c].pc = "timedOut" /\ PendingMuFree
  /\ pending' = Unregistered(caller[c].id)
  /\ IF caller[c].id \in pending
     THEN Return(c) /\ call' = [call EXCEPT ![caller[c].id].state = "closed"]
     ELSE Go(c, "claimed") /\ UNCHANGED call
  /\ UNCHANGED <<nextId, connected, queue, io, sock, buf, main, dialed, wire>>

-----------------------------------------------------------------------------
(* The io thread. *)

\* wakeAllWithError(), its second half: it holds pending_mu and takes the lock
\* of each call.
WakeAll ==
  /\ \A i \in pending : ~HoldsCallMu(i)
  /\ call' = [i \in Id |-> IF i \in pending THEN [call[i] EXCEPT !.state = "failed"] ELSE call[i]]
  /\ pending' = {}

\* Mutant of Emptied: the read buffer outlives its socket.
BufferKept == buf
Emptied == << >>
\* A queued task: a write goes to the socket of that moment; a swap closes the
\* old socket and forgets its half-read frame.
RunsTask ==
  /\ io.pc = "idle" /\ queue # << >>
  /\ queue' = Tail(queue)
  /\ LET t == Head(queue) IN
     IF t.op = "write"
     THEN /\ wire' = IF sock = 0 \/ ~wire[sock].up THEN wire
                     ELSE [wire EXCEPT ![sock].asked = @ \union {t.n}]
          /\ UNCHANGED <<sock, buf>>
     ELSE /\ sock' = t.n /\ buf' = Emptied
          /\ wire' = IF sock = 0 THEN wire ELSE [wire EXCEPT ![sock].up = FALSE, ![sock].hup = FALSE]
  /\ UNCHANGED <<caller, nextId, pending, call, connected, io, main, dialed>>

\* readyRead: what has arrived so far, which may end inside a frame.
Reads ==
  /\ io.pc = "idle" /\ sock # 0 /\ wire[sock].back # << >>
  /\ \E n \in 1 .. Len(wire[sock].back) :
       /\ buf' = buf \o SubSeq(wire[sock].back, 1, n)
       /\ wire' = [wire EXCEPT ![sock].back = SubSeq(@, n + 1, Len(@))]
  /\ UNCHANGED <<caller, nextId, pending, call, connected, queue, io, sock, main, dialed>>

\* One frame of processBuffer(): the call is claimed under pending_mu ...
Claims ==
  /\ io.pc = "idle" /\ Len(buf) >= 2 /\ main # "wake"
  /\ LET i == buf[1].id
         data == IF buf[1].part = "header" /\ buf[2] = [part |-> "data", id |-> i] THEN i ELSE Garbage IN
     /\ buf' = SubSeq(buf, 3, Len(buf))
     /\ io' = IF i \in pending THEN [pc |-> "fill", id |-> i, data |-> data] ELSE io
     /\ pending' = pending \ {i}
  /\ UNCHANGED <<caller, nextId, call, connected, queue, sock, main, dialed, wire>>
\* ... and filled under its own lock.
Fills ==
  /\ io.pc = "fill" /\ ~HoldsCallMu(io.id)
  /\ io' = IoIdle
  /\ call' = [call EXCEPT ![io.id].state = "answered", ![io.id].data = io.data]
  /\ UNCHANGED <<caller, nextId, pending, connected, queue, sock, buf, main, dialed, wire>>

\* The disconnected signal of the socket.
HangsUp ==
  /\ io.pc = "idle" /\ main # "wake" /\ sock # 0 /\ wire[sock].hup
  /\ connected' = FALSE /\ io' = [IoIdle EXCEPT !.pc = "wake"]
  /\ wire' = [wire EXCEPT ![sock].hup = FALSE]
  /\ UNCHANGED <<caller, nextId, pending, call, queue, sock, buf, main, dialed>>
\* It comes before the swap has connected the signal.
HangsUpUnheard(s) ==
  /\ io.pc = "idle" /\ s # sock /\ wire[s].hup
  /\ wire' = [wire EXCEPT ![s].hup = FALSE]
  /\ UNCHANGED <<caller, nextId, pending, call, connected, queue, io, sock, buf, main, dialed>>
IoWakes ==
  /\ io.pc = "wake" /\ io' = IoIdle /\ WakeAll
  /\ UNCHANGED <<caller, nextId, connected, queue, sock, buf, main, dialed, wire>>

-----------------------------------------------------------------------------
(* Reconnect(), on the main thread, and the core at the other end. *)

Reconnect ==
  /\ main = "idle" /\ dialed < MaxSocks /\ io.pc # "wake"
  /\ dialed' = dialed + 1 /\ connected' = FALSE /\ main' = "wake"
  /\ wire' = [wire EXCEPT ![dialed + 1].up = TRUE]
  /\ UNCHANGED <<caller, nextId, pending, call, queue, io, sock, buf>>
MainWakes ==
  /\ main = "wake" /\ main' = "post" /\ WakeAll
  /\ UNCHANGED <<caller, nextId, connected, queue, io, sock, buf, dialed, wire>>
\* The swap is queued before connected_ lets a call through.
SwapFirst == [post |-> "post", store |-> "store"]
PostsSwap ==
  /\ main \in {"post", "store"} /\ SwapFirst[main] = "post"
  /\ main' = IF main = "post" THEN "store" ELSE "idle"
  /\ queue' = Append(queue, [op |-> "swap", n |-> dialed])
  /\ UNCHANGED <<caller, nextId, pending, call, connected, io, sock, buf, dialed, wire>>
StoresConnected ==
  /\ main \in {"post", "store"} /\ SwapFirst[main] = "store"
  /\ main' = IF main = "post" THEN "store" ELSE "idle"
  /\ connected' = TRUE
  /\ UNCHANGED <<caller, nextId, pending, call, queue, io, sock, buf, dialed, wire>>

\* A handler of the core answers; writeMu keeps the frame in one piece.
CoreAnswers(s) ==
  /\ wire[s].up
  /\ \E i \in wire[s].asked :
       wire' = [wire EXCEPT ![s].asked = @ \ {i},
                            ![s].back = @ \o << [part |-> "header", id |-> i], [part |-> "data", id |-> i] >>]
  /\ UNCHANGED <<caller, nextId, pending, call, connected, queue, io, sock, buf, main, dialed>>

\* The core dies: what it has written up to any byte may still be read.
CoreDies(s) ==
  /\ wire[s].up
  /\ \E n \in 0 .. Len(wire[s].back) :
       wire' = [wire EXCEPT ![s] = [up |-> FALSE, hup |-> TRUE, asked |-> {}, back |-> SubSeq(@.back, 1, n)]]
  /\ UNCHANGED <<caller, nextId, pending, call, connected, queue, io, sock, buf, main, dialed>>

CallSteps(c) == Registers(c) \/ DispatchesWrite(c) \/ Woken(c) \/ TimesOut(c) \/ Reclaims(c)
IoSteps == RunsTask \/ Reads \/ Claims \/ Fills \/ HangsUp \/ IoWakes \/ \E s \in Sock : HangsUpUnheard(s)
MainSteps == MainWakes \/ PostsSwap \/ StoresConnected
Next ==
  \/ (\E c \in Caller : Checks(c) \/ CallSteps(c)) \/ IoSteps \/ Reconnect \/ MainSteps
  \/ (\E s \in Sock : CoreAnswers(s) \/ CoreDies(s))

\* Fair: the three kinds of threads (a caller's wait ends at its time limit).
\* Not fair: the core.
Spec == Init /\ [][Next]_vars
FairSpec == Spec /\ (\A c \in Caller : WF_vars(CallSteps(c))) /\ WF_vars(IoSteps) /\ WF_vars(MainSteps)

-----------------------------------------------------------------------------
\* A call gets the answer to its own request, whole: neither an answer that
\* comes after its caller timed out, nor half a frame of a core that died, nor
\* a new socket makes processBuffer() hand over another one's.
OwnAnswer == \A i \in Id : call[i].state = "answered" => call[i].data = i

\* The map holds only calls that someone still waits for: a caller that timed
\* out leaves nothing for the io thread to fill.
NoOrphan == \A i \in pending : \E c \in Caller : caller[c].id = i /\ caller[c].pc # "idle"

\* "writes issued after Reconnect always hit the new socket": a request is not
\* in the hands of a core that was replaced before its call was made.
NewSocketOnly == \A s \in Sock : \A i \in wire[s].asked : call[i].over <= s

\* Calls, callers, cores and sockets are kept apart, whatever of them is gone.
CallsAreKeptApart == TypeOK /\ OwnAnswer /\ NoOrphan /\ NewSocketOnly

\* Every Call() returns, whatever becomes of the core and of the sockets: the
\* locks of the map and of the calls are never taken in opposite orders.
CallsReturn == \A c \in Caller : caller[c].pc = "checked" ~> caller[c].pc = "idle"
=============================================================================
