------------------------------ MODULE XrayGate ------------------------------
(***************************************************************************)
(* The lazy Xray sidecar of the core, core/internal/xray/gate.go.  A gate  *)
(* owns the inbound ports of one Xray config for the whole life of the     *)
(* config; the instance behind them is started by the first connection,    *)
(* swept when idle, retired by Recycle and taken down by Close.            *)
(*                                                                         *)
(* Goroutines: one handler per accepted connection, the sweeper, and the   *)
(* owner that calls Recycle and Close (its callers serialise the two).     *)
(* A critical section of mu or of connsMu is one step: every field it      *)
(* reads is written only under the same mutex, except the atomics, which   *)
(* each step reads once.                                                   *)
(***************************************************************************)
EXTENDS Naturals

CONSTANTS Conn,       \* handler slots; a slot is reused after its connection ended
          Sweeps,     \* g.idle > 0: FALSE keeps the instance resident
          MaxStarts,  \* bound on successful instance starts
          None,       \* nil instance
          Foreign,    \* a listener that is not ours, on a port an instance gave back
          Untracked   \* conns has no entry for the socket

ASSUME GateAssumption ==
  /\ Sweeps \in BOOLEAN
  /\ MaxStarts \in Nat
  /\ None \notin Nat
  /\ Foreign \notin Nat
  /\ Untracked \notin Nat

VARIABLES
  instance,    \* g.instance (g.targets changes with it): None or the id of a started instance
  started,     \* how many instances were started; their ids are 1..started
  running,     \* the started instances whose Close was not called yet
  generation,  \* g.generation
  closed,      \* g.closed
  failure,     \* g.failure # nil
  listening,   \* the bridges still accept
  connsOpen,   \* g.conns # nil
  conns,       \* g.conns: the generation a tracked socket is bound to, Untracked otherwise
  open,        \* sockets not closed by the gate
  active,      \* the handlers counted in g.active
  pc,          \* where each handler is
  inst,        \* the instance ensure() handed to the handler
  gen,         \* the generation ensure() handed to the handler
  peer,        \* what the handler's dial reached
  owner,       \* where the caller of Recycle/Close is
  ownInst,     \* the instance that caller took out of the gate
  ownSocks,    \* the sockets that caller has still to close
  sweeper,     \* where the sweep goroutine is
  sweepInst    \* the instance it took out of the gate

gateVars    == <<instance, started, running, generation, closed, failure, listening>>
connVars    == <<connsOpen, conns, open>>
handlerVars == <<active, pc, inst, gen, peer>>
ownerVars   == <<owner, ownInst, ownSocks>>
sweepVars   == <<sweeper, sweepInst>>
vars == <<gateVars, connVars, handlerVars, ownerVars, sweepVars>>

Sock == Conn \X {"down", "up"}
Down(c) == <<c, "down">>
Up(c)   == <<c, "up">>

Instances == Nat \ {0}

HandlerPC == {"idle", "accepted", "tracked", "counted", "ensured", "bound", "dialed",
              "relaying", "dropUp", "uncount", "forget"}
OwnerPC   == {"idle", "recycleScan", "recycleCut", "recycleClose",
              "closeBridges", "closeDrain", "closeCut", "closeInstance", "closed"}
SweeperPC == {"wait", "checked", "closing"}

TypeOK ==
  /\ instance \in Instances \cup {None}
  /\ started \in Nat
  /\ running \in SUBSET Instances
  /\ generation \in Nat \ {0}
  /\ closed \in BOOLEAN /\ failure \in BOOLEAN /\ listening \in BOOLEAN /\ connsOpen \in BOOLEAN
  /\ conns \in [Sock -> Nat \cup {Untracked}]
  /\ open \in SUBSET Sock
  /\ active \in SUBSET Conn
  /\ pc \in [Conn -> HandlerPC]
  /\ inst \in [Conn -> Instances \cup {None}]
  /\ gen \in [Conn -> Nat]
  /\ peer \in [Conn -> Instances \cup {None, Foreign}]
  /\ owner \in OwnerPC
  /\ ownInst \in Instances \cup {None}
  /\ ownSocks \in SUBSET Sock
  /\ sweeper \in SweeperPC
  /\ sweepInst \in Instances \cup {None}

\* StartGate: the bridges listen before any instance exists.
Init ==
  /\ instance = None
  /\ started = 0
  /\ running = {}
  /\ generation = 1
  /\ closed = FALSE
  /\ failure = FALSE
  /\ listening = TRUE
  /\ connsOpen = TRUE
  /\ conns = [s \in Sock |-> Untracked]
  /\ open = {}
  /\ active = {}
  /\ pc = [c \in Conn |-> "idle"]
  /\ inst = [c \in Conn |-> None]
  /\ gen = [c \in Conn |-> 0]
  /\ peer = [c \in Conn |-> None]
  /\ owner = "idle"
  /\ ownInst = None
  /\ ownSocks = {}
  /\ sweeper = "wait"
  /\ sweepInst = None

-----------------------------------------------------------------------------
(* The handler of one connection. *)

Goto(c, label) == pc' = [pc EXCEPT ![c] = label]

\* Mutant of Tracks: the generation is not looked at.
TracksAnyGeneration(g) == connsOpen

\* What Gate.track answers for a socket bound to generation g.
Tracks(g) == connsOpen /\ (g = 0 \/ g = generation)

\* serve: bridge.Accept returned and the handler goroutine starts.
Accept(c) ==
  /\ pc[c] = "idle"
  /\ listening
  /\ open' = open \cup {Down(c)}
  /\ Goto(c, "accepted")
  /\ UNCHANGED <<gateVars, connsOpen, conns, active, inst, gen, peer, ownerVars, sweepVars>>

\* handle: track(conn, 0), or close the connection of a gate that is closed.
TrackConn(c) ==
  /\ pc[c] = "accepted"
  /\ IF Tracks(0)
       THEN /\ conns' = [conns EXCEPT ![Down(c)] = 0]
            /\ Goto(c, "tracked")
            /\ UNCHANGED open
       ELSE /\ open' = open \ {Down(c)}
            /\ Goto(c, "idle")
            /\ UNCHANGED conns
  /\ UNCHANGED <<gateVars, connsOpen, active, inst, gen, peer, ownerVars, sweepVars>>

\* handle: active.Add(1) and touch.
Count(c) ==
  /\ pc[c] = "tracked"
  /\ active' = active \cup {c}
  /\ Goto(c, "counted")
  /\ UNCHANGED <<gateVars, connVars, inst, gen, peer, ownerVars, sweepVars>>

\* ensure hands out the running instance with the current generation.
EnsureWarm(c) ==
  /\ pc[c] = "counted"
  /\ ~closed
  /\ instance # None
  /\ inst' = [inst EXCEPT ![c] = instance]
  /\ gen' = [gen EXCEPT ![c] = generation]
  /\ Goto(c, "ensured")
  /\ UNCHANGED <<gateVars, connVars, active, peer, ownerVars, sweepVars>>

\* ensure starts an instance: one of its attempts succeeded, past any cooldown.
EnsureStart(c) ==
  /\ pc[c] = "counted"
  /\ ~closed
  /\ instance = None
  /\ started < MaxStarts
  /\ started' = started + 1
  /\ instance' = started + 1
  /\ running' = running \cup {started + 1}
  /\ failure' = FALSE
  /\ inst' = [inst EXCEPT ![c] = started + 1]
  /\ gen' = [gen EXCEPT ![c] = generation]
  /\ Goto(c, "ensured")
  /\ UNCHANGED <<generation, closed, listening, connVars, active, peer, ownerVars, sweepVars>>

\* Mutant of EnsureFail: the connection tries again in place instead of being dropped.
EnsureFailRetries(c) ==
  /\ pc[c] = "counted"
  /\ \/ closed /\ UNCHANGED failure
     \/ ~closed /\ instance = None /\ failure' = TRUE
  /\ UNCHANGED <<instance, started, running, generation, closed, listening, connVars, handlerVars,
                 ownerVars, sweepVars>>

\* ensure fails: the gate is closed, every attempt failed, or the cooldown of a failure lasts.
EnsureFail(c) ==
  /\ pc[c] = "counted"
  /\ \/ closed /\ UNCHANGED failure
     \/ ~closed /\ instance = None /\ failure' = TRUE
  /\ Goto(c, "uncount")
  /\ UNCHANGED <<instance, started, running, generation, closed, listening, connVars, active,
                 inst, gen, peer, ownerVars, sweepVars>>

\* handle: track(conn, generation) binds the client side to the instance's generation.
BindConn(c) ==
  /\ pc[c] = "ensured"
  /\ IF Tracks(gen[c])
       THEN conns' = [conns EXCEPT ![Down(c)] = gen[c]] /\ Goto(c, "bound")
       ELSE UNCHANGED conns /\ Goto(c, "uncount")
  /\ UNCHANGED <<gateVars, connsOpen, open, active, inst, gen, peer, ownerVars, sweepVars>>

\* handle: net.Dial of the target.  The port of an instance that closed may be anybody's.
Dial(c) ==
  /\ pc[c] = "bound"
  /\ peer' = [peer EXCEPT ![c] = IF inst[c] \in running THEN inst[c] ELSE Foreign]
  /\ open' = open \cup {Up(c)}
  /\ Goto(c, "dialed")
  /\ UNCHANGED <<gateVars, connsOpen, conns, active, inst, gen, ownerVars, sweepVars>>

DialFail(c) ==
  /\ pc[c] = "bound"
  /\ Goto(c, "uncount")
  /\ UNCHANGED <<gateVars, connVars, active, inst, gen, peer, ownerVars, sweepVars>>

\* handle: track(upstream, generation); refused, the upstream is closed at once.
BindUpstream(c) ==
  /\ pc[c] = "dialed"
  /\ IF Tracks(gen[c])
       THEN /\ conns' = [conns EXCEPT ![Up(c)] = gen[c]]
            /\ Goto(c, "relaying")
            /\ UNCHANGED open
       ELSE /\ open' = open \ {Up(c)}
            /\ Goto(c, "uncount")
            /\ UNCHANGED conns
  /\ UNCHANGED <<gateVars, connsOpen, active, inst, gen, peer, ownerVars, sweepVars>>

\* Both relays returned: the peers ended the connection.
RelayEnd(c) ==
  /\ pc[c] = "relaying"
  /\ Goto(c, "dropUp")
  /\ UNCHANGED <<gateVars, connVars, active, inst, gen, peer, ownerVars, sweepVars>>

\* The deferred calls of handle, last registered first.
DropUpstream(c) ==
  /\ pc[c] = "dropUp"
  /\ conns' = [conns EXCEPT ![Up(c)] = Untracked]
  /\ open' = open \ {Up(c)}
  /\ Goto(c, "uncount")
  /\ UNCHANGED <<gateVars, connsOpen, active, inst, gen, peer, ownerVars, sweepVars>>

Uncount(c) ==
  /\ pc[c] = "uncount"
  /\ active' = active \ {c}
  /\ Goto(c, "forget")
  /\ UNCHANGED <<gateVars, connVars, inst, gen, peer, ownerVars, sweepVars>>

\* handle returns, its locals with it.
ForgetConn(c) ==
  /\ pc[c] = "forget"
  /\ conns' = [conns EXCEPT ![Down(c)] = Untracked]
  /\ open' = open \ {Down(c)}
  /\ inst' = [inst EXCEPT ![c] = None]
  /\ gen' = [gen EXCEPT ![c] = 0]
  /\ peer' = [peer EXCEPT ![c] = None]
  /\ Goto(c, "idle")
  /\ UNCHANGED <<gateVars, connsOpen, active, ownerVars, sweepVars>>

-----------------------------------------------------------------------------
(* The caller of Recycle and Close. *)

\* Recycle: takes the instance and retires its generation under mu.
RecycleSwap ==
  /\ owner = "idle"
  /\ instance # None
  /\ ownInst' = instance
  /\ instance' = None
  /\ generation' = generation + 1
  /\ owner' = "recycleScan"
  /\ UNCHANGED <<started, running, closed, failure, listening, connVars, handlerVars, ownSocks,
                 sweepVars>>

\* Recycle: collects the sockets bound to the retired generation under connsMu.
RecycleScan ==
  /\ owner = "recycleScan"
  /\ ownSocks' = {s \in Sock : conns[s] = generation - 1}
  /\ owner' = "recycleCut"
  /\ UNCHANGED <<gateVars, connVars, handlerVars, ownInst, sweepVars>>

\* Mutant of CloseMark: the instance is read after it was cleared.
CloseMarkLosesInstance ==
  /\ owner = "idle"
  /\ closed' = TRUE
  /\ ownInst' = None
  /\ instance' = None
  /\ owner' = "closeBridges"
  /\ UNCHANGED <<started, running, generation, failure, listening, connVars, handlerVars, ownSocks,
                 sweepVars>>

\* Close: marks the gate closed and takes the instance under mu.
CloseMark ==
  /\ owner = "idle"
  /\ closed' = TRUE
  /\ ownInst' = instance
  /\ instance' = None
  /\ owner' = "closeBridges"
  /\ UNCHANGED <<started, running, generation, failure, listening, connVars, handlerVars, ownSocks,
                 sweepVars>>

CloseBridges ==
  /\ owner = "closeBridges"
  /\ listening' = FALSE
  /\ owner' = "closeDrain"
  /\ UNCHANGED <<instance, started, running, generation, closed, failure, connVars, handlerVars,
                 ownInst, ownSocks, sweepVars>>

\* Close: takes the whole map under connsMu.
CloseDrain ==
  /\ owner = "closeDrain"
  /\ ownSocks' = {s \in Sock : conns[s] # Untracked}
  /\ connsOpen' = FALSE
  /\ conns' = [s \in Sock |-> Untracked]
  /\ owner' = "closeCut"
  /\ UNCHANGED <<gateVars, open, handlerVars, ownInst, sweepVars>>

\* Recycle and Close: close the collected sockets one after the other.
CutSocket(s) ==
  /\ owner \in {"recycleCut", "closeCut"}
  /\ s \in ownSocks
  /\ ownSocks' = ownSocks \ {s}
  /\ open' = open \ {s}
  /\ UNCHANGED <<gateVars, connsOpen, conns, handlerVars, owner, ownInst, sweepVars>>

CutDone ==
  /\ owner \in {"recycleCut", "closeCut"}
  /\ ownSocks = {}
  /\ owner' = IF owner = "recycleCut" THEN "recycleClose" ELSE "closeInstance"
  /\ UNCHANGED <<gateVars, connVars, handlerVars, ownInst, ownSocks, sweepVars>>

\* Recycle and Close: instance.Close.
CloseOwned ==
  /\ owner \in {"recycleClose", "closeInstance"}
  /\ running' = running \ {ownInst}
  /\ ownInst' = None
  /\ owner' = IF owner = "recycleClose" THEN "idle" ELSE "closed"
  /\ UNCHANGED <<instance, started, generation, closed, failure, listening, connVars, handlerVars,
                 ownSocks, sweepVars>>

-----------------------------------------------------------------------------
(* The sweep goroutine; it ends once g.stopped is closed. *)

\* idleNow at the tick.  How long the gate has been quiet is left open.
IdleNow == Sweeps /\ active = {}

SweepCheck ==
  /\ sweeper = "wait"
  /\ owner \notin {"closeDrain", "closeCut", "closeInstance", "closed"}
  /\ IdleNow
  /\ sweeper' = "checked"
  /\ UNCHANGED <<gateVars, connVars, handlerVars, ownerVars, sweepInst>>

\* Mutant of SweepTake: idleness is not checked again under mu.
SweepTakeUnchecked ==
  /\ sweeper = "checked"
  /\ IF instance # None
       THEN /\ sweepInst' = instance
            /\ instance' = None
            /\ sweeper' = "closing"
       ELSE /\ sweeper' = "wait"
            /\ UNCHANGED <<sweepInst, instance>>
  /\ UNCHANGED <<started, running, generation, closed, failure, listening, connVars, handlerVars,
                 ownerVars>>

\* The recheck under mu, and the instance leaving the gate.
SweepTake ==
  /\ sweeper = "checked"
  /\ IF IdleNow /\ instance # None
       THEN /\ sweepInst' = instance
            /\ instance' = None
            /\ sweeper' = "closing"
       ELSE /\ sweeper' = "wait"
            /\ UNCHANGED <<sweepInst, instance>>
  /\ UNCHANGED <<started, running, generation, closed, failure, listening, connVars, handlerVars,
                 ownerVars>>

SweepClose ==
  /\ sweeper = "closing"
  /\ running' = running \ {sweepInst}
  /\ sweepInst' = None
  /\ sweeper' = "wait"
  /\ UNCHANGED <<instance, started, generation, closed, failure, listening, connVars, handlerVars,
                 ownerVars>>

-----------------------------------------------------------------------------
Handler(c) ==
  \/ TrackConn(c) \/ Count(c)
  \/ EnsureWarm(c) \/ EnsureStart(c) \/ EnsureFail(c)
  \/ BindConn(c) \/ Dial(c) \/ DialFail(c) \/ BindUpstream(c)
  \/ DropUpstream(c) \/ Uncount(c) \/ ForgetConn(c)

OwnerStep ==
  \/ RecycleScan
  \/ CloseBridges \/ CloseDrain
  \/ \E s \in Sock : CutSocket(s)
  \/ CutDone \/ CloseOwned

Sweep == SweepCheck \/ SweepTake \/ SweepClose

\* A closed gate whose handlers have all returned does nothing any more.
Done ==
  /\ owner = "closed"
  /\ \A c \in Conn : pc[c] = "idle"
  /\ sweeper = "wait"
  /\ UNCHANGED vars

Next ==
  \/ \E c \in Conn : Accept(c) \/ RelayEnd(c) \/ Handler(c)
  \/ RecycleSwap \/ CloseMark \/ OwnerStep
  \/ Sweep
  \/ Done

Spec == Init /\ [][Next]_vars

(***************************************************************************)
(* Goroutines that can run do run: no step of a handler, of a Recycle or   *)
(* Close in progress, or of a sweep waits on anything but a mutex held for *)
(* a bounded time.  A relay returns once both of its sockets are closed.   *)
(* Clients and the callers of Recycle and Close owe nothing.               *)
(***************************************************************************)
RelayCut(c) == RelayEnd(c) /\ Down(c) \notin open /\ Up(c) \notin open

FairSpec ==
  /\ Spec
  /\ \A c \in Conn : WF_vars(Handler(c)) /\ WF_vars(RelayCut(c))
  /\ WF_vars(OwnerStep)
  /\ WF_vars(SweepTake \/ SweepClose)

-----------------------------------------------------------------------------
(* Properties. *)

\* An instance handed to a connection stays the gate's instance until its generation is
\* retired or the gate closes: the sweeper never takes it from under a counted connection
\* (gate.go:416, "a connection counted after the first check must not be handed an
\* instance about to close").
HandoutIsCurrent ==
  \A c \in Conn :
    /\ pc[c] \in {"ensured", "bound", "dialed", "relaying"}
    /\ gen[c] = generation
    /\ ~closed
    => instance = inst[c]

\* A relayed connection that the gate left open runs on the very instance it was handed,
\* and that instance is up: Recycle, Close and the sweeper miss no connection, and no relay
\* reaches whoever took the port of an instance that closed (gate.go:58).
RelaysRideTheirInstance ==
  \A c \in Conn :
    pc[c] = "relaying" /\ Up(c) \in open => peer[c] = inst[c] /\ inst[c] \in running

\* Every instance that is up is the gate's, or in the hands of the goroutine that is about
\* to close it: none is ever lost, whatever races with a start.
NoInstanceLeak == running \subseteq {instance, ownInst, sweepInst}

\* Once Close has returned, nothing is relayed and only a sweep already under way can hold
\* an instance up.
ClosedGateIsDown ==
  owner = "closed" =>
    /\ running \subseteq {sweepInst}
    /\ \A c \in Conn : pc[c] = "relaying" => open \cap {Down(c), Up(c)} = {}

\* Close is final: every handler returns and no instance stays up.
CloseDrains == closed ~> (running = {} /\ \A c \in Conn : pc[c] = "idle")

\* No accepted connection is stuck on its way: it comes to be relayed or is dropped.
SetupEnds == \A c \in Conn : pc[c] = "accepted" ~> pc[c] \in {"relaying", "idle"}

\* Nothing outlives the gate: every instance that is up has someone to close it, and after
\* Close nothing is relayed.
NothingOutlives == NoInstanceLeak /\ ClosedGateIsDown

\* Nothing hangs: Close drains the gate, and a connection whose start fails or is refused
\* is dropped rather than kept (gate.go:330).
NothingHangs == CloseDrains /\ SetupEnds
=============================================================================
