-------------------------- MODULE XrayGate_proofs --------------------------
(***************************************************************************)
(* Proofs for XrayGate: the safety properties hold for every set of        *)
(* connections, every bound on starts, and with or without a sweeper.      *)
(***************************************************************************)
EXTENDS XrayGate, TLAPS

Handed == {"ensured", "bound", "dialed", "relaying"}

\* g.active counts exactly the handlers between Count and Uncount.
CountInv ==
  \A c \in Conn : c \in active <=> pc[c] \in Handed \cup {"counted", "dropUp", "uncount"}

\* How far Close and the sweeper have come, in terms of what they have written.
PhaseInv ==
  /\ closed <=> owner \in {"closeBridges", "closeDrain", "closeCut", "closeInstance", "closed"}
  /\ connsOpen <=> owner \notin {"closeCut", "closeInstance", "closed"}
  /\ closed => instance = None
  /\ owner \in {"idle", "closed"} => ownInst = None
  /\ sweeper # "closing" => sweepInst = None

\* Instances are numbered as they start; the holders of the running ones are distinct.
HolderInv ==
  /\ running \subseteq {instance, ownInst, sweepInst}
  /\ \A i \in running : i <= started
  /\ instance # None => instance \in running
  /\ ownInst # None => ownInst \in running /\ ownInst # instance
  /\ sweepInst # None => sweepInst \in running /\ sweepInst # instance /\ sweepInst # ownInst

\* A handler of the current generation holds the instance of the gate, or the one Close took.
HandedInv ==
  \A c \in Conn : pc[c] \in Handed =>
    /\ inst[c] # None
    /\ gen[c] # 0
    /\ gen[c] <= generation
    /\ gen[c] = generation => /\ ~closed => instance = inst[c]
                              /\ closed /\ connsOpen => ownInst = inst[c]

\* What the handler tracked and dialed while nothing came in between.
TrackInv ==
  \A c \in Conn :
    /\ connsOpen /\ pc[c] \in {"bound", "dialed", "relaying"} => conns[Down(c)] = gen[c]
    /\ connsOpen /\ pc[c] = "relaying" => conns[Up(c)] = gen[c]
    /\ connsOpen /\ pc[c] = "dialed" /\ gen[c] = generation => peer[c] = inst[c]

\* Why socket s of the relay of c is still open: its instance is current, or the owner has
\* taken that instance and is still to cut s.
MayBeOpen(c, s) ==
  \/ gen[c] = generation /\ ~closed
  \/ /\ inst[c] = ownInst
     /\ \/ owner = "recycleScan" /\ gen[c] = generation - 1
        \/ owner = "recycleCut" /\ s \in ownSocks
        \/ owner \in {"closeBridges", "closeDrain"}
        \/ owner = "closeCut" /\ s \in ownSocks

RideInv ==
  \A c \in Conn : pc[c] = "relaying" =>
    /\ Down(c) \in open => MayBeOpen(c, Down(c))
    /\ Up(c) \in open => MayBeOpen(c, Up(c)) /\ peer[c] = inst[c]

IInv ==
  /\ TypeOK
  /\ CountInv
  /\ PhaseInv
  /\ HolderInv
  /\ HandedInv
  /\ TrackInv
  /\ RideInv

-----------------------------------------------------------------------------
\* The sockets of the handlers are pairwise different.
LEMMA SockFacts ==
  ASSUME NEW c \in Conn
  PROVE  /\ Down(c) \in Sock /\ Up(c) \in Sock
         /\ \A d \in Conn : /\ Down(c) # Up(d)
                            /\ Down(c) = Down(d) => c = d
                            /\ Up(c) = Up(d) => c = d
  BY DEF Down, Up, Sock

\* StartGate establishes the invariant.
LEMMA InitIInv == Init => IInv
<1> SUFFICES ASSUME Init PROVE IInv OBVIOUS
<1>1. TypeOK
  <2>1. {closed, failure, listening, connsOpen} \subseteq BOOLEAN
    BY Zenon DEF Init
  <2> QED BY <2>1, GateAssumption DEF Init, TypeOK, HandlerPC, OwnerPC, SweeperPC, Instances
<1>2. CountInv /\ HandedInv /\ TrackInv /\ RideInv
  BY DEF Init, CountInv, HandedInv, TrackInv, RideInv, Handed
<1>3. PhaseInv /\ HolderInv
  BY DEF Init, PhaseInv, HolderInv
<1> QED BY <1>1, <1>2, <1>3 DEF IInv

\* Accept keeps the invariant.
LEMMA AcceptStep ==
  ASSUME IInv, NEW c \in Conn, Accept(c)
  PROVE  IInv'
<1> USE DEF Accept, Goto, gateVars, ownerVars, sweepVars
<1>1. TypeOK'
  BY SockFacts, GateAssumption DEF IInv, TypeOK, HandlerPC, OwnerPC, SweeperPC, Instances
<1>2. CountInv'
  BY DEF IInv, TypeOK, CountInv, HandlerPC, Handed
<1>3. PhaseInv'
  BY GateAssumption DEF IInv, TypeOK, PhaseInv, OwnerPC, Instances
<1>4. HolderInv'
  BY GateAssumption DEF IInv, TypeOK, PhaseInv, HolderInv, OwnerPC, Instances
<1>5. HandedInv'
  BY GateAssumption DEF IInv, TypeOK, CountInv, PhaseInv, HandedInv, HandlerPC, OwnerPC, Handed,
       Instances
<1>6. TrackInv'
  BY SockFacts, GateAssumption DEF IInv, TypeOK, PhaseInv, HolderInv, HandedInv, TrackInv,
       Handed
<1>7. RideInv'
  BY SockFacts, GateAssumption DEF IInv, TypeOK, PhaseInv, HandedInv, TrackInv, RideInv, Handed,
       MayBeOpen, Instances, OwnerPC
<1> QED BY <1>1, <1>2, <1>3, <1>4, <1>5, <1>6, <1>7 DEF IInv

\* TrackConn keeps the invariant.
LEMMA TrackConnStep ==
  ASSUME IInv, NEW c \in Conn, TrackConn(c)
  PROVE  IInv'
<1> USE DEF TrackConn, Goto, Tracks, gateVars, ownerVars, sweepVars
<1>1. TypeOK'
  BY SockFacts, GateAssumption DEF IInv, TypeOK, HandlerPC, OwnerPC, SweeperPC, Instances
<1>2. CountInv'
  BY DEF IInv, TypeOK, CountInv, HandlerPC, Handed
<1>3. PhaseInv'
  BY GateAssumption DEF IInv, TypeOK, PhaseInv, OwnerPC, Instances
<1>4. HolderInv'
  BY GateAssumption DEF IInv, TypeOK, PhaseInv, HolderInv, OwnerPC, Instances
<1>5. HandedInv'
  BY GateAssumption DEF IInv, TypeOK, CountInv, PhaseInv, HandedInv, HandlerPC, OwnerPC, Handed,
       Instances
<1>6. TrackInv'
  BY SockFacts, GateAssumption DEF IInv, TypeOK, PhaseInv, HolderInv, HandedInv, TrackInv,
       Handed
<1>7. RideInv'
  BY SockFacts, GateAssumption DEF IInv, TypeOK, PhaseInv, HandedInv, TrackInv, RideInv, Handed,
       MayBeOpen, Instances, OwnerPC
<1> QED BY <1>1, <1>2, <1>3, <1>4, <1>5, <1>6, <1>7 DEF IInv

\* Count keeps the invariant.
LEMMA CountStep ==
  ASSUME IInv, NEW c \in Conn, Count(c)
  PROVE  IInv'
<1> USE DEF Count, Goto, gateVars, connVars, ownerVars, sweepVars
<1>1. TypeOK'
  BY SockFacts, GateAssumption DEF IInv, TypeOK, HandlerPC, OwnerPC, SweeperPC, Instances
<1>2. CountInv'
  BY DEF IInv, TypeOK, CountInv, HandlerPC, Handed
<1>3. PhaseInv'
  BY GateAssumption DEF IInv, TypeOK, PhaseInv, OwnerPC, Instances
<1>4. HolderInv'
  BY GateAssumption DEF IInv, TypeOK, PhaseInv, HolderInv, OwnerPC, Instances
<1>5. HandedInv'
  BY GateAssumption DEF IInv, TypeOK, CountInv, PhaseInv, HandedInv, HandlerPC, OwnerPC, Handed,
       Instances
<1>6. TrackInv'
  BY SockFacts, GateAssumption DEF IInv, TypeOK, PhaseInv, HolderInv, HandedInv, TrackInv,
       Handed
<1>7. RideInv'
  BY SockFacts, GateAssumption DEF IInv, TypeOK, PhaseInv, HandedInv, TrackInv, RideInv, Handed,
       MayBeOpen, Instances, OwnerPC
<1> QED BY <1>1, <1>2, <1>3, <1>4, <1>5, <1>6, <1>7 DEF IInv

\* EnsureWarm keeps the invariant.
LEMMA EnsureWarmStep ==
  ASSUME IInv, NEW c \in Conn, EnsureWarm(c)
  PROVE  IInv'
<1> USE DEF EnsureWarm, Goto, gateVars, connVars, ownerVars, sweepVars
<1>1. TypeOK'
  BY SockFacts, GateAssumption DEF IInv, TypeOK, HandlerPC, OwnerPC, SweeperPC, Instances
<1>2. CountInv'
  BY DEF IInv, TypeOK, CountInv, HandlerPC, Handed
<1>3. PhaseInv'
  BY GateAssumption DEF IInv, TypeOK, PhaseInv, OwnerPC, Instances
<1>4. HolderInv'
  BY GateAssumption DEF IInv, TypeOK, PhaseInv, HolderInv, OwnerPC, Instances
<1>5. HandedInv'
  BY GateAssumption DEF IInv, TypeOK, CountInv, PhaseInv, HandedInv, HandlerPC, OwnerPC, Handed,
       Instances
<1>6. TrackInv'
  BY SockFacts, GateAssumption DEF IInv, TypeOK, PhaseInv, HolderInv, HandedInv, TrackInv,
       Handed
<1>7. RideInv'
  BY SockFacts, GateAssumption DEF IInv, TypeOK, PhaseInv, HandedInv, TrackInv, RideInv, Handed,
       MayBeOpen, Instances, OwnerPC
<1> QED BY <1>1, <1>2, <1>3, <1>4, <1>5, <1>6, <1>7 DEF IInv

\* EnsureStart keeps the invariant.
LEMMA EnsureStartStep ==
  ASSUME IInv, NEW c \in Conn, EnsureStart(c)
  PROVE  IInv'
<1> USE DEF EnsureStart, Goto, connVars, ownerVars, sweepVars
<1>1. TypeOK'
  <2>1. failure' \in BOOLEAN
    BY Zenon DEF IInv, TypeOK
  <2> QED BY <2>1, SockFacts, GateAssumption DEF IInv, TypeOK, HandlerPC, OwnerPC, SweeperPC,
       Instances
<1>2. CountInv'
  BY DEF IInv, TypeOK, CountInv, HandlerPC, Handed
<1>3. PhaseInv'
  BY GateAssumption DEF IInv, TypeOK, PhaseInv, OwnerPC, Instances
<1>4. HolderInv'
  BY GateAssumption DEF IInv, TypeOK, PhaseInv, HolderInv, OwnerPC, Instances
<1>5. HandedInv'
  BY GateAssumption DEF IInv, TypeOK, CountInv, PhaseInv, HandedInv, HandlerPC, OwnerPC, Handed,
       Instances
<1>6. TrackInv'
  BY SockFacts, GateAssumption DEF IInv, TypeOK, PhaseInv, HolderInv, HandedInv, TrackInv,
       Handed
<1>7. RideInv'
  BY SockFacts, GateAssumption DEF IInv, TypeOK, PhaseInv, HandedInv, TrackInv, RideInv, Handed,
       MayBeOpen, Instances, OwnerPC
<1> QED BY <1>1, <1>2, <1>3, <1>4, <1>5, <1>6, <1>7 DEF IInv

\* EnsureFail keeps the invariant.
LEMMA EnsureFailStep ==
  ASSUME IInv, NEW c \in Conn, EnsureFail(c)
  PROVE  IInv'
<1> USE DEF EnsureFail, Goto, connVars, ownerVars, sweepVars
<1>1. TypeOK'
  <2>1. failure' \in BOOLEAN
    BY Zenon DEF IInv, TypeOK
  <2> QED BY <2>1, SockFacts, GateAssumption DEF IInv, TypeOK, HandlerPC, OwnerPC, SweeperPC,
       Instances
<1>2. CountInv'
  BY DEF IInv, TypeOK, CountInv, HandlerPC, Handed
<1>3. PhaseInv'
  BY GateAssumption DEF IInv, TypeOK, PhaseInv, OwnerPC, Instances
<1>4. HolderInv'
  BY GateAssumption DEF IInv, TypeOK, PhaseInv, HolderInv, OwnerPC, Instances
<1>5. HandedInv'
  BY GateAssumption DEF IInv, TypeOK, CountInv, PhaseInv, HandedInv, HandlerPC, OwnerPC, Handed,
       Instances
<1>6. TrackInv'
  BY SockFacts, GateAssumption DEF IInv, TypeOK, PhaseInv, HolderInv, HandedInv, TrackInv,
       Handed
<1>7. RideInv'
  BY SockFacts, GateAssumption DEF IInv, TypeOK, PhaseInv, HandedInv, TrackInv, RideInv, Handed,
       MayBeOpen, Instances, OwnerPC
<1> QED BY <1>1, <1>2, <1>3, <1>4, <1>5, <1>6, <1>7 DEF IInv

\* BindConn keeps the invariant.
LEMMA BindConnStep ==
  ASSUME IInv, NEW c \in Conn, BindConn(c)
  PROVE  IInv'
<1> USE DEF BindConn, Goto, Tracks, gateVars, ownerVars, sweepVars
<1>1. TypeOK'
  BY SockFacts, GateAssumption DEF IInv, TypeOK, HandlerPC, OwnerPC, SweeperPC, Instances
<1>2. CountInv'
  BY DEF IInv, TypeOK, CountInv, HandlerPC, Handed
<1>3. PhaseInv'
  BY GateAssumption DEF IInv, TypeOK, PhaseInv, OwnerPC, Instances
<1>4. HolderInv'
  BY GateAssumption DEF IInv, TypeOK, PhaseInv, HolderInv, OwnerPC, Instances
<1>5. HandedInv'
  BY GateAssumption DEF IInv, TypeOK, CountInv, PhaseInv, HandedInv, HandlerPC, OwnerPC, Handed,
       Instances
<1>6. TrackInv'
  BY SockFacts, GateAssumption DEF IInv, TypeOK, PhaseInv, HolderInv, HandedInv, TrackInv,
       Handed
<1>7. RideInv'
  BY SockFacts, GateAssumption DEF IInv, TypeOK, PhaseInv, HandedInv, TrackInv, RideInv, Handed,
       MayBeOpen, Instances, OwnerPC
<1> QED BY <1>1, <1>2, <1>3, <1>4, <1>5, <1>6, <1>7 DEF IInv

\* Dial keeps the invariant.
LEMMA DialStep ==
  ASSUME IInv, NEW c \in Conn, Dial(c)
  PROVE  IInv'
<1> USE DEF Dial, Goto, gateVars, ownerVars, sweepVars
<1>1. TypeOK'
  BY SockFacts, GateAssumption DEF IInv, TypeOK, HandlerPC, OwnerPC, SweeperPC, Instances
<1>2. CountInv'
  BY DEF IInv, TypeOK, CountInv, HandlerPC, Handed
<1>3. PhaseInv'
  BY GateAssumption DEF IInv, TypeOK, PhaseInv, OwnerPC, Instances
<1>4. HolderInv'
  BY GateAssumption DEF IInv, TypeOK, PhaseInv, HolderInv, OwnerPC, Instances
<1>5. HandedInv'
  BY GateAssumption DEF IInv, TypeOK, CountInv, PhaseInv, HandedInv, HandlerPC, OwnerPC, Handed,
       Instances
<1>6. TrackInv'
  BY SockFacts, GateAssumption DEF IInv, TypeOK, PhaseInv, HolderInv, HandedInv, TrackInv,
       Handed
<1>7. RideInv'
  BY SockFacts, GateAssumption DEF IInv, TypeOK, PhaseInv, HandedInv, TrackInv, RideInv, Handed,
       MayBeOpen, Instances, OwnerPC
<1> QED BY <1>1, <1>2, <1>3, <1>4, <1>5, <1>6, <1>7 DEF IInv

\* DialFail keeps the invariant.
LEMMA DialFailStep ==
  ASSUME IInv, NEW c \in Conn, DialFail(c)
  PROVE  IInv'
<1> USE DEF DialFail, Goto, gateVars, connVars, ownerVars, sweepVars
<1>1. TypeOK'
  BY SockFacts, GateAssumption DEF IInv, TypeOK, HandlerPC, OwnerPC, SweeperPC, Instances
<1>2. CountInv'
  BY DEF IInv, TypeOK, CountInv, HandlerPC, Handed
<1>3. PhaseInv'
  BY GateAssumption DEF IInv, TypeOK, PhaseInv, OwnerPC, Instances
<1>4. HolderInv'
  BY GateAssumption DEF IInv, TypeOK, PhaseInv, HolderInv, OwnerPC, Instances
<1>5. HandedInv'
  BY GateAssumption DEF IInv, TypeOK, CountInv, PhaseInv, HandedInv, HandlerPC, OwnerPC, Handed,
       Instances
<1>6. TrackInv'
  BY SockFacts, GateAssumption DEF IInv, TypeOK, PhaseInv, HolderInv, HandedInv, TrackInv,
       Handed
<1>7. RideInv'
  BY SockFacts, GateAssumption DEF IInv, TypeOK, PhaseInv, HandedInv, TrackInv, RideInv, Handed,
       MayBeOpen, Instances, OwnerPC
<1> QED BY <1>1, <1>2, <1>3, <1>4, <1>5, <1>6, <1>7 DEF IInv

\* BindUpstream keeps the invariant.
LEMMA BindUpstreamStep ==
  ASSUME IInv, NEW c \in Conn, BindUpstream(c)
  PROVE  IInv'
<1> USE DEF BindUpstream, Goto, Tracks, gateVars, ownerVars, sweepVars
<1>1. TypeOK'
  BY SockFacts, GateAssumption DEF IInv, TypeOK, HandlerPC, OwnerPC, SweeperPC, Instances
<1>2. CountInv'
  BY DEF IInv, TypeOK, CountInv, HandlerPC, Handed
<1>3. PhaseInv'
  BY GateAssumption DEF IInv, TypeOK, PhaseInv, OwnerPC, Instances
<1>4. HolderInv'
  BY GateAssumption DEF IInv, TypeOK, PhaseInv, HolderInv, OwnerPC, Instances
<1>5. HandedInv'
  BY GateAssumption DEF IInv, TypeOK, CountInv, PhaseInv, HandedInv, HandlerPC, OwnerPC, Handed,
       Instances
<1>6. TrackInv'
  BY SockFacts, GateAssumption DEF IInv, TypeOK, PhaseInv, HolderInv, HandedInv, TrackInv,
       Handed
<1>7. RideInv'
  BY SockFacts, GateAssumption DEF IInv, TypeOK, PhaseInv, HandedInv, TrackInv, RideInv, Handed,
       MayBeOpen, Instances, OwnerPC
<1> QED BY <1>1, <1>2, <1>3, <1>4, <1>5, <1>6, <1>7 DEF IInv

\* RelayEnd keeps the invariant.
LEMMA RelayEndStep ==
  ASSUME IInv, NEW c \in Conn, RelayEnd(c)
  PROVE  IInv'
<1> USE DEF RelayEnd, Goto, gateVars, connVars, ownerVars, sweepVars
<1>1. TypeOK'
  BY SockFacts, GateAssumption DEF IInv, TypeOK, HandlerPC, OwnerPC, SweeperPC, Instances
<1>2. CountInv'
  BY DEF IInv, TypeOK, CountInv, HandlerPC, Handed
<1>3. PhaseInv'
  BY GateAssumption DEF IInv, TypeOK, PhaseInv, OwnerPC, Instances
<1>4. HolderInv'
  BY GateAssumption DEF IInv, TypeOK, PhaseInv, HolderInv, OwnerPC, Instances
<1>5. HandedInv'
  BY GateAssumption DEF IInv, TypeOK, CountInv, PhaseInv, HandedInv, HandlerPC, OwnerPC, Handed,
       Instances
<1>6. TrackInv'
  BY SockFacts, GateAssumption DEF IInv, TypeOK, PhaseInv, HolderInv, HandedInv, TrackInv,
       Handed
<1>7. RideInv'
  BY SockFacts, GateAssumption DEF IInv, TypeOK, PhaseInv, HandedInv, TrackInv, RideInv, Handed,
       MayBeOpen, Instances, OwnerPC
<1> QED BY <1>1, <1>2, <1>3, <1>4, <1>5, <1>6, <1>7 DEF IInv

\* DropUpstream keeps the invariant.
LEMMA DropUpstreamStep ==
  ASSUME IInv, NEW c \in Conn, DropUpstream(c)
  PROVE  IInv'
<1> USE DEF DropUpstream, Goto, gateVars, ownerVars, sweepVars
<1>1. TypeOK'
  BY SockFacts, GateAssumption DEF IInv, TypeOK, HandlerPC, OwnerPC, SweeperPC, Instances
<1>2. CountInv'
  BY DEF IInv, TypeOK, CountInv, HandlerPC, Handed
<1>3. PhaseInv'
  BY GateAssumption DEF IInv, TypeOK, PhaseInv, OwnerPC, Instances
<1>4. HolderInv'
  BY GateAssumption DEF IInv, TypeOK, PhaseInv, HolderInv, OwnerPC, Instances
<1>5. HandedInv'
  BY GateAssumption DEF IInv, TypeOK, CountInv, PhaseInv, HandedInv, HandlerPC, OwnerPC, Handed,
       Instances
<1>6. TrackInv'
  BY SockFacts, GateAssumption DEF IInv, TypeOK, PhaseInv, HolderInv, HandedInv, TrackInv,
       Handed
<1>7. RideInv'
  BY SockFacts, GateAssumption DEF IInv, TypeOK, PhaseInv, HandedInv, TrackInv, RideInv, Handed,
       MayBeOpen, Instances, OwnerPC
<1> QED BY <1>1, <1>2, <1>3, <1>4, <1>5, <1>6, <1>7 DEF IInv

\* Uncount keeps the invariant.
LEMMA UncountStep ==
  ASSUME IInv, NEW c \in Conn, Uncount(c)
  PROVE  IInv'
<1> USE DEF Uncount, Goto, gateVars, connVars, ownerVars, sweepVars
<1>1. TypeOK'
  BY SockFacts, GateAssumption DEF IInv, TypeOK, HandlerPC, OwnerPC, SweeperPC, Instances
<1>2. CountInv'
  BY DEF IInv, TypeOK, CountInv, HandlerPC, Handed
<1>3. PhaseInv'
  BY GateAssumption DEF IInv, TypeOK, PhaseInv, OwnerPC, Instances
<1>4. HolderInv'
  BY GateAssumption DEF IInv, TypeOK, PhaseInv, HolderInv, OwnerPC, Instances
<1>5. HandedInv'
  BY GateAssumption DEF IInv, TypeOK, CountInv, PhaseInv, HandedInv, HandlerPC, OwnerPC, Handed,
       Instances
<1>6. TrackInv'
  BY SockFacts, GateAssumption DEF IInv, TypeOK, PhaseInv, HolderInv, HandedInv, TrackInv,
       Handed
<1>7. RideInv'
  BY SockFacts, GateAssumption DEF IInv, TypeOK, PhaseInv, HandedInv, TrackInv, RideInv, Handed,
       MayBeOpen, Instances, OwnerPC
<1> QED BY <1>1, <1>2, <1>3, <1>4, <1>5, <1>6, <1>7 DEF IInv

\* ForgetConn keeps the invariant.
LEMMA ForgetConnStep ==
  ASSUME IInv, NEW c \in Conn, ForgetConn(c)
  PROVE  IInv'
<1> USE DEF ForgetConn, Goto, gateVars, ownerVars, sweepVars
<1>1. TypeOK'
  BY SockFacts, GateAssumption DEF IInv, TypeOK, HandlerPC, OwnerPC, SweeperPC, Instances
<1>2. CountInv'
  BY DEF IInv, TypeOK, CountInv, HandlerPC, Handed
<1>3. PhaseInv'
  BY GateAssumption DEF IInv, TypeOK, PhaseInv, OwnerPC, Instances
<1>4. HolderInv'
  BY GateAssumption DEF IInv, TypeOK, PhaseInv, HolderInv, OwnerPC, Instances
<1>5. HandedInv'
  BY GateAssumption DEF IInv, TypeOK, CountInv, PhaseInv, HandedInv, HandlerPC, OwnerPC, Handed,
       Instances
<1>6. TrackInv'
  BY SockFacts, GateAssumption DEF IInv, TypeOK, PhaseInv, HolderInv, HandedInv, TrackInv,
       Handed
<1>7. RideInv'
  BY SockFacts, GateAssumption DEF IInv, TypeOK, PhaseInv, HandedInv, TrackInv, RideInv, Handed,
       MayBeOpen, Instances, OwnerPC
<1> QED BY <1>1, <1>2, <1>3, <1>4, <1>5, <1>6, <1>7 DEF IInv

\* RecycleSwap keeps the invariant.
LEMMA RecycleSwapStep ==
  ASSUME IInv, RecycleSwap
  PROVE  IInv'
<1> USE DEF RecycleSwap, connVars, handlerVars, sweepVars
<1>1. TypeOK'
  BY GateAssumption DEF IInv, TypeOK, HandlerPC, OwnerPC, SweeperPC, Instances
<1>2. CountInv'
  BY DEF IInv, TypeOK, CountInv, HandlerPC, Handed
<1>3. PhaseInv'
  BY GateAssumption DEF IInv, TypeOK, PhaseInv, OwnerPC, Instances
<1>4. HolderInv'
  BY GateAssumption DEF IInv, TypeOK, PhaseInv, HolderInv, OwnerPC, Instances
<1>5. HandedInv'
  BY GateAssumption DEF IInv, TypeOK, CountInv, PhaseInv, HandedInv, HandlerPC, OwnerPC, Handed,
       Instances
<1>6. TrackInv'
  BY SockFacts, GateAssumption DEF IInv, TypeOK, PhaseInv, HolderInv, HandedInv, TrackInv,
       Handed
<1>7. RideInv'
  BY SockFacts, GateAssumption DEF IInv, TypeOK, PhaseInv, HandedInv, TrackInv, RideInv, Handed,
       MayBeOpen, Instances, OwnerPC
<1> QED BY <1>1, <1>2, <1>3, <1>4, <1>5, <1>6, <1>7 DEF IInv

\* RecycleScan keeps the invariant.
LEMMA RecycleScanStep ==
  ASSUME IInv, RecycleScan
  PROVE  IInv'
<1> USE DEF RecycleScan, gateVars, connVars, handlerVars, sweepVars
<1>1. TypeOK'
  BY GateAssumption DEF IInv, TypeOK, HandlerPC, OwnerPC, SweeperPC, Instances
<1>2. CountInv'
  BY DEF IInv, TypeOK, CountInv, HandlerPC, Handed
<1>3. PhaseInv'
  BY GateAssumption DEF IInv, TypeOK, PhaseInv, OwnerPC, Instances
<1>4. HolderInv'
  BY GateAssumption DEF IInv, TypeOK, PhaseInv, HolderInv, OwnerPC, Instances
<1>5. HandedInv'
  BY GateAssumption DEF IInv, TypeOK, CountInv, PhaseInv, HandedInv, HandlerPC, OwnerPC, Handed,
       Instances
<1>6. TrackInv'
  BY SockFacts, GateAssumption DEF IInv, TypeOK, PhaseInv, HolderInv, HandedInv, TrackInv,
       Handed
<1>7. RideInv'
  BY SockFacts, GateAssumption DEF IInv, TypeOK, PhaseInv, HandedInv, TrackInv, RideInv, Handed,
       MayBeOpen, Instances, OwnerPC
<1> QED BY <1>1, <1>2, <1>3, <1>4, <1>5, <1>6, <1>7 DEF IInv

\* CloseMark keeps the invariant.
LEMMA CloseMarkStep ==
  ASSUME IInv, CloseMark
  PROVE  IInv'
<1> USE DEF CloseMark, connVars, handlerVars, sweepVars
<1>1. TypeOK'
  BY GateAssumption DEF IInv, TypeOK, HandlerPC, OwnerPC, SweeperPC, Instances
<1>2. CountInv'
  BY DEF IInv, TypeOK, CountInv, HandlerPC, Handed
<1>3. PhaseInv'
  BY GateAssumption DEF IInv, TypeOK, PhaseInv, OwnerPC, Instances
<1>4. HolderInv'
  BY GateAssumption DEF IInv, TypeOK, PhaseInv, HolderInv, OwnerPC, Instances
<1>5. HandedInv'
  BY GateAssumption DEF IInv, TypeOK, CountInv, PhaseInv, HandedInv, HandlerPC, OwnerPC, Handed,
       Instances
<1>6. TrackInv'
  BY SockFacts, GateAssumption DEF IInv, TypeOK, PhaseInv, HolderInv, HandedInv, TrackInv,
       Handed
<1>7. RideInv'
  BY SockFacts, GateAssumption DEF IInv, TypeOK, PhaseInv, HandedInv, TrackInv, RideInv, Handed,
       MayBeOpen, Instances, OwnerPC
<1> QED BY <1>1, <1>2, <1>3, <1>4, <1>5, <1>6, <1>7 DEF IInv

\* CloseBridges keeps the invariant.
LEMMA CloseBridgesStep ==
  ASSUME IInv, CloseBridges
  PROVE  IInv'
<1> USE DEF CloseBridges, connVars, handlerVars, sweepVars
<1>1. TypeOK'
  <2>1. listening' \in BOOLEAN
    BY Zenon DEF IInv, TypeOK
  <2> QED BY <2>1, GateAssumption DEF IInv, TypeOK, HandlerPC, OwnerPC, SweeperPC, Instances
<1>2. CountInv'
  BY DEF IInv, TypeOK, CountInv, HandlerPC, Handed
<1>3. PhaseInv'
  BY GateAssumption DEF IInv, TypeOK, PhaseInv, OwnerPC, Instances
<1>4. HolderInv'
  BY GateAssumption DEF IInv, TypeOK, PhaseInv, HolderInv, OwnerPC, Instances
<1>5. HandedInv'
  BY GateAssumption DEF IInv, TypeOK, CountInv, PhaseInv, HandedInv, HandlerPC, OwnerPC, Handed,
       Instances
<1>6. TrackInv'
  BY SockFacts, GateAssumption DEF IInv, TypeOK, PhaseInv, HolderInv, HandedInv, TrackInv,
       Handed
<1>7. RideInv'
  BY SockFacts, GateAssumption DEF IInv, TypeOK, PhaseInv, HandedInv, TrackInv, RideInv, Handed,
       MayBeOpen, Instances, OwnerPC
<1> QED BY <1>1, <1>2, <1>3, <1>4, <1>5, <1>6, <1>7 DEF IInv

\* CloseDrain keeps the invariant.
LEMMA CloseDrainStep ==
  ASSUME IInv, CloseDrain
  PROVE  IInv'
<1> USE DEF CloseDrain, gateVars, handlerVars, sweepVars
<1>1. TypeOK'
  <2>1. connsOpen' \in BOOLEAN
    BY Zenon DEF IInv, TypeOK
  <2> QED BY <2>1, GateAssumption DEF IInv, TypeOK, HandlerPC, OwnerPC, SweeperPC, Instances
<1>2. CountInv'
  BY DEF IInv, TypeOK, CountInv, HandlerPC, Handed
<1>3. PhaseInv'
  BY GateAssumption DEF IInv, TypeOK, PhaseInv, OwnerPC, Instances
<1>4. HolderInv'
  BY GateAssumption DEF IInv, TypeOK, PhaseInv, HolderInv, OwnerPC, Instances
<1>5. HandedInv'
  BY GateAssumption DEF IInv, TypeOK, CountInv, PhaseInv, HandedInv, HandlerPC, OwnerPC, Handed,
       Instances
<1>6. TrackInv'
  BY SockFacts, GateAssumption DEF IInv, TypeOK, PhaseInv, HolderInv, HandedInv, TrackInv,
       Handed
<1>7. RideInv'
  BY SockFacts, GateAssumption DEF IInv, TypeOK, PhaseInv, HandedInv, TrackInv, RideInv, Handed,
       MayBeOpen, Instances, OwnerPC
<1> QED BY <1>1, <1>2, <1>3, <1>4, <1>5, <1>6, <1>7 DEF IInv

\* CutSocket keeps the invariant.
LEMMA CutSocketStep ==
  ASSUME IInv, NEW s \in Sock, CutSocket(s)
  PROVE  IInv'
<1> USE DEF CutSocket, gateVars, handlerVars, sweepVars
<1>1. TypeOK'
  BY GateAssumption DEF IInv, TypeOK, HandlerPC, OwnerPC, SweeperPC, Instances
<1>2. CountInv'
  BY DEF IInv, TypeOK, CountInv, HandlerPC, Handed
<1>3. PhaseInv'
  BY GateAssumption DEF IInv, TypeOK, PhaseInv, OwnerPC, Instances
<1>4. HolderInv'
  BY GateAssumption DEF IInv, TypeOK, PhaseInv, HolderInv, OwnerPC, Instances
<1>5. HandedInv'
  BY GateAssumption DEF IInv, TypeOK, CountInv, PhaseInv, HandedInv, HandlerPC, OwnerPC, Handed,
       Instances
<1>6. TrackInv'
  BY SockFacts, GateAssumption DEF IInv, TypeOK, PhaseInv, HolderInv, HandedInv, TrackInv,
       Handed
<1>7. RideInv'
  BY SockFacts, GateAssumption DEF IInv, TypeOK, PhaseInv, HandedInv, TrackInv, RideInv, Handed,
       MayBeOpen, Instances, OwnerPC
<1> QED BY <1>1, <1>2, <1>3, <1>4, <1>5, <1>6, <1>7 DEF IInv

\* CutDone keeps the invariant.
LEMMA CutDoneStep ==
  ASSUME IInv, CutDone
  PROVE  IInv'
<1> USE DEF CutDone, gateVars, connVars, handlerVars, sweepVars
<1>1. TypeOK'
  BY GateAssumption DEF IInv, TypeOK, HandlerPC, OwnerPC, SweeperPC, Instances
<1>2. CountInv'
  BY DEF IInv, TypeOK, CountInv, HandlerPC, Handed
<1>3. PhaseInv'
  BY GateAssumption DEF IInv, TypeOK, PhaseInv, OwnerPC, Instances
<1>4. HolderInv'
  BY GateAssumption DEF IInv, TypeOK, PhaseInv, HolderInv, OwnerPC, Instances
<1>5. HandedInv'
  BY GateAssumption DEF IInv, TypeOK, CountInv, PhaseInv, HandedInv, HandlerPC, OwnerPC, Handed,
       Instances
<1>6. TrackInv'
  BY SockFacts, GateAssumption DEF IInv, TypeOK, PhaseInv, HolderInv, HandedInv, TrackInv,
       Handed
<1>7. RideInv'
  BY SockFacts, GateAssumption DEF IInv, TypeOK, PhaseInv, HandedInv, TrackInv, RideInv, Handed,
       MayBeOpen, Instances, OwnerPC
<1> QED BY <1>1, <1>2, <1>3, <1>4, <1>5, <1>6, <1>7 DEF IInv

\* CloseOwned keeps the invariant.
LEMMA CloseOwnedStep ==
  ASSUME IInv, CloseOwned
  PROVE  IInv'
<1> USE DEF CloseOwned, connVars, handlerVars, sweepVars
<1>1. TypeOK'
  BY GateAssumption DEF IInv, TypeOK, HandlerPC, OwnerPC, SweeperPC, Instances
<1>2. CountInv'
  BY DEF IInv, TypeOK, CountInv, HandlerPC, Handed
<1>3. PhaseInv'
  BY GateAssumption DEF IInv, TypeOK, PhaseInv, OwnerPC, Instances
<1>4. HolderInv'
  BY GateAssumption DEF IInv, TypeOK, PhaseInv, HolderInv, OwnerPC, Instances
<1>5. HandedInv'
  BY GateAssumption DEF IInv, TypeOK, CountInv, PhaseInv, HandedInv, HandlerPC, OwnerPC, Handed,
       Instances
<1>6. TrackInv'
  BY SockFacts, GateAssumption DEF IInv, TypeOK, PhaseInv, HolderInv, HandedInv, TrackInv,
       Handed
<1>7. RideInv'
  BY SockFacts, GateAssumption DEF IInv, TypeOK, PhaseInv, HandedInv, TrackInv, RideInv, Handed,
       MayBeOpen, Instances, OwnerPC
<1> QED BY <1>1, <1>2, <1>3, <1>4, <1>5, <1>6, <1>7 DEF IInv

\* SweepCheck keeps the invariant.
LEMMA SweepCheckStep ==
  ASSUME IInv, SweepCheck
  PROVE  IInv'
<1> USE DEF SweepCheck, IdleNow, gateVars, connVars, handlerVars, ownerVars
<1>1. TypeOK'
  BY GateAssumption DEF IInv, TypeOK, HandlerPC, OwnerPC, SweeperPC, Instances
<1>2. CountInv'
  BY DEF IInv, TypeOK, CountInv, HandlerPC, Handed
<1>3. PhaseInv'
  BY GateAssumption DEF IInv, TypeOK, PhaseInv, OwnerPC, Instances
<1>4. HolderInv'
  BY GateAssumption DEF IInv, TypeOK, PhaseInv, HolderInv, OwnerPC, Instances
<1>5. HandedInv'
  BY GateAssumption DEF IInv, TypeOK, CountInv, PhaseInv, HandedInv, HandlerPC, OwnerPC, Handed,
       Instances
<1>6. TrackInv'
  BY SockFacts, GateAssumption DEF IInv, TypeOK, PhaseInv, HolderInv, HandedInv, TrackInv,
       Handed
<1>7. RideInv'
  BY SockFacts, GateAssumption DEF IInv, TypeOK, PhaseInv, HandedInv, TrackInv, RideInv, Handed,
       MayBeOpen, Instances, OwnerPC
<1> QED BY <1>1, <1>2, <1>3, <1>4, <1>5, <1>6, <1>7 DEF IInv

\* SweepTake keeps the invariant.
LEMMA SweepTakeStep ==
  ASSUME IInv, SweepTake
  PROVE  IInv'
<1> USE DEF SweepTake, IdleNow, connVars, handlerVars, ownerVars
<1>1. TypeOK'
  BY GateAssumption DEF IInv, TypeOK, HandlerPC, OwnerPC, SweeperPC, Instances
<1>2. CountInv'
  BY DEF IInv, TypeOK, CountInv, HandlerPC, Handed
<1>3. PhaseInv'
  BY GateAssumption DEF IInv, TypeOK, PhaseInv, OwnerPC, Instances
<1>4. HolderInv'
  BY GateAssumption DEF IInv, TypeOK, PhaseInv, HolderInv, OwnerPC, Instances
<1>5. HandedInv'
  BY GateAssumption DEF IInv, TypeOK, CountInv, PhaseInv, HandedInv, HandlerPC, OwnerPC, Handed,
       Instances
<1>6. TrackInv'
  BY SockFacts, GateAssumption DEF IInv, TypeOK, PhaseInv, HolderInv, HandedInv, TrackInv,
       Handed
<1>7. RideInv'
  BY SockFacts, GateAssumption DEF IInv, TypeOK, PhaseInv, HandedInv, TrackInv, RideInv, Handed,
       MayBeOpen, Instances, OwnerPC
<1> QED BY <1>1, <1>2, <1>3, <1>4, <1>5, <1>6, <1>7 DEF IInv

\* SweepClose keeps the invariant.
LEMMA SweepCloseStep ==
  ASSUME IInv, SweepClose
  PROVE  IInv'
<1> USE DEF SweepClose, connVars, handlerVars, ownerVars
<1>1. TypeOK'
  BY GateAssumption DEF IInv, TypeOK, HandlerPC, OwnerPC, SweeperPC, Instances
<1>2. CountInv'
  BY DEF IInv, TypeOK, CountInv, HandlerPC, Handed
<1>3. PhaseInv'
  BY GateAssumption DEF IInv, TypeOK, PhaseInv, OwnerPC, Instances
<1>4. HolderInv'
  BY GateAssumption DEF IInv, TypeOK, PhaseInv, HolderInv, OwnerPC, Instances
<1>5. HandedInv'
  BY GateAssumption DEF IInv, TypeOK, CountInv, PhaseInv, HandedInv, HandlerPC, OwnerPC, Handed,
       Instances
<1>6. TrackInv'
  BY SockFacts, GateAssumption DEF IInv, TypeOK, PhaseInv, HolderInv, HandedInv, TrackInv,
       Handed
<1>7. RideInv'
  BY SockFacts, GateAssumption DEF IInv, TypeOK, PhaseInv, HandedInv, TrackInv, RideInv, Handed,
       MayBeOpen, Instances, OwnerPC
<1> QED BY <1>1, <1>2, <1>3, <1>4, <1>5, <1>6, <1>7 DEF IInv

\* IInv is inductive: every step of every goroutine keeps it.
LEMMA NextIInv == IInv /\ [Next]_vars => IInv'
<1> SUFFICES ASSUME IInv, [Next]_vars PROVE IInv' OBVIOUS
<1>1. ASSUME NEW c \in Conn, Accept(c) \/ RelayEnd(c) \/ Handler(c) PROVE IInv'
  BY <1>1, AcceptStep, TrackConnStep, CountStep, EnsureWarmStep, EnsureStartStep,
       EnsureFailStep, BindConnStep, DialStep, DialFailStep, BindUpstreamStep, RelayEndStep,
       DropUpstreamStep, UncountStep, ForgetConnStep DEF Handler
<1>2. ASSUME RecycleSwap \/ CloseMark \/ OwnerStep PROVE IInv'
  BY <1>2, RecycleSwapStep, RecycleScanStep, CloseMarkStep, CloseBridgesStep, CloseDrainStep,
       CutSocketStep, CutDoneStep, CloseOwnedStep DEF OwnerStep
<1>3. CASE Sweep
  BY <1>3, SweepCheckStep, SweepTakeStep, SweepCloseStep DEF Sweep
<1>4. CASE UNCHANGED vars
  BY <1>4 DEF vars, gateVars, connVars, handlerVars, ownerVars, sweepVars, IInv, TypeOK,
       CountInv, PhaseInv, HolderInv, HandedInv, TrackInv, RideInv, MayBeOpen
<1> QED BY <1>1, <1>2, <1>3, <1>4 DEF Next, Done

\* The invariant holds in every reachable state.
LEMMA GateInvariant == Spec => []IInv
  BY InitIInv, NextIInv, PTL DEF Spec

\* Every variable keeps its type.
THEOREM TypeCorrect == Spec => []TypeOK
<1>1. IInv => TypeOK BY DEF IInv
<1> QED BY <1>1, GateInvariant, PTL

\* The sweeper takes no instance from under a counted connection.
THEOREM HandoutCurrent == Spec => []HandoutIsCurrent
<1>1. IInv => HandoutIsCurrent BY DEF IInv, HandedInv, Handed, HandoutIsCurrent
<1> QED BY <1>1, GateInvariant, PTL

\* An instance that is up always has somebody who will close it.
THEOREM NoLeak == Spec => []NoInstanceLeak
<1>1. IInv => NoInstanceLeak BY DEF IInv, HolderInv, NoInstanceLeak
<1> QED BY <1>1, GateInvariant, PTL

\* A relay left open rides the running instance it was handed.
THEOREM RelaysRide == Spec => []RelaysRideTheirInstance
<1>1. IInv => RelaysRideTheirInstance
  BY GateAssumption DEF IInv, TypeOK, PhaseInv, HolderInv, HandedInv, RideInv, MayBeOpen, Handed, Instances,
     RelaysRideTheirInstance
<1> QED BY <1>1, GateInvariant, PTL

\* After Close has returned nothing is relayed, and only the sweeper can hold an instance.
THEOREM ClosedIsDown == Spec => []ClosedGateIsDown
<1>1. IInv => ClosedGateIsDown
  BY GateAssumption DEF IInv, TypeOK, PhaseInv, HolderInv, RideInv, MayBeOpen, Instances, ClosedGateIsDown
<1> QED BY <1>1, GateInvariant, PTL

\* Nothing outlives the gate: no instance is up without someone to close it, and a closed
\* gate relays nothing.
THEOREM Outlived == Spec => []NothingOutlives
<1>1. NoInstanceLeak /\ ClosedGateIsDown => NothingOutlives BY DEF NothingOutlives
<1> QED BY <1>1, NoLeak, ClosedIsDown, PTL
=============================================================================
