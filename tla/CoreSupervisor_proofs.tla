------------------------ MODULE CoreSupervisor_proofs ------------------------
(***************************************************************************)
(* Proofs for CoreSupervisor: what the supervisor shows is real and what   *)
(* nobody wants stays away, for every set of profiles, every limit, any    *)
(* number of cores and of requests.                                        *)
(***************************************************************************)
EXTENDS CoreSupervisor, SequenceTheorems, TLAPS

\* The types, n being the bound on the generations.
StateType == {"NotStarted", "Starting", "Connected", "Backoff", "GaveUp", "ListenFailed", "ShuttingDown"}
MainType(n) ==
  [state : StateType, startWhenUp : ProfileOrNone, probing : BOOLEAN,
   failures : Nat, startFailures : Nat, handledExitGen : 0 .. n, acceptedGen : 0 .. n,
   connectGen : 0 .. n, timedOutGen : 0 .. n, restartTimer : BOOLEAN,
   connectTimer : BOOLEAN, crashTimer : BOOLEAN]
ProcType(n) ==
  [st : Alive \union {"absent", "none"}, gen : 0 .. n, pid : 0 .. n, expected : 0 .. n, dialed : BOOLEAN]
SettingsType ==
  [startedId : ProfileOrNone, coreRunning : BOOLEAN, prepareExit : BOOLEAN, identityUnsupported : BOOLEAN]
TaskType(n) ==
  [op : {"create", "restart", "reset", "expectKill", "kill", "exitKill"}, gen : 0 .. n,
   stop : {"no", "auto", "manual"}]
PostType(n) ==
  [ev : {"spawned", "exited", "deadRestart"}, gen : 0 .. n, failed : BOOLEAN, code : {"identity", "other"}]
FrameType(n) ==
  [op : {"none", "exit", "failed", "restart", "reset"}, gen : 0 .. n, code : {"identity", "other"},
   manual : BOOLEAN]
StartType(n) == [id : ProfileOrNone, pid : 0 .. n]
AskedType == {"boot", "start", "stop", "reset", "declined"}

TypeInv ==
  /\ setup \in Setup /\ m \in MainType(setup.gens) /\ proc \in ProcType(setup.gens)
  /\ settings \in SettingsType
  /\ cores \in Seq(TaskType(setup.gens)) /\ posts \in Seq(PostType(setup.gens))
  /\ blocked \in FrameType(setup.gens) /\ stopper \in {"nobody", "frame", "user", "exit"}
  /\ running \in ProfileOrNone /\ starting \in StartType(setup.gens)
  /\ sock \in 0 .. setup.gens /\ probe \subseteq 0 .. setup.gens
  /\ down \in {"no", "killing", "closed"} /\ asked \in AskedType /\ carried \in ProfileOrNone

\* The generations and the process ids: what dialed, was accepted or is started over is never
\* newer than the process, and a process that is only starting has neither dialed nor been accepted.
GenInv ==
  /\ m.acceptedGen <= proc.gen /\ proc.pid <= proc.gen
  /\ sock <= proc.pid /\ starting.pid <= proc.pid
  /\ proc.st = "starting" => sock < proc.pid /\ m.acceptedGen < proc.gen
  /\ proc.st = "absent" => proc.gen = 0

\* The first core is created once, before anything else happens on DS_cores, and the last kill is
\* queued only by the exit.
TaskInv ==
  \A i \in 1 .. Len(cores) :
    /\ cores[i].op = "create" => i = 1 /\ proc.st = "absent" /\ stopper # "frame"
    /\ cores[i].op = "exitKill" => settings.prepareExit

\* A frame that waits holds mu_stopping.
FrameInv == stopper = "frame" <=> blocked.op # "none"

\* Before start() nothing has happened.
StartInv ==
  m.state = "NotStarted" => cores = << >> /\ stopper = "nobody" /\ proc.st = "absent" /\ asked = "boot"

\* After a stop or a decline there is nothing left from which a profile could be resumed.
SayInv ==
  asked \in {"stop", "declined"} =>
    carried = None /\ m.startWhenUp = None /\ settings.startedId = None /\ ~StartIsLive

\* The exit of the accepted core is not handled yet, and it has not happened or will be reported.
Reported(g) == \E i \in 1 .. Len(posts) : posts[i].ev = "exited" /\ posts[i].gen = g
ConnInv ==
  m.state = "Connected" /\ ~settings.prepareExit =>
    /\ m.handledExitGen < m.acceptedGen
    /\ \/ proc.gen = m.acceptedGen /\ proc.st \in Alive
       \/ blocked.op = "exit" /\ blocked.gen = m.acceptedGen
       \/ Reported(m.acceptedGen)
       \/ m.acceptedGen < proc.gen

\* The inductive invariant.
IInv == TypeInv /\ GenInv /\ TaskInv /\ FrameInv /\ StartInv /\ SayInv /\ ConnInv

-----------------------------------------------------------------------------
(* The operators. *)

\* Absent values and constructors have their types.
LEMMA Constructors ==
  ASSUME NEW n \in Nat
  PROVE  /\ NoStart \in StartType(n) /\ NoFrame \in FrameType(n) /\ NoFrame.op = "none"
         /\ \A g \in 0 .. n : Spawned(g) \in PostType(n) /\ Spawned(g).ev = "spawned"
         /\ DeadRestart \in PostType(n) /\ DeadRestart.ev = "deadRestart"
<1>1. None \in ProfileOrNone
  BY DEF ProfileOrNone
<1> QED BY <1>1 DEF NoStart, NoFrame, Spawned, DeadRestart, StartType, FrameType, PostType

\* A task of DS_cores.
LEMMA TaskOk ==
  ASSUME NEW n \in Nat, NEW o \in {"create", "restart", "reset", "expectKill", "kill", "exitKill"},
         NEW g \in 0 .. n, NEW s \in {"no", "auto", "manual"}
  PROVE  Task(o, g, s) \in TaskType(n) /\ Task(o, g, s).op = o
  BY DEF Task, TaskType

\* The larger one.
LEMMA MaxOk ==
  ASSUME NEW n \in Nat, NEW a \in 0 .. n, NEW b \in 0 .. n
  PROVE  Max(a, b) \in 0 .. n /\ a <= Max(a, b) /\ b <= Max(a, b) /\ (a <= b => Max(a, b) = b)
  BY DEF Max

\* What beginRestart() does to the fields.
LEMMA BeginRestartOk ==
  ASSUME NEW n \in Nat, NEW s \in MainType(n)
  PROVE  /\ BeginRestart(s) \in MainType(n) /\ BeginRestart(s).state = "Starting"
         /\ BeginRestart(s).startWhenUp = s.startWhenUp
         /\ BeginRestart(s).acceptedGen = s.acceptedGen
         /\ BeginRestart(s).handledExitGen = s.handledExitGen
  BY DEF BeginRestart, MainType, StateType

\* What scheduleRestart() does to the fields.
LEMMA ScheduleRestartOk ==
  ASSUME NEW n \in Nat, NEW s \in MainType(n)
  PROVE  /\ ScheduleRestart(s) \in MainType(n) /\ ScheduleRestart(s).state = "Backoff"
         /\ ScheduleRestart(s).startWhenUp = s.startWhenUp
         /\ ScheduleRestart(s).acceptedGen = s.acceptedGen
  BY DEF ScheduleRestart, MainType, StateType

\* A start that waits is one field.
LEMMA WaitingOk ==
  ASSUME NEW n \in Nat, NEW s \in MainType(n), NEW p \in ProfileOrNone
  PROVE  /\ [s EXCEPT !.startWhenUp = p] \in MainType(n)
         /\ [s EXCEPT !.startWhenUp = p].startWhenUp = p
         /\ [s EXCEPT !.startWhenUp = p].state = s.state
         /\ [s EXCEPT !.startWhenUp = p].acceptedGen = s.acceptedGen
         /\ [s EXCEPT !.startWhenUp = p].handledExitGen = s.handledExitGen
  BY DEF MainType

\* The started profile is one field.
LEMMA StartedOk ==
  ASSUME NEW s \in SettingsType, NEW p \in ProfileOrNone
  PROVE  /\ [s EXCEPT !.startedId = p] \in SettingsType
         /\ [s EXCEPT !.startedId = p].startedId = p
         /\ [s EXCEPT !.startedId = p].prepareExit <=> s.prepareExit
         /\ [s EXCEPT !.startedId = p].coreRunning <=> s.coreRunning
  BY DEF SettingsType

\* A queue that grows at its end.
LEMMA Grows ==
  ASSUME NEW S, NEW q \in Seq(S), NEW x \in S
  PROVE  /\ Append(q, x) \in Seq(S) /\ Len(q) \in Nat /\ Len(Append(q, x)) = Len(q) + 1
         /\ \A i \in 1 .. Len(q) : Append(q, x)[i] = q[i] /\ q[i] \in S
         /\ Append(q, x)[Len(q) + 1] = x
  BY AppendProperties, LenProperties, ElementOfSeq

\* A queue whose head is taken.
LEMMA Shrinks ==
  ASSUME NEW S, NEW q \in Seq(S), q # << >>
  PROVE  /\ Head(q) \in S /\ Tail(q) \in Seq(S) /\ Len(q) \in Nat /\ Len(q) >= 1 /\ Head(q) = q[1]
         /\ Len(Tail(q)) = Len(q) - 1
         /\ \A i \in 1 .. Len(Tail(q)) : Tail(q)[i] = q[i + 1]
<1>1. Len(q) \in Nat /\ Len(q) >= 1
  BY LenProperties, EmptySeq
<1>2. Head(q) \in S /\ Tail(q) \in Seq(S) /\ Len(Tail(q)) = Len(q) - 1
      /\ \A i \in 1 .. Len(Tail(q)) : Tail(q)[i] = q[i + 1]
  BY HeadTailProperties
<1> QED BY <1>1, <1>2

-----------------------------------------------------------------------------
(* Steps of the main thread: the process stays as it is. *)

\* At most one task is queued; the first core's only before everything else.
Queues ==
  \/ cores' = cores
  \/ \E t \in TaskType(setup.gens) :
       /\ cores' = Append(cores, t)
       /\ t.op = "create" => m.state = "NotStarted"
       /\ t.op = "exitKill" => settings'.prepareExit
\* At most one report is taken or added; that of the accepted core is not ignored.
Reads ==
  \/ posts' = posts
  \/ \E e \in PostType(setup.gens) : posts' = Append(posts, e)
  \/ /\ posts # << >> /\ posts' = Tail(posts)
     /\ m'.state = "Connected" /\ ~settings'.prepareExit =>
          Head(posts).ev # "exited" \/ Head(posts).gen # m.acceptedGen
\* Connected is entered by an accept, and stays as it was otherwise.
Accepts == proc.st \in Alive \ {"starting"} /\ m'.acceptedGen = proc.gen
Connects ==
  /\ m'.acceptedGen # m.acceptedGen => Accepts
  /\ m'.state = "Connected" /\ ~settings'.prepareExit =>
       \/ m.state = "Connected" /\ m'.acceptedGen = m.acceptedGen /\ m'.handledExitGen = m.handledExitGen
       \/ Accepts /\ m'.handledExitGen < m'.acceptedGen

\* Whatever the main thread does in these limits keeps the invariant.
LEMMA MainSide ==
  ASSUME IInv, TypeInv', setup'.gens = setup.gens, UNCHANGED <<proc, blocked>>,
         sock' \in {0, sock}, starting'.pid \in {0, starting.pid, proc.pid},
         Queues, Reads, Connects,
         (stopper' = "frame") <=> (stopper = "frame"), settings.prepareExit => settings'.prepareExit,
         m'.state = "NotStarted" => m.state = "NotStarted" /\ UNCHANGED <<cores, stopper, asked>>, SayInv'
  PROVE  IInv'
<1> DEFINE n == setup.gens
<1>1. /\ n \in Nat /\ proc \in ProcType(n) /\ m \in MainType(n) /\ m' \in MainType(n)
      /\ cores \in Seq(TaskType(n)) /\ posts \in Seq(PostType(n)) /\ starting \in StartType(n)
      /\ sock \in 0 .. n
  BY DEF IInv, TypeInv, Setup
<1>2. /\ proc.gen \in Nat /\ proc.pid \in Nat /\ m.acceptedGen \in Nat /\ m'.acceptedGen \in Nat
      /\ starting.pid \in Nat /\ sock \in Nat /\ m.handledExitGen \in Nat
  BY <1>1 DEF ProcType, MainType, StartType
<1> HIDE DEF n
<1>3. GenInv'
  <2>1. m'.acceptedGen <= proc.gen /\ (proc.st = "starting" => m'.acceptedGen < proc.gen)
    BY <1>2 DEF IInv, GenInv, Connects, Accepts
  <2>2. sock' <= proc.pid /\ (proc.st = "starting" => sock' < proc.pid)
    BY <1>2 DEF IInv, GenInv
  <2>3. starting'.pid <= proc.pid
    BY <1>2 DEF IInv, GenInv
  <2> QED BY <2>1, <2>2, <2>3 DEF IInv, GenInv
<1>4. TaskInv'
  <2>1. CASE cores' = cores
    BY <2>1 DEF IInv, TaskInv
  <2>2. ASSUME NEW t \in TaskType(n), cores' = Append(cores, t),
               t.op = "create" => m.state = "NotStarted", t.op = "exitKill" => settings'.prepareExit
        PROVE  TaskInv'
    <3>1. /\ Len(cores) \in Nat /\ Len(cores') = Len(cores) + 1 /\ cores'[Len(cores) + 1] = t
          /\ \A i \in 1 .. Len(cores) : cores'[i] = cores[i]
      BY <1>1, <2>2, Grows
    <3>2. ASSUME t.op = "create" PROVE Len(cores) = 0 /\ proc.st = "absent" /\ stopper # "frame"
      BY <2>2, <3>2, EmptySeq DEF IInv, StartInv
    <3> QED BY <2>2, <3>1, <3>2 DEF IInv, TaskInv
  <2> QED BY <2>1, <2>2 DEF Queues, n
<1>5. FrameInv' /\ StartInv'
  BY DEF IInv, FrameInv, StartInv
<1>6. ConnInv'
  <2> SUFFICES ASSUME m'.state = "Connected", ~settings'.prepareExit
               PROVE  /\ m'.handledExitGen < m'.acceptedGen
                      /\ \/ proc.gen = m'.acceptedGen /\ proc.st \in Alive
                         \/ blocked.op = "exit" /\ blocked.gen = m'.acceptedGen
                         \/ Reported(m.acceptedGen)' /\ m'.acceptedGen = m.acceptedGen
                         \/ m'.acceptedGen < proc.gen
    BY DEF ConnInv, Reported
  <2>1. CASE Accepts /\ m'.handledExitGen < m'.acceptedGen
    BY <2>1 DEF Accepts
  <2>2. CASE m.state = "Connected" /\ m'.acceptedGen = m.acceptedGen /\ m'.handledExitGen = m.handledExitGen
    <3>1. /\ m.handledExitGen < m.acceptedGen
          /\ \/ proc.gen = m.acceptedGen /\ proc.st \in Alive
             \/ blocked.op = "exit" /\ blocked.gen = m.acceptedGen
             \/ Reported(m.acceptedGen)
             \/ m.acceptedGen < proc.gen
      BY <2>2 DEF IInv, ConnInv
    <3>2. ASSUME NEW i \in 1 .. Len(posts), posts[i].ev = "exited", posts[i].gen = m.acceptedGen
          PROVE  \E j \in 1 .. Len(posts') : posts'[j].ev = "exited" /\ posts'[j].gen = m.acceptedGen
      <4>1. CASE posts' = posts
        BY <3>2, <4>1
      <4>2. ASSUME NEW e \in PostType(n), posts' = Append(posts, e) PROVE i \in 1 .. Len(posts') /\ posts'[i] = posts[i]
        BY <1>1, <3>2, <4>2, Grows
      <4>3. ASSUME posts # << >>, posts' = Tail(posts),
                   Head(posts).ev # "exited" \/ Head(posts).gen # m.acceptedGen
            PROVE  i - 1 \in 1 .. Len(posts') /\ posts'[i - 1] = posts[i]
        BY <1>1, <3>2, <4>3, Shrinks
      <4> QED BY <3>2, <4>1, <4>2, <4>3 DEF Reads, n
    <3>3. Reported(m.acceptedGen) => \E j \in 1 .. Len(posts') : posts'[j].ev = "exited" /\ posts'[j].gen = m.acceptedGen
      BY <3>2 DEF Reported
    <3> QED BY <2>2, <3>1, <3>3 DEF Reported
  <2> QED BY <2>1, <2>2 DEF Connects
<1> QED BY <1>3, <1>4, <1>5, <1>6 DEF IInv

\* The types of an invariant state, and the numbers among them.
LEMMA Facts ==
  ASSUME IInv
  PROVE  /\ setup \in Setup /\ setup.gens \in Nat /\ m \in MainType(setup.gens) /\ proc \in ProcType(setup.gens)
         /\ settings \in SettingsType /\ cores \in Seq(TaskType(setup.gens))
         /\ posts \in Seq(PostType(setup.gens)) /\ blocked \in FrameType(setup.gens)
         /\ starting \in StartType(setup.gens) /\ running \in ProfileOrNone /\ carried \in ProfileOrNone
         /\ proc.gen \in 0 .. setup.gens /\ proc.pid \in 0 .. setup.gens
         /\ m.acceptedGen \in 0 .. setup.gens /\ m.handledExitGen \in 0 .. setup.gens
         /\ m.startWhenUp \in ProfileOrNone /\ settings.startedId \in ProfileOrNone
         /\ None \in ProfileOrNone /\ NoStart \in StartType(setup.gens)
         /\ m.acceptedGen <= proc.gen /\ starting.pid \in 0 .. setup.gens /\ starting.id \in ProfileOrNone
<1>1. /\ setup \in Setup /\ setup.gens \in Nat /\ m \in MainType(setup.gens) /\ proc \in ProcType(setup.gens)
      /\ settings \in SettingsType /\ cores \in Seq(TaskType(setup.gens))
      /\ posts \in Seq(PostType(setup.gens)) /\ blocked \in FrameType(setup.gens)
      /\ starting \in StartType(setup.gens) /\ running \in ProfileOrNone /\ carried \in ProfileOrNone
      /\ m.acceptedGen <= proc.gen
  BY DEF IInv, TypeInv, GenInv, Setup
<1>2. proc.gen \in 0 .. setup.gens /\ proc.pid \in 0 .. setup.gens
  BY <1>1 DEF ProcType
<1>3. /\ m.acceptedGen \in 0 .. setup.gens /\ m.handledExitGen \in 0 .. setup.gens
      /\ m.startWhenUp \in ProfileOrNone
  BY <1>1 DEF MainType
<1>4. settings.startedId \in ProfileOrNone /\ None \in ProfileOrNone
  BY <1>1 DEF SettingsType, ProfileOrNone
<1>5. NoStart \in StartType(setup.gens) /\ starting.pid \in 0 .. setup.gens /\ starting.id \in ProfileOrNone
  BY <1>1, Constructors DEF StartType
<1> QED BY <1>1, <1>2, <1>3, <1>4, <1>5

\* One task is queued, other than the first and the last.
LEMMA QueueOne ==
  ASSUME IInv, NEW t \in TaskType(setup.gens), cores' = Append(cores, t), t.op \notin {"create", "exitKill"}
  PROVE  cores' \in Seq(TaskType(setup.gens)) /\ Queues
<1>1. cores \in Seq(TaskType(setup.gens))
  BY Facts
<1>2. cores' \in Seq(TaskType(setup.gens))
  BY <1>1, Grows
<1> QED BY <1>2 DEF Queues

\* A restart is queued, and the exit of the core it replaces counts as handled.
LEMMA PostProcessRestartOk ==
  ASSUME IInv, NEW s \in MainType(setup.gens), NEW b \in {"no", "auto", "manual"}, PostProcessRestart(s, b)
  PROVE  /\ m' \in MainType(setup.gens) /\ m'.state = s.state /\ m'.startWhenUp = s.startWhenUp
         /\ m'.acceptedGen = s.acceptedGen
         /\ cores' \in Seq(TaskType(setup.gens)) /\ Queues
<1> DEFINE n == setup.gens
<1>1. n \in Nat /\ proc.gen \in 0 .. n /\ cores \in Seq(TaskType(n))
  BY Facts
<1> HIDE DEF n
<1>2. m' = [s EXCEPT !.handledExitGen = Max(s.handledExitGen, proc.gen)] /\ s \in MainType(n)
  BY DEF PostProcessRestart, n
<1>3. Max(s.handledExitGen, proc.gen) \in 0 .. n
  BY <1>1, <1>2, MaxOk DEF MainType
<1>4. /\ m' \in MainType(n) /\ m'.state = s.state /\ m'.startWhenUp = s.startWhenUp
      /\ m'.acceptedGen = s.acceptedGen
  BY <1>2, <1>3 DEF MainType
<1>5. PICK t \in TaskType(n) : t = Task("restart", 0, b) /\ t.op = "restart"
  BY <1>1, TaskOk
<1>6. cores' = Append(cores, t) /\ cores' \in Seq(TaskType(n))
  BY <1>1, <1>5, Grows DEF PostProcessRestart
<1>7. Queues
  BY <1>5, <1>6 DEF Queues, n
<1> QED BY <1>4, <1>6, <1>7 DEF n

\* The accept.
LEMMA NewConnectionKeeps == ASSUME IInv, onNewConnection PROVE IInv'
<1> DEFINE n == setup.gens
           a == Max(m.acceptedGen, proc.gen)
<1>1. /\ n \in Nat /\ m \in MainType(n) /\ settings \in SettingsType /\ proc \in ProcType(n)
      /\ m.acceptedGen \in 0 .. n /\ proc.gen \in 0 .. n
      /\ m.acceptedGen <= proc.gen /\ sock \in 0 .. n /\ probe \subseteq 0 .. n
      /\ m.handledExitGen \in 0 .. n
  BY Facts DEF IInv, TypeInv
<1>2. a \in 0 .. n /\ a = proc.gen
  BY <1>1, MaxOk
<1>3. /\ sock # 0 /\ sock' = 0 /\ UNCHANGED <<proc, cores, posts, blocked, conn, down, hist>>
  BY DEF onNewConnection
<1>5. CASE UNCHANGED <<m, settings, probe>>
  BY <1>1, <1>3, <1>5, MainSide DEF IInv, TypeInv, conn, hist, Queues, Reads, Connects, SayInv, StartIsLive
<1>6. CASE /\ proc.st \in Alive /\ sock = proc.pid /\ m.handledExitGen < proc.gen
           /\ settings' = [settings EXCEPT !.coreRunning = TRUE]
           /\ \/ UNCHANGED <<m, probe>> /\ Exiting
              \/ /\ m' = [m EXCEPT !.acceptedGen = a, !.connectTimer = FALSE, !.state = "Connected", !.probing = TRUE]
                 /\ probe' = probe \union {a}
  <2>1. /\ settings' \in SettingsType /\ settings'.startedId = settings.startedId
        /\ settings'.prepareExit <=> settings.prepareExit
    BY <1>1, <1>6 DEF SettingsType
  <2>2. proc.st # "starting"
    BY <1>1, <1>6 DEF IInv, GenInv, ProcType
  <2>3. CASE UNCHANGED <<m, probe>> /\ Exiting
    <3>1. TypeInv'
      BY <1>1, <1>3, <2>1, <2>3 DEF IInv, TypeInv, conn, hist
    <3>2. SayInv' /\ Connects /\ Queues /\ Reads
      BY <1>3, <2>1, <2>3 DEF IInv, SayInv, StartIsLive, conn, hist, Connects, Queues, Reads
    <3> QED BY <1>3, <2>1, <2>3, <3>1, <3>2, MainSide DEF conn, hist
  <2>4. CASE /\ m' = [m EXCEPT !.acceptedGen = a, !.connectTimer = FALSE, !.state = "Connected", !.probing = TRUE]
             /\ probe' = probe \union {a}
    <3>1. /\ m' \in MainType(n) /\ m'.acceptedGen = a /\ m'.state = "Connected"
          /\ m'.startWhenUp = m.startWhenUp /\ m'.handledExitGen = m.handledExitGen
      BY <1>1, <1>2, <2>4 DEF MainType, StateType
    <3>2. TypeInv'
      BY <1>1, <1>2, <1>3, <2>1, <2>4, <3>1 DEF IInv, TypeInv, conn, hist
    <3>3. SayInv' /\ Queues /\ Reads
      BY <1>3, <2>1, <3>1 DEF IInv, SayInv, StartIsLive, conn, hist, Queues, Reads
    <3>4. Connects
      BY <1>1, <1>2, <1>6, <2>2, <3>1 DEF Connects, Accepts
    <3> QED BY <1>3, <2>1, <3>1, <3>2, <3>3, <3>4, MainSide DEF conn, hist
  <2> QED BY <1>6, <2>3, <2>4
<1> QED BY <1>1, <1>3, <1>5, <1>6 DEF onNewConnection

\* The answer of the privilege probe.
LEMMA PrivilegeProbedKeeps == ASSUME IInv, onPrivilegeProbed PROVE IInv'
<1> DEFINE n == setup.gens
<1>1. /\ n \in Nat /\ m \in MainType(n) /\ settings \in SettingsType /\ proc \in ProcType(n)
      /\ probe \subseteq 0 .. n /\ starting \in StartType(n) /\ proc.pid \in 0 .. n
      /\ m.startWhenUp \in ProfileOrNone /\ None \in ProfileOrNone
  BY Facts DEF IInv, TypeInv
<1>2. PICK g \in probe :
        /\ probe' = probe \ {g}
        /\ UNCHANGED <<proc, settings, cores, posts, blocked, stopper, running, sock, down, asked, setup>>
        /\ \/ UNCHANGED <<m, starting, carried>>
           \/ /\ m.state = "Connected"
              /\ m' = [m EXCEPT !.probing = FALSE, !.startFailures = 0, !.startWhenUp = None]
              /\ IF m.startWhenUp # None
                 THEN /\ carried' = m.startWhenUp
                      /\ starting' \in {starting, [id |-> m.startWhenUp, pid |-> proc.pid]}
                 ELSE UNCHANGED <<starting, carried>>
  BY Zenon DEF onPrivilegeProbed
<1>3. CASE UNCHANGED <<m, starting, carried>>
  <2>1. TypeInv'
    BY <1>1, <1>2, <1>3 DEF IInv, TypeInv
  <2>2. SayInv' /\ Connects /\ Queues /\ Reads
    BY <1>2, <1>3 DEF IInv, SayInv, StartIsLive, Connects, Queues, Reads
  <2> QED BY <1>2, <1>3, <2>1, <2>2, MainSide
<1>4. CASE /\ m.state = "Connected"
           /\ m' = [m EXCEPT !.probing = FALSE, !.startFailures = 0, !.startWhenUp = None]
           /\ IF m.startWhenUp # None
              THEN /\ carried' = m.startWhenUp
                   /\ starting' \in {starting, [id |-> m.startWhenUp, pid |-> proc.pid]}
              ELSE UNCHANGED <<starting, carried>>
  <2>1. /\ m' \in MainType(n) /\ m'.state = m.state /\ m'.acceptedGen = m.acceptedGen
        /\ m'.handledExitGen = m.handledExitGen /\ m'.startWhenUp = None
    BY <1>1, <1>4 DEF MainType
  <2>2. /\ [id |-> m.startWhenUp, pid |-> proc.pid] \in StartType(n)
        /\ [id |-> m.startWhenUp, pid |-> proc.pid].pid = proc.pid
    BY <1>1 DEF StartType
  <2>3. /\ starting' \in StartType(n) /\ carried' \in ProfileOrNone
        /\ starting'.pid \in {starting.pid, proc.pid}
    BY <1>1, <1>4, <2>2 DEF IInv, TypeInv
  <2>4. TypeInv'
    BY <1>1, <1>2, <2>1, <2>3 DEF IInv, TypeInv
  <2>5. SayInv'
    BY <1>2, <1>4, <2>1 DEF IInv, SayInv, StartIsLive
  <2>6. Connects /\ Queues /\ Reads
    BY <1>2, <1>4, <2>1 DEF Connects, Queues, Reads
  <2> QED BY <1>2, <1>4, <2>1, <2>3, <2>4, <2>5, <2>6, MainSide
<1> QED BY <1>2, <1>3, <1>4

\* The connect timer is set for a spawned core.
LEMMA CoreSpawnedKeeps == ASSUME IInv, onCoreSpawned PROVE IInv'
<1> DEFINE n == setup.gens
<1>1. n \in Nat /\ m \in MainType(n) /\ posts \in Seq(PostType(n)) /\ posts # << >> /\ Head(posts).ev = "spawned"
  BY Facts DEF onCoreSpawned
<1>2. Head(posts) \in PostType(n) /\ Tail(posts) \in Seq(PostType(n))
  BY <1>1, Shrinks
<1>3. /\ posts' = Tail(posts)
      /\ UNCHANGED <<proc, settings, cores, blocked, conn, sock, probe, down, hist>>
      /\ m' = m \/ m' = [m EXCEPT !.connectGen = Head(posts).gen, !.connectTimer = TRUE]
  BY DEF onCoreSpawned, WatchConnect
<1>4. Head(posts).gen \in 0 .. n
  BY <1>2 DEF PostType
<1>5. /\ m' \in MainType(n) /\ m'.state = m.state /\ m'.acceptedGen = m.acceptedGen
      /\ m'.handledExitGen = m.handledExitGen /\ m'.startWhenUp = m.startWhenUp
  BY <1>1, <1>3, <1>4 DEF MainType
<1> HIDE DEF n
<1>6. TypeInv'
  BY <1>2, <1>3, <1>5 DEF IInv, TypeInv, conn, hist, n
<1>7. SayInv' /\ Connects /\ Queues /\ Reads
  BY <1>1, <1>3, <1>5 DEF IInv, SayInv, StartIsLive, Connects, Queues, Reads, conn, hist
<1> QED BY <1>3, <1>5, <1>6, <1>7, MainSide DEF conn, hist

\* The connect timer.
LEMMA ConnectTimeoutKeeps == ASSUME IInv, onConnectTimeout PROVE IInv'
<1> DEFINE n == setup.gens
<1>1. n \in Nat /\ m \in MainType(n) /\ cores \in Seq(TaskType(n)) /\ m.connectGen \in 0 .. n
  BY Facts DEF MainType
<1>2. /\ UNCHANGED <<proc, settings, posts, blocked, conn, sock, probe, down, hist>>
      /\ \/ m' = [m EXCEPT !.connectTimer = FALSE] /\ cores' = cores
         \/ /\ m' = [m EXCEPT !.connectTimer = FALSE, !.timedOutGen = m.connectGen]
            /\ cores' = Append(cores, Task("kill", m.connectGen, "no"))
  BY <1>1 DEF onConnectTimeout, MainType
<1>3. /\ m' \in MainType(n) /\ m'.state = m.state /\ m'.acceptedGen = m.acceptedGen
      /\ m'.handledExitGen = m.handledExitGen /\ m'.startWhenUp = m.startWhenUp
  BY <1>1, <1>2 DEF MainType
<1>4. Task("kill", m.connectGen, "no") \in TaskType(n) /\ Task("kill", m.connectGen, "no").op = "kill"
  BY <1>1, TaskOk
<1>5. cores' \in Seq(TaskType(n)) /\ Queues
  <2>1. CASE cores' = cores
    BY <1>1, <2>1 DEF Queues
  <2>2. CASE cores' = Append(cores, Task("kill", m.connectGen, "no"))
    BY <1>4, <2>2, QueueOne
  <2> QED BY <1>2, <2>1, <2>2
<1>6. m'.state = "NotStarted" => cores' = cores
  BY <1>1, <1>3 DEF onConnectTimeout
<1> HIDE DEF n
<1>7. TypeInv'
  BY <1>2, <1>3, <1>5 DEF IInv, TypeInv, conn, hist, n
<1>8. SayInv' /\ Connects /\ Reads
  BY <1>2, <1>3 DEF IInv, SayInv, StartIsLive, Connects, Reads, conn, hist
<1> QED BY <1>2, <1>3, <1>5, <1>6, <1>7, <1>8, MainSide DEF conn, hist

\* The counts of an unexpected exit: the fields that the invariant is about.
LEMMA UnexpectedOk ==
  ASSUME IInv, NEW s \in MainType(setup.gens), NEW c \in BOOLEAN, NEW stable \in BOOLEAN, NEW soon \in BOOLEAN,
         Unexpected(s, c, stable, soon), s.startWhenUp = m.startWhenUp
  PROVE  /\ m' \in MainType(setup.gens) /\ m'.state \in {"GaveUp", "Backoff"} /\ m'.acceptedGen = s.acceptedGen
         /\ settings' \in SettingsType /\ (settings'.prepareExit <=> settings.prepareExit)
         /\ asked' \in AskedType /\ carried' \in ProfileOrNone
         /\ asked' \in {"stop", "declined"} =>
              \/ /\ asked' = asked /\ carried' = carried
                 /\ m'.startWhenUp \in {None, m.startWhenUp, settings.startedId}
                 /\ settings'.startedId \in {None, settings.startedId}
              \/ carried' = None /\ m'.startWhenUp = None /\ settings'.startedId = None /\ ~StartIsLive
<1> DEFINE n == setup.gens
           failures == IF stable THEN 1 ELSE s.failures + 1
           startFailures == s.startFailures + (IF c THEN 0 ELSE 1)
           tooFrequent == c /\ s.crashTimer /\ soon
           declined == tooFrequent /\ settings.startedId # None
           next == IF declined THEN None ELSE Resumes(s, c)
           giveUp == \/ failures >= GiveUpAfter /\ next = None
                     \/ ~c /\ startFailures >= GiveUpAfter
           crash == (s.crashTimer \/ c) /\ ~tooFrequent
           waits == IF giveUp THEN None ELSE next
           counted == [s EXCEPT !.failures = failures, !.startFailures = startFailures,
                                !.crashTimer = crash, !.startWhenUp = waits]
<1>1. /\ n \in Nat /\ settings \in SettingsType /\ settings.startedId \in ProfileOrNone
      /\ None \in ProfileOrNone
      /\ s \in MainType(n) /\ s.startWhenUp \in ProfileOrNone /\ s.failures \in Nat /\ s.startFailures \in Nat
      /\ asked \in AskedType /\ carried \in ProfileOrNone
  BY Facts DEF MainType, IInv, TypeInv
<1>2. /\ m' = IF giveUp THEN [counted EXCEPT !.state = "GaveUp"] ELSE ScheduleRestart(counted)
      /\ settings' = IF declined \/ giveUp THEN DeclineResume(settings) ELSE settings
      /\ IF (declined \/ giveUp) /\ ~StartIsLive THEN asked' = "declined" /\ carried' = None
         ELSE UNCHANGED <<asked, carried>>
  BY Zenon DEF Unexpected
<1>3. failures \in Nat /\ startFailures \in Nat
  BY <1>1
<1>4. crash \in BOOLEAN
  BY Zenon
<1>5. /\ next \in {None, m.startWhenUp, settings.startedId} /\ next \in ProfileOrNone
      /\ declined => next = None
  BY <1>1 DEF Resumes
<1>6. /\ waits \in {None, m.startWhenUp, settings.startedId} /\ waits \in ProfileOrNone
      /\ declined \/ giveUp => waits = None
  BY <1>1, <1>5
<1> HIDE DEF failures, startFailures, crash, next, waits, declined, giveUp, n
<1>7. counted \in MainType(n) /\ counted.startWhenUp = waits /\ counted.acceptedGen = s.acceptedGen
  BY <1>1, <1>3, <1>4, <1>6 DEF MainType
<1> HIDE DEF counted
<1>8. /\ [counted EXCEPT !.state = "GaveUp"] \in MainType(n)
      /\ [counted EXCEPT !.state = "GaveUp"].state = "GaveUp"
      /\ [counted EXCEPT !.state = "GaveUp"].startWhenUp = waits
      /\ [counted EXCEPT !.state = "GaveUp"].acceptedGen = s.acceptedGen
  BY <1>7 DEF MainType, StateType
<1>9. m' \in MainType(n) /\ m'.state \in {"GaveUp", "Backoff"} /\ m'.startWhenUp = waits /\ m'.acceptedGen = s.acceptedGen
  BY <1>1, <1>2, <1>7, <1>8, ScheduleRestartOk
<1>10. /\ settings' \in SettingsType /\ (settings'.prepareExit <=> settings.prepareExit)
       /\ settings'.startedId = IF declined \/ giveUp THEN None ELSE settings.startedId
  BY <1>1, <1>2, StartedOk DEF DeclineResume
<1>11. asked' \in AskedType /\ carried' \in ProfileOrNone
  BY <1>1, <1>2 DEF AskedType
<1>12. CASE (declined \/ giveUp) /\ ~StartIsLive
  BY <1>2, <1>6, <1>9, <1>10, <1>11, <1>12 DEF n
<1>13. CASE ~((declined \/ giveUp) /\ ~StartIsLive)
  BY <1>2, <1>6, <1>9, <1>10, <1>11, <1>13 DEF n
<1> QED BY <1>12, <1>13

\* The report of an exit.
LEMMA CoreExitedKeeps == ASSUME IInv, onCoreExited PROVE IInv'
<1> DEFINE n == setup.gens
           e == Head(posts)
           wasProbing == m.probing /\ e.gen = m.acceptedGen
           still == m.probing /\ ~wasProbing
           s == [m EXCEPT !.handledExitGen = e.gen, !.probing = still]
           quiet == [s EXCEPT !.connectTimer = FALSE]
           wasConnected == ~e.failed /\ e.gen = m.acceptedGen /\ ~wasProbing
<1>1. /\ n \in Nat /\ m \in MainType(n) /\ posts \in Seq(PostType(n)) /\ posts # << >>
      /\ settings \in SettingsType
      /\ m.handledExitGen \in 0 .. n /\ m.acceptedGen \in 0 .. n /\ settings.startedId \in ProfileOrNone
      /\ m.startWhenUp \in ProfileOrNone
  BY Facts DEF onCoreExited
<1>2. e \in PostType(n) /\ Tail(posts) \in Seq(PostType(n))
  BY <1>1, Shrinks
<1>3. e.gen \in 0 .. n
  BY <1>2 DEF PostType
<1>4. still \in BOOLEAN /\ wasConnected \in BOOLEAN
  BY Zenon
<1>5. /\ posts' = Tail(posts) /\ UNCHANGED <<proc, cores, blocked, conn, sock, probe, down, setup>>
      /\ IF e.gen <= m.handledExitGen THEN UNCHANGED <<m, settings, asked, carried>>
         ELSE IF Exiting THEN m' = s /\ UNCHANGED <<settings, asked, carried>>
         ELSE IF proc.expected = e.gen
         THEN /\ m' = ScheduleRestart([quiet EXCEPT !.failures = 0, !.startFailures = 0,
                                                    !.startWhenUp = ExpectedResumes(s, wasProbing)])
              /\ UNCHANGED <<settings, asked, carried>>
         ELSE IF ~wasConnected /\ e.code = "identity" /\ ~settings.identityUnsupported
         THEN /\ m' = ScheduleRestart(quiet)
              /\ settings' = [settings EXCEPT !.identityUnsupported = TRUE]
              /\ UNCHANGED <<asked, carried>>
         ELSE \E stable, soon \in BOOLEAN :
                /\ stable => wasConnected
                /\ Unexpected(quiet, wasConnected, stable, soon)
  BY Zenon DEF onCoreExited
<1> HIDE DEF still, wasConnected, wasProbing
<1>6. /\ s \in MainType(n) /\ s.state = m.state /\ s.acceptedGen = m.acceptedGen
      /\ s.startWhenUp = m.startWhenUp
      /\ quiet \in MainType(n) /\ quiet.acceptedGen = m.acceptedGen /\ quiet.startWhenUp = m.startWhenUp
  BY <1>1, <1>3, <1>4 DEF MainType
<1> HIDE DEF s, quiet, e, n
<1> USE DEF conn
\* What each of the branches comes to.
<1> DEFINE Good == /\ m' \in MainType(n) /\ settings' \in SettingsType /\ asked' \in AskedType
                   /\ carried' \in ProfileOrNone /\ m'.acceptedGen = m.acceptedGen
                   /\ settings'.prepareExit <=> settings.prepareExit
                   /\ m'.state = "NotStarted" => m.state = "NotStarted" /\ asked' = asked
                   /\ m'.state = "Connected" /\ ~settings'.prepareExit => m' = m /\ e.gen <= m.handledExitGen
                   /\ SayInv'
<1>7. ASSUME Good PROVE IInv'
  <2>1. TypeInv'
    BY <1>2, <1>5, <1>7 DEF IInv, TypeInv, n
  <2>2. m'.state = "Connected" /\ ~settings'.prepareExit => e.gen # m.acceptedGen
    BY <1>1, <1>3, <1>7 DEF IInv, ConnInv
  <2>3. Queues /\ Reads /\ Connects
    BY <1>1, <1>5, <1>7, <2>2 DEF Queues, Reads, Connects, e
  <2> QED BY <1>5, <1>7, <2>1, <2>3, MainSide
<1>8. CASE UNCHANGED <<m, settings, asked, carried>> /\ e.gen <= m.handledExitGen
  <2>1. Good
    BY <1>1, <1>5, <1>8 DEF IInv, TypeInv, SayInv, StartIsLive, n
  <2> QED BY <1>7, <2>1
<1>9. CASE m' = s /\ UNCHANGED <<settings, asked, carried>> /\ Exiting
  <2>1. SayInv'
    BY <1>5, <1>6, <1>9 DEF IInv, SayInv, StartIsLive
  <2>2. m'.state = "Connected" /\ ~settings'.prepareExit => FALSE
    BY <1>6, <1>9 DEF Exiting
  <2>3. Good
    BY <1>1, <1>6, <1>9, <2>1, <2>2 DEF IInv, TypeInv, n
  <2> QED BY <1>7, <2>3
<1>10. CASE /\ m' = ScheduleRestart([quiet EXCEPT !.failures = 0, !.startFailures = 0,
                                                 !.startWhenUp = ExpectedResumes(s, wasProbing)])
            /\ UNCHANGED <<settings, asked, carried>>
  <2> DEFINE r == ExpectedResumes(s, wasProbing)
             q == [quiet EXCEPT !.failures = 0, !.startFailures = 0, !.startWhenUp = r]
  <2>1. r \in {m.startWhenUp, settings.startedId} /\ r \in ProfileOrNone
    BY <1>1, <1>6 DEF ExpectedResumes
  <2> HIDE DEF r
  <2>2. q \in MainType(n) /\ q.startWhenUp = r /\ q.acceptedGen = m.acceptedGen
    BY <1>6, <2>1 DEF MainType
  <2> HIDE DEF q
  <2>3. m' = ScheduleRestart(q)
    BY <1>10 DEF q, r
  <2>4. m' \in MainType(n) /\ m'.state = "Backoff" /\ m'.startWhenUp = r /\ m'.acceptedGen = m.acceptedGen
    BY <1>1, <2>2, <2>3, ScheduleRestartOk
  <2>5. SayInv'
    BY <1>5, <1>10, <2>1, <2>4 DEF IInv, SayInv, StartIsLive
  <2>6. Good
    BY <1>1, <1>10, <2>4, <2>5 DEF IInv, TypeInv, n
  <2> QED BY <1>7, <2>6
<1>11. CASE /\ m' = ScheduleRestart(quiet) /\ settings' = [settings EXCEPT !.identityUnsupported = TRUE]
            /\ UNCHANGED <<asked, carried>>
  <2>1. m' \in MainType(n) /\ m'.state = "Backoff" /\ m'.startWhenUp = m.startWhenUp /\ m'.acceptedGen = m.acceptedGen
    BY <1>1, <1>6, <1>11, ScheduleRestartOk
  <2>2. /\ settings' \in SettingsType /\ settings'.startedId = settings.startedId
        /\ settings'.prepareExit <=> settings.prepareExit
    BY <1>1, <1>11 DEF SettingsType
  <2>3. SayInv'
    BY <1>5, <1>11, <2>1, <2>2 DEF IInv, SayInv, StartIsLive
  <2>4. Good
    BY <1>1, <1>11, <2>1, <2>2, <2>3 DEF IInv, TypeInv, n
  <2> QED BY <1>7, <2>4
<1>12. ASSUME NEW stable \in BOOLEAN, NEW soon \in BOOLEAN, Unexpected(quiet, wasConnected, stable, soon) PROVE IInv'
  <2>1. /\ m' \in MainType(n) /\ m'.state \in {"GaveUp", "Backoff"} /\ m'.acceptedGen = m.acceptedGen
        /\ settings' \in SettingsType /\ (settings'.prepareExit <=> settings.prepareExit)
        /\ asked' \in AskedType /\ carried' \in ProfileOrNone
        /\ asked' \in {"stop", "declined"} =>
             \/ /\ asked' = asked /\ carried' = carried
                /\ m'.startWhenUp \in {None, m.startWhenUp, settings.startedId}
                /\ settings'.startedId \in {None, settings.startedId}
             \/ carried' = None /\ m'.startWhenUp = None /\ settings'.startedId = None /\ ~StartIsLive
    BY <1>4, <1>6, <1>12, UnexpectedOk DEF n
  <2>2. SayInv'
    BY <1>5, <2>1 DEF IInv, SayInv, StartIsLive
  <2>3. Good
    BY <2>1, <2>2
  <2> QED BY <1>7, <2>3
<1> QED BY <1>5, <1>8, <1>9, <1>10, <1>11, <1>12

\* The restart timer.
LEMMA PostRestartKeeps == ASSUME IInv, postRestart PROVE IInv'
<1> DEFINE n == setup.gens
           s == [m EXCEPT !.restartTimer = FALSE]
           r == [s EXCEPT !.state = "Starting"]
<1>1. n \in Nat /\ m \in MainType(n) /\ cores \in Seq(TaskType(n))
  BY Facts
<1>2. /\ s \in MainType(n) /\ s.state = m.state /\ s.acceptedGen = m.acceptedGen
      /\ s.handledExitGen = m.handledExitGen /\ s.startWhenUp = m.startWhenUp
      /\ r \in MainType(n) /\ r.state = "Starting" /\ r.acceptedGen = m.acceptedGen
      /\ r.startWhenUp = m.startWhenUp
  BY <1>1 DEF MainType, StateType
<1>3. /\ UNCHANGED <<proc, settings, posts, blocked, conn, sock, probe, down, hist>>
      /\ \/ m' = s /\ cores' = cores
         \/ PostProcessRestart(r, "no")
  BY DEF postRestart
<1> HIDE DEF s, r
<1>4. CASE m' = s /\ cores' = cores
  <2>1. TypeInv'
    BY <1>2, <1>3, <1>4 DEF IInv, TypeInv, conn, hist
  <2>2. SayInv' /\ Connects /\ Queues /\ Reads
    BY <1>2, <1>3, <1>4 DEF IInv, SayInv, StartIsLive, Connects, Queues, Reads, conn, hist
  <2> QED BY <1>2, <1>3, <1>4, <2>1, <2>2, MainSide DEF conn, hist
<1>5. CASE PostProcessRestart(r, "no")
  <2>1. /\ m' \in MainType(n) /\ m'.state = "Starting" /\ m'.startWhenUp = m.startWhenUp
        /\ m'.acceptedGen = m.acceptedGen /\ cores' \in Seq(TaskType(n)) /\ Queues
    BY <1>2, <1>5, PostProcessRestartOk
  <2> HIDE DEF n
  <2>2. TypeInv'
    BY <1>3, <2>1 DEF IInv, TypeInv, conn, hist, n
  <2>3. SayInv' /\ Connects /\ Reads
    BY <1>3, <2>1 DEF IInv, SayInv, StartIsLive, Connects, Reads, conn, hist
  <2> QED BY <1>3, <2>1, <2>2, <2>3, MainSide DEF conn, hist
<1> QED BY <1>3, <1>4, <1>5

\* The restart of a dead core.
LEMMA RestartDeadCoreKeeps == ASSUME IInv, restartDeadCore PROVE IInv'
<1> DEFINE n == setup.gens
           r == [BeginRestart(m) EXCEPT !.startWhenUp = settings.startedId]
<1>1. /\ n \in Nat /\ m \in MainType(n) /\ cores \in Seq(TaskType(n)) /\ posts \in Seq(PostType(n))
      /\ posts # << >> /\ Head(posts).ev = "deadRestart" /\ settings.startedId \in ProfileOrNone
  BY Facts DEF restartDeadCore
<1>2. Tail(posts) \in Seq(PostType(n))
  BY <1>1, Shrinks
<1>3. r \in MainType(n) /\ r.state = "Starting" /\ r.acceptedGen = m.acceptedGen /\ r.startWhenUp = settings.startedId
  BY <1>1, BeginRestartOk, WaitingOk
<1>4. /\ posts' = Tail(posts)
      /\ UNCHANGED <<proc, settings, blocked, conn, sock, probe, down, hist>>
      /\ UNCHANGED <<m, cores>> \/ PostProcessRestart(r, "no")
  BY DEF restartDeadCore
<1> HIDE DEF r
<1>5. CASE UNCHANGED <<m, cores>>
  <2>1. TypeInv'
    BY <1>1, <1>2, <1>4, <1>5 DEF IInv, TypeInv, conn, hist
  <2>2. SayInv' /\ Connects /\ Queues /\ Reads
    BY <1>1, <1>4, <1>5 DEF IInv, SayInv, StartIsLive, Connects, Queues, Reads, conn, hist
  <2> QED BY <1>4, <1>5, <2>1, <2>2, MainSide DEF conn, hist
<1>6. CASE PostProcessRestart(r, "no")
  <2>1. /\ m' \in MainType(n) /\ m'.state = "Starting" /\ m'.startWhenUp = settings.startedId
        /\ m'.acceptedGen = m.acceptedGen /\ cores' \in Seq(TaskType(n)) /\ Queues
    BY <1>3, <1>6, PostProcessRestartOk
  <2> HIDE DEF n
  <2>2. TypeInv'
    BY <1>2, <1>4, <2>1 DEF IInv, TypeInv, conn, hist, n
  <2>3. SayInv' /\ Connects /\ Reads
    BY <1>1, <1>4, <2>1 DEF IInv, SayInv, StartIsLive, Connects, Reads, conn, hist
  <2> QED BY <1>4, <2>1, <2>2, <2>3, MainSide DEF conn, hist
<1> QED BY <1>4, <1>5, <1>6

\* listen() fails.
LEMMA ListenKeeps == ASSUME IInv, listen PROVE IInv'
<1> DEFINE n == setup.gens
<1>1. n \in Nat /\ m \in MainType(n)
  BY Facts
<1>2. /\ m' = [m EXCEPT !.state = "ListenFailed"]
      /\ UNCHANGED <<proc, settings, cores, posts, blocked, conn, sock, probe, down, hist>>
  BY DEF listen
<1>3. m' \in MainType(n) /\ m'.state = "ListenFailed" /\ m'.acceptedGen = m.acceptedGen /\ m'.startWhenUp = m.startWhenUp
  BY <1>1, <1>2 DEF MainType, StateType
<1>4. TypeInv'
  BY <1>2, <1>3 DEF IInv, TypeInv, conn, hist
<1>5. SayInv' /\ Connects /\ Queues /\ Reads
  BY <1>2, <1>3 DEF IInv, SayInv, StartIsLive, Connects, Queues, Reads, conn, hist
<1> QED BY <1>2, <1>3, <1>4, <1>5, MainSide DEF conn, hist

\* start().
LEMMA StartKeeps == ASSUME IInv, NEW p \in ProfileOrNone, start(p) PROVE IInv'
<1> DEFINE n == setup.gens
<1>1. n \in Nat /\ m \in MainType(n) /\ cores \in Seq(TaskType(n))
  BY Facts
<1>2. /\ m.state = "NotStarted" /\ m' = [m EXCEPT !.startWhenUp = p, !.state = "Starting"]
      /\ cores' = Append(cores, Task("create", 0, "no"))
      /\ UNCHANGED <<proc, settings, posts, blocked, conn, sock, probe, down, hist>>
  BY DEF start
<1>3. m' \in MainType(n) /\ m'.state = "Starting" /\ m'.acceptedGen = m.acceptedGen
  BY <1>1, <1>2 DEF MainType, StateType
<1>4. PICK t \in TaskType(n) : t = Task("create", 0, "no") /\ t.op = "create"
  BY <1>1, TaskOk
<1>5. cores' \in Seq(TaskType(n)) /\ Queues
  BY <1>1, <1>2, <1>4, Grows DEF Queues
<1> HIDE DEF n
<1>6. TypeInv'
  BY <1>2, <1>3, <1>5 DEF IInv, TypeInv, conn, hist, n
<1>7. SayInv' /\ Connects /\ Reads
  BY <1>2, <1>3 DEF IInv, SayInv, StartInv, Connects, Reads, conn, hist
<1> QED BY <1>2, <1>3, <1>5, <1>6, <1>7, MainSide DEF conn, hist

\* A request is counted.
LEMMA OpenOk ==
  ASSUME IInv, Open
  PROVE  setup' \in Setup /\ setup'.gens = setup.gens /\ m.state # "NotStarted"
<1>1. setup \in Setup /\ setup.requests > 0 /\ setup' = [setup EXCEPT !.requests = @ - 1]
  BY DEF IInv, TypeInv, Open
<1> QED BY <1>1 DEF Open, Setup

\* A reset.
LEMMA ResetCoreKeeps == ASSUME IInv, resetCore PROVE IInv'
<1> DEFINE n == setup.gens
           b == BeginRestart(m)
           r == [b EXCEPT !.startWhenUp = None]
<1>1. n \in Nat /\ m \in MainType(n) /\ cores \in Seq(TaskType(n)) /\ settings \in SettingsType /\ None \in ProfileOrNone
  BY Facts
<1>2. /\ b \in MainType(n) /\ b.state = "Starting" /\ b.acceptedGen = m.acceptedGen
      /\ r \in MainType(n) /\ r.state = "Starting" /\ r.acceptedGen = m.acceptedGen
  BY <1>1, BeginRestartOk, WaitingOk
<1>3. setup' \in Setup /\ setup'.gens = n
  BY OpenOk DEF resetCore
<1>4. /\ asked' = "reset" /\ carried' = None
      /\ UNCHANGED <<proc, posts, blocked, conn, sock, probe, down>>
      /\ \/ PostProcessRestart(r, "manual") /\ settings' = [settings EXCEPT !.startedId = None]
         \/ m' = b /\ cores' = Append(cores, Task("reset", 0, "manual")) /\ settings' = settings
  BY DEF resetCore
<1> HIDE DEF b, r
<1>5. /\ m' \in MainType(n) /\ m'.state = "Starting" /\ m'.acceptedGen = m.acceptedGen
      /\ cores' \in Seq(TaskType(n)) /\ Queues
  <2>1. CASE PostProcessRestart(r, "manual")
    BY <1>2, <2>1, PostProcessRestartOk
  <2>2. CASE m' = b /\ cores' = Append(cores, Task("reset", 0, "manual"))
    <3>1. Task("reset", 0, "manual") \in TaskType(n) /\ Task("reset", 0, "manual").op = "reset"
      BY <1>1, TaskOk
    <3> QED BY <1>2, <2>2, <3>1, QueueOne
  <2> QED BY <1>4, <2>1, <2>2
<1>6. settings' \in SettingsType /\ (settings'.prepareExit <=> settings.prepareExit)
  <2>1. CASE settings' = settings
    BY <1>1, <2>1
  <2>2. CASE settings' = [settings EXCEPT !.startedId = None]
    BY <1>1, <2>2, StartedOk
  <2> QED BY <1>4, <2>1, <2>2
<1> HIDE DEF n
<1>7. TypeInv'
  BY <1>1, <1>3, <1>4, <1>5, <1>6 DEF IInv, TypeInv, conn, n, AskedType
<1>8. SayInv' /\ Connects /\ Reads
  BY <1>4, <1>5 DEF SayInv, Connects, Reads
<1> QED BY <1>3, <1>4, <1>5, <1>6, <1>7, <1>8, MainSide DEF conn, n

\* A restart for the guard identity.
LEMMA RestartForGuardKeeps == ASSUME IInv, restartForGuard PROVE IInv'
<1> DEFINE n == setup.gens
<1>1. n \in Nat /\ m \in MainType(n) /\ cores \in Seq(TaskType(n)) /\ None \in ProfileOrNone
  BY Facts
<1>2. setup' \in Setup /\ setup'.gens = n
  BY OpenOk DEF restartForGuard
<1>3. PICK p \in ProfileOrNone :
        /\ PostProcessRestart([BeginRestart(m) EXCEPT !.startWhenUp = p], "auto")
        /\ \/ p = GuardCarries /\ UNCHANGED <<asked, carried>>
           \/ asked' = "start" /\ carried' = None
  BY DEF restartForGuard
<1>4. UNCHANGED <<proc, settings, posts, blocked, conn, sock, probe, down>>
  BY DEF restartForGuard
<1> DEFINE r == [BeginRestart(m) EXCEPT !.startWhenUp = p]
<1>5. r \in MainType(n) /\ r.state = "Starting" /\ r.acceptedGen = m.acceptedGen /\ r.startWhenUp = p
  BY <1>1, BeginRestartOk, WaitingOk
<1> HIDE DEF r
<1>6. /\ m' \in MainType(n) /\ m'.state = "Starting" /\ m'.acceptedGen = m.acceptedGen /\ m'.startWhenUp = p
      /\ cores' \in Seq(TaskType(n)) /\ Queues
  <2>1. PostProcessRestart(r, "auto")
    BY <1>3 DEF r
  <2> QED BY <1>5, <2>1, PostProcessRestartOk
<1> HIDE DEF n
<1>7. TypeInv'
  BY <1>1, <1>2, <1>3, <1>4, <1>6 DEF IInv, TypeInv, conn, n, AskedType
<1>8. SayInv'
  BY <1>3, <1>4, <1>6 DEF IInv, SayInv, StartIsLive, GuardCarries, conn
<1>9. Connects /\ Reads
  BY <1>4, <1>6 DEF Connects, Reads
<1> QED BY <1>2, <1>4, <1>6, <1>7, <1>8, <1>9, MainSide DEF conn, n

\* A change of privileges.
LEMMA KillForPrivilegeChangeKeeps == ASSUME IInv, killForPrivilegeChange PROVE IInv'
<1> DEFINE n == setup.gens
<1>1. n \in Nat /\ cores \in Seq(TaskType(n)) /\ posts \in Seq(PostType(n))
  BY Facts
<1>2. setup' \in Setup /\ setup'.gens = n /\ m.state # "NotStarted"
  BY OpenOk DEF killForPrivilegeChange
<1>3. /\ UNCHANGED <<m, proc, settings, blocked, conn, sock, probe, down, asked, carried>>
      /\ \/ posts' = Append(posts, DeadRestart) /\ cores' = cores
         \/ cores' = Append(cores, Task("expectKill", 0, "no")) /\ posts' = posts
  BY DEF killForPrivilegeChange
<1>4. DeadRestart \in PostType(n)
  BY <1>1, Constructors
<1>5. posts' \in Seq(PostType(n)) /\ Reads
  BY <1>1, <1>3, <1>4, Grows, SMTT(30) DEF Reads
<1>6. cores' \in Seq(TaskType(n)) /\ Queues
  <2>1. CASE cores' = cores
    BY <1>1, <2>1 DEF Queues
  <2>2. CASE cores' = Append(cores, Task("expectKill", 0, "no"))
    <3>1. Task("expectKill", 0, "no") \in TaskType(n) /\ Task("expectKill", 0, "no").op = "expectKill"
      BY <1>1, TaskOk
    <3> QED BY <2>2, <3>1, QueueOne
  <2> QED BY <1>3, <2>1, <2>2
<1> HIDE DEF n
<1>7. TypeInv'
  BY <1>2, <1>3, <1>5, <1>6 DEF IInv, TypeInv, conn, n
<1>8. SayInv' /\ Connects
  BY <1>3 DEF IInv, SayInv, StartIsLive, Connects, conn
<1> QED BY <1>2, <1>3, <1>5, <1>6, <1>7, <1>8, MainSide DEF conn, n

\* A user's start.
LEMMA UserStartKeeps == ASSUME IInv, NEW p \in Profile, userStart(p) PROVE IInv'
<1> DEFINE n == setup.gens
           r == [BeginRestart(m) EXCEPT !.startWhenUp = p]
<1>1. /\ n \in Nat /\ m \in MainType(n) /\ cores \in Seq(TaskType(n)) /\ None \in ProfileOrNone
      /\ p \in ProfileOrNone
      /\ proc.pid \in 0 .. n /\ starting \in StartType(n)
  BY Facts DEF ProfileOrNone
<1>2. setup' \in Setup /\ setup'.gens = n /\ m.state # "NotStarted"
  BY OpenOk DEF userStart
<1>3. /\ asked' = "start" /\ carried' = None
      /\ UNCHANGED <<proc, settings, posts, blocked, stopper, running, sock, probe, down>>
      /\ \/ m' = [m EXCEPT !.startWhenUp = p] /\ UNCHANGED <<cores, starting>>
         \/ starting' = [id |-> p, pid |-> proc.pid] /\ UNCHANGED <<m, cores>>
         \/ PostProcessRestart(r, "no") /\ starting' = starting
  BY DEF userStart, AskWhileProbing
<1>4. r \in MainType(n) /\ r.state = "Starting" /\ r.acceptedGen = m.acceptedGen
  BY <1>1, BeginRestartOk, WaitingOk
<1>5. [id |-> p, pid |-> proc.pid] \in StartType(n) /\ [id |-> p, pid |-> proc.pid].pid = proc.pid
  BY <1>1 DEF StartType
<1>6. starting' \in StartType(n) /\ starting'.pid \in {starting.pid, proc.pid}
  BY <1>1, <1>3, <1>5
<1> HIDE DEF r
<1>7. /\ m' \in MainType(n) /\ m'.state # "NotStarted" /\ m'.acceptedGen = m.acceptedGen
      /\ m'.state # "Connected" \/ (m'.state = m.state /\ m'.handledExitGen = m.handledExitGen)
      /\ cores' \in Seq(TaskType(n)) /\ Queues
  <2>1. CASE m' = [m EXCEPT !.startWhenUp = p] /\ UNCHANGED <<cores, starting>>
    BY <1>1, <1>2, <2>1, WaitingOk DEF Queues
  <2>2. CASE UNCHANGED <<m, cores>>
    BY <1>1, <1>2, <2>2 DEF Queues
  <2>3. CASE PostProcessRestart(r, "no")
    BY <1>4, <2>3, PostProcessRestartOk
  <2> QED BY <1>3, <2>1, <2>2, <2>3
<1> HIDE DEF n
<1>8. TypeInv'
  BY <1>1, <1>2, <1>3, <1>6, <1>7 DEF IInv, TypeInv, n, AskedType
<1>9. SayInv' /\ Connects /\ Reads
  BY <1>3, <1>7 DEF SayInv, Connects, Reads
<1> QED BY <1>2, <1>3, <1>6, <1>7, <1>8, <1>9, MainSide DEF n

\* The answer to a Start RPC: a start over a core that is gone does not succeed.
LEMMA StartAnsweredKeeps == ASSUME IInv, startAnswered PROVE IInv'
<1> DEFINE n == setup.gens
<1>1. /\ n \in Nat /\ settings \in SettingsType /\ starting \in StartType(n) /\ starting.id \in ProfileOrNone
      /\ None \in ProfileOrNone /\ NoStart \in StartType(n) /\ running \in ProfileOrNone
      /\ settings.startedId \in ProfileOrNone
  BY Facts
<1>2. /\ starting # NoStart /\ starting' = NoStart
      /\ UNCHANGED <<m, proc, cores, posts, blocked, stopper, sock, probe, down, hist>>
      /\ \/ /\ proc.st = "running" /\ proc.pid = starting.pid
            /\ running' = starting.id /\ settings' = [settings EXCEPT !.startedId = starting.id]
         \/ /\ running' = None
            /\ settings' = settings \/ settings' = [settings EXCEPT !.startedId = None]
  BY DEF startAnswered
<1>3. /\ settings' \in SettingsType /\ (settings'.prepareExit <=> settings.prepareExit) /\ running' \in ProfileOrNone
      /\ settings'.startedId \in {None, settings.startedId} \/ StartIsLive
  <2>1. CASE running' = starting.id /\ settings' = [settings EXCEPT !.startedId = starting.id]
             /\ proc.st = "running" /\ proc.pid = starting.pid
    BY <1>1, <1>2, <2>1, StartedOk DEF StartIsLive
  <2>2. CASE running' = None /\ settings' = settings
    BY <1>1, <2>2
  <2>3. CASE running' = None /\ settings' = [settings EXCEPT !.startedId = None]
    BY <1>1, <2>3, StartedOk
  <2> QED BY <1>2, <2>1, <2>2, <2>3
<1>4. starting'.pid = 0
  BY <1>2 DEF NoStart
<1> HIDE DEF n
<1>5. TypeInv'
  BY <1>1, <1>2, <1>3 DEF IInv, TypeInv, hist, n
<1>6. SayInv'
  BY <1>2, <1>3 DEF IInv, SayInv, StartIsLive, hist
<1>7. Connects /\ Reads /\ Queues
  BY <1>2, <1>3 DEF Connects, Reads, Queues
<1> QED BY <1>2, <1>3, <1>4, <1>5, <1>6, <1>7, MainSide DEF hist

\* A user's stop.
LEMMA UserStopKeeps == ASSUME IInv, userStop PROVE IInv'
<1> DEFINE n == setup.gens
<1>1. n \in Nat /\ m \in MainType(n) /\ settings \in SettingsType /\ None \in ProfileOrNone
  BY Facts
<1>2. /\ m.state # "NotStarted" /\ starting = NoStart
      /\ UNCHANGED <<proc, cores, posts, blocked, running, starting, sock, probe, down, setup>>
  BY DEF userStop
<1>3. CASE running = None
  <2>1. /\ m' = [m EXCEPT !.startWhenUp = None] /\ settings' = [settings EXCEPT !.startedId = None]
        /\ asked' = "stop" /\ carried' = None /\ stopper' = stopper
    BY <1>3 DEF userStop, cancelResume
  <2>2. /\ m' \in MainType(n) /\ m'.state = m.state /\ m'.acceptedGen = m.acceptedGen
        /\ m'.handledExitGen = m.handledExitGen /\ m'.startWhenUp = None
    BY <1>1, <2>1, WaitingOk
  <2>3. settings' \in SettingsType /\ (settings'.prepareExit <=> settings.prepareExit) /\ settings'.startedId = None
    BY <1>1, <2>1, StartedOk
  <2> HIDE DEF n
  <2>4. TypeInv'
    BY <1>1, <1>2, <2>1, <2>2, <2>3 DEF IInv, TypeInv, AskedType, n
  <2>5. SayInv' /\ Connects /\ Reads /\ Queues
    BY <1>2, <2>1, <2>2, <2>3 DEF SayInv, StartIsLive, Connects, Reads, Queues
  <2> QED BY <1>2, <2>1, <2>2, <2>3, <2>4, <2>5, MainSide
<1>4. CASE running # None
  <2>1. /\ stopper = "nobody" /\ stopper' = "user" /\ UNCHANGED <<m, settings, asked, carried>>
    BY <1>4 DEF userStop
  <2>2. TypeInv'
    BY <1>2, <2>1 DEF IInv, TypeInv
  <2>3. SayInv' /\ Connects /\ Reads /\ Queues
    BY <1>2, <2>1 DEF IInv, SayInv, StartIsLive, Connects, Reads, Queues
  <2> QED BY <1>2, <2>1, <2>2, <2>3, MainSide
<1> QED BY <1>3, <1>4

\* The end of a stop.
LEMMA StopDoneKeeps == ASSUME IInv, stopDone PROVE IInv'
<1>1. settings \in SettingsType /\ None \in ProfileOrNone
  BY Facts
<1>2. /\ stopper \in {"user", "exit"} /\ stopper' = "nobody" /\ running' = None
      /\ settings' = settings \/ settings' = [settings EXCEPT !.startedId = None]
      /\ UNCHANGED <<m, proc, cores, posts, blocked, starting, sock, probe, down, hist>>
  BY DEF stopDone
<1>3. /\ settings' \in SettingsType /\ (settings'.prepareExit <=> settings.prepareExit)
      /\ settings'.startedId \in {None, settings.startedId}
  <2>1. CASE settings' = settings
    BY <1>1, <2>1
  <2>2. CASE settings' = [settings EXCEPT !.startedId = None]
    BY <1>1, <2>2, StartedOk
  <2> QED BY <1>2, <2>1, <2>2
<1>4. TypeInv'
  BY <1>1, <1>2, <1>3 DEF IInv, TypeInv, hist
<1>5. SayInv' /\ Connects /\ Reads /\ Queues
  BY <1>2, <1>3 DEF IInv, SayInv, StartIsLive, Connects, Reads, Queues, hist
<1>6. m.state # "NotStarted"
  BY <1>2 DEF IInv, StartInv
<1> QED BY <1>2, <1>3, <1>4, <1>5, <1>6, MainSide DEF hist

\* prepare_exit.
LEMMA PrepareExitKeeps == ASSUME IInv, prepareExit PROVE IInv'
<1>1. settings \in SettingsType
  BY Facts
<1>2. /\ m.state # "NotStarted" /\ settings' = [settings EXCEPT !.prepareExit = TRUE]
      /\ stopper' = stopper \/ (stopper = "nobody" /\ stopper' = "exit")
      /\ UNCHANGED <<m, proc, cores, posts, blocked, running, starting, sock, probe, down, hist>>
  BY DEF prepareExit
<1>3. settings' \in SettingsType /\ settings'.prepareExit /\ settings'.startedId = settings.startedId
  BY <1>1, <1>2 DEF SettingsType
<1>4. TypeInv'
  BY <1>2, <1>3 DEF IInv, TypeInv, hist
<1>5. SayInv' /\ Connects /\ Reads /\ Queues
  BY <1>2, <1>3 DEF IInv, SayInv, StartIsLive, Connects, Reads, Queues, hist
<1> QED BY <1>2, <1>3, <1>4, <1>5, MainSide DEF hist

\* The supervisor shuts down.
LEMMA ShutDownOk ==
  ASSUME NEW n \in Nat, NEW s \in MainType(n)
  PROVE  /\ ShutDown(s) \in MainType(n) /\ ShutDown(s).state = "ShuttingDown"
         /\ ShutDown(s).acceptedGen = s.acceptedGen /\ ShutDown(s).startWhenUp = s.startWhenUp
  BY DEF ShutDown, MainType, StateType

\* The kill that the exit asks for.
LEMMA KillForExitKeeps == ASSUME IInv, killForExit PROVE IInv'
<1> DEFINE n == setup.gens
<1>1. n \in Nat /\ m \in MainType(n)
  BY Facts
<1>2. /\ m' = ShutDown(m) /\ cores' = Append(cores, Task("kill", 0, "no"))
      /\ UNCHANGED <<proc, settings, posts, blocked, conn, sock, probe, down, hist>>
  BY DEF killForExit
<1>3. m' \in MainType(n) /\ m'.state = "ShuttingDown" /\ m'.acceptedGen = m.acceptedGen /\ m'.startWhenUp = m.startWhenUp
  BY <1>1, <1>2, ShutDownOk
<1>4. Task("kill", 0, "no") \in TaskType(n) /\ Task("kill", 0, "no").op = "kill"
  BY <1>1, TaskOk
<1>5. cores' \in Seq(TaskType(n)) /\ Queues
  BY <1>2, <1>4, QueueOne
<1> HIDE DEF n
<1>6. TypeInv'
  BY <1>2, <1>3, <1>5 DEF IInv, TypeInv, conn, hist, n
<1>7. SayInv' /\ Connects /\ Reads
  BY <1>2, <1>3 DEF IInv, SayInv, StartIsLive, Connects, Reads, conn, hist
<1> QED BY <1>2, <1>3, <1>5, <1>6, <1>7, MainSide DEF conn, hist

\* shutdown().
LEMMA ShutdownKeeps == ASSUME IInv, shutdown PROVE IInv'
<1> DEFINE n == setup.gens
<1>1. n \in Nat /\ m \in MainType(n) /\ cores \in Seq(TaskType(n))
  BY Facts
<1>2. /\ settings.prepareExit /\ m' = ShutDown(m) /\ down' = "killing"
      /\ cores' = Append(cores, Task("exitKill", 0, "no"))
      /\ UNCHANGED <<proc, settings, posts, blocked, conn, sock, probe, hist>>
  BY DEF shutdown
<1>3. m' \in MainType(n) /\ m'.state = "ShuttingDown" /\ m'.acceptedGen = m.acceptedGen /\ m'.startWhenUp = m.startWhenUp
  BY <1>1, <1>2, ShutDownOk
<1>4. PICK t \in TaskType(n) : t = Task("exitKill", 0, "no") /\ t.op = "exitKill"
  BY <1>1, TaskOk
<1>5. cores' \in Seq(TaskType(n)) /\ Queues
  BY <1>1, <1>2, <1>4, Grows DEF Queues
<1> HIDE DEF n
<1>6. TypeInv'
  BY <1>2, <1>3, <1>5 DEF IInv, TypeInv, conn, hist, n
<1>7. SayInv' /\ Connects /\ Reads
  BY <1>2, <1>3 DEF IInv, SayInv, StartIsLive, Connects, Reads, conn, hist
<1> QED BY <1>2, <1>3, <1>5, <1>6, <1>7, MainSide DEF conn, hist

-----------------------------------------------------------------------------
(* Steps of DS_cores: the main thread's fields stay as they are. *)

\* How a process may change: a process that starts is a new one, and one that was killed or has
\* ended does not come back.
ProcStep(p, q) ==
  /\ p.gen <= q.gen /\ q.pid <= q.gen
  /\ q.pid = p.pid \/ (q.pid = q.gen /\ p.gen < q.gen)
  /\ q.st = "starting" =>
       (q.pid = q.gen /\ p.gen < q.gen) \/ (p.st = "starting" /\ q.gen = p.gen /\ q.pid = p.pid)
  /\ q.pid = p.pid /\ q.st \in {"starting", "running"} => p.st \in {"starting", "running"}
  /\ q.st = "absent" => p.st = "absent" /\ q.gen = p.gen
\* A process that lives goes on living, or is replaced.
Lives(p, q) == q.gen = p.gen /\ p.st \in Alive => q.st \in Alive

\* The reports that were posted stay.
PostsKept ==
  /\ Len(posts) \in Nat /\ Len(posts') \in Nat /\ Len(posts) <= Len(posts')
  /\ \A i \in 1 .. Len(posts) : posts'[i] = posts[i]
NowReported(g) == \E i \in 1 .. Len(posts') : posts'[i].ev = "exited" /\ posts'[i].gen = g
\* The queue of tasks, and that nothing waits for the first core any more.
Takes ==
  \/ cores' = cores /\ (proc.st # "absent" \/ stopper = "frame")
  \/ cores # << >> /\ cores' = Tail(cores)
\* An end of the process is reported, now or after the crash stop that is waited for.
EndReported ==
  /\ Lives(proc, proc') \/ (blocked'.op = "exit" /\ blocked'.gen = proc.gen) \/ NowReported(proc.gen)
  /\ blocked.op = "exit" => blocked' = blocked \/ NowReported(blocked.gen)

\* Whatever DS_cores does in these limits keeps the invariant.
LEMMA CoreSide ==
  ASSUME IInv, TypeInv', UNCHANGED <<m, probe, starting, hist>>,
         ProcStep(proc, proc'), PostsKept, Takes, FrameInv',
         sock' = sock \/ (sock' = proc.pid /\ proc'.pid = proc.pid /\ proc'.st # "starting"),
         settings'.prepareExit <=> settings.prepareExit,
         settings'.startedId \in {None, settings.startedId},
         ~settings.prepareExit /\ proc.st # "starting" => EndReported
  PROVE  IInv'
<1> DEFINE n == setup.gens
<1>1. /\ n \in Nat /\ proc \in ProcType(n) /\ proc' \in ProcType(n) /\ m \in MainType(n)
      /\ cores \in Seq(TaskType(n)) /\ starting \in StartType(n) /\ sock \in 0 .. n
  BY DEF IInv, TypeInv, Setup, hist
<1>2. /\ proc.gen \in Nat /\ proc.pid \in Nat /\ proc'.gen \in Nat /\ proc'.pid \in Nat
      /\ m.acceptedGen \in Nat /\ starting.pid \in Nat /\ sock \in Nat /\ m.handledExitGen \in Nat
  BY <1>1 DEF ProcType, MainType, StartType
<1> HIDE DEF n
<1>3. GenInv'
  <2>1. proc.pid <= proc.gen /\ proc.pid <= proc'.pid
    BY <1>2 DEF IInv, GenInv, ProcStep
  <2>2. /\ m.acceptedGen <= proc'.gen /\ proc'.pid <= proc'.gen /\ sock' <= proc'.pid
        /\ starting.pid <= proc'.pid
    BY <1>2, <2>1 DEF IInv, GenInv, ProcStep
  <2>3. proc'.st = "starting" => sock' < proc'.pid /\ m.acceptedGen < proc'.gen
    BY <1>2, <2>1 DEF IInv, GenInv, ProcStep
  <2>4. proc'.st = "absent" => proc'.gen = 0
    BY DEF IInv, GenInv, ProcStep
  <2> QED BY <2>2, <2>3, <2>4 DEF GenInv
<1>4. TaskInv'
  <2>1. CASE cores' = cores /\ (proc.st # "absent" \/ stopper = "frame")
    BY <2>1 DEF IInv, TaskInv
  <2>2. CASE cores # << >> /\ cores' = Tail(cores)
    <3>1. /\ Len(cores) \in Nat /\ Len(cores') = Len(cores) - 1
          /\ \A i \in 1 .. Len(cores') : cores'[i] = cores[i + 1]
      BY <1>1, <2>2, Shrinks
    <3>2. ASSUME NEW i \in 1 .. Len(cores')
          PROVE  cores'[i].op # "create" /\ (cores'[i].op = "exitKill" => settings'.prepareExit)
      <4>1. i + 1 \in 1 .. Len(cores) /\ i + 1 # 1 /\ cores'[i] = cores[i + 1]
        BY <3>1
      <4> QED BY <4>1 DEF IInv, TaskInv
    <3> QED BY <3>2 DEF TaskInv
  <2> QED BY <2>1, <2>2 DEF Takes
<1>5. StartInv'
  <2>1. m.state # "NotStarted"
    BY DEF IInv, StartInv, Takes
  <2> QED BY <2>1 DEF StartInv
<1>6. SayInv'
  <2>1. StartIsLive' => StartIsLive
    <3> SUFFICES ASSUME starting # NoStart, proc'.st \in {"starting", "running"}, proc'.pid = starting.pid
                 PROVE  proc.st \in {"starting", "running"} /\ proc.pid = starting.pid
      BY DEF StartIsLive
    <3>1. proc'.pid = proc.pid
      BY <1>2 DEF IInv, GenInv, ProcStep
    <3> QED BY <3>1 DEF ProcStep
  <2> QED BY <2>1 DEF IInv, SayInv, hist
<1>7. ConnInv'
  <2> SUFFICES ASSUME m.state = "Connected", ~settings.prepareExit
               PROVE  /\ m.handledExitGen < m.acceptedGen
                      /\ \/ proc'.gen = m.acceptedGen /\ proc'.st \in Alive
                         \/ blocked'.op = "exit" /\ blocked'.gen = m.acceptedGen
                         \/ NowReported(m.acceptedGen)
                         \/ m.acceptedGen < proc'.gen
    BY DEF ConnInv, Reported, NowReported
  <2>1. /\ m.handledExitGen < m.acceptedGen
        /\ \/ proc.gen = m.acceptedGen /\ proc.st \in Alive
           \/ blocked.op = "exit" /\ blocked.gen = m.acceptedGen
           \/ Reported(m.acceptedGen)
           \/ m.acceptedGen < proc.gen
    BY DEF IInv, ConnInv
  <2>2. proc.gen <= proc'.gen
    BY DEF ProcStep
  <2>3. CASE m.acceptedGen < proc.gen
    BY <1>2, <2>1, <2>2, <2>3
  <2>4. proc.st = "starting" => m.acceptedGen < proc.gen
    BY DEF IInv, GenInv
  <2>5. CASE proc.gen = m.acceptedGen /\ proc.st \in Alive
    BY <1>2, <2>1, <2>2, <2>3, <2>4, <2>5 DEF EndReported, Lives
  <2>6. CASE blocked.op = "exit" /\ blocked.gen = m.acceptedGen
    BY <2>1, <2>3, <2>4, <2>6 DEF EndReported
  <2>7. CASE Reported(m.acceptedGen)
    BY <2>1, <2>7 DEF Reported, NowReported, PostsKept
  <2> QED BY <2>1, <2>3, <2>5, <2>6, <2>7
<1> QED BY <1>3, <1>4, <1>5, <1>6, <1>7 DEF IInv

\* Kill().
LEMMA KilledOk ==
  ASSUME NEW n \in Nat, NEW p \in ProcType(n), p.pid <= p.gen
  PROVE  /\ Killed(p) \in ProcType(n) /\ Killed(p).gen = p.gen /\ Killed(p).pid = p.pid
         /\ ProcStep(p, Killed(p)) /\ Lives(p, Killed(p))
<1>1. CASE p.st \in {"starting", "running"}
  <2>1. Killed(p) = [p EXCEPT !.st = "dying"]
    BY <1>1 DEF Killed
  <2>2. Killed(p) \in ProcType(n) /\ Killed(p).gen = p.gen /\ Killed(p).pid = p.pid /\ Killed(p).st = "dying"
    BY <2>1 DEF ProcType, Alive
  <2>3. p.gen \in Nat
    BY DEF ProcType
  <2> QED BY <2>2, <2>3 DEF ProcStep, Lives, Alive
<1>2. CASE p.st \notin {"starting", "running"}
  <2>1. Killed(p) = p /\ p.gen \in Nat
    BY <1>2 DEF Killed, ProcType
  <2> QED BY <1>2, <2>1 DEF ProcStep, Lives
<1> QED BY <1>1, <1>2

\* The exit of the killed process is expected.
LEMMA ExpectedOk ==
  ASSUME NEW n \in Nat, NEW p \in ProcType(n), p.pid <= p.gen
  PROVE  /\ [Killed(p) EXCEPT !.expected = p.gen] \in ProcType(n)
         /\ ProcStep(p, [Killed(p) EXCEPT !.expected = p.gen])
         /\ Lives(p, [Killed(p) EXCEPT !.expected = p.gen])
         /\ [Killed(p) EXCEPT !.expected = p.gen].pid = p.pid
<1> DEFINE k == Killed(p)
           q == [k EXCEPT !.expected = p.gen]
<1>1. k \in ProcType(n) /\ k.pid = p.pid /\ ProcStep(p, k) /\ Lives(p, k) /\ p.gen \in 0 .. n
  BY KilledOk DEF ProcType
<1> HIDE DEF k
<1>2. q \in ProcType(n) /\ q.gen = k.gen /\ q.pid = k.pid /\ q.st = k.st
  BY <1>1 DEF ProcType
<1> HIDE DEF q
<1>3. ProcStep(p, q) /\ Lives(p, q) /\ q.pid = p.pid
  BY <1>1, <1>2 DEF ProcStep, Lives
<1> QED BY <1>2, <1>3 DEF q, k

\* Posts that are added.
LEMMA PostsAdded ==
  ASSUME NEW S, posts \in Seq(S), NEW x \in Seq(S), posts' = posts \o x
  PROVE  posts' \in Seq(S) /\ PostsKept
<1>1. /\ posts' \in Seq(S) /\ Len(posts) \in Nat /\ Len(x) \in Nat /\ Len(posts') = Len(posts) + Len(x)
      /\ \A i \in 1 .. Len(posts) : posts'[i] = posts[i]
  BY ConcatProperties, LenProperties
<1> QED BY <1>1 DEF PostsKept

\* One report that is added.
LEMMA PostAdded ==
  ASSUME NEW S, posts \in Seq(S), NEW e \in S, posts' = Append(posts, e)
  PROVE  /\ posts' \in Seq(S) /\ PostsKept
         /\ e.ev = "exited" => NowReported(e.gen)
<1>1. /\ posts' \in Seq(S) /\ Len(posts) \in Nat /\ Len(posts') = Len(posts) + 1
      /\ \A i \in 1 .. Len(posts) : posts'[i] = posts[i]
      /\ posts'[Len(posts) + 1] = e
  BY Grows
<1>2. Len(posts) + 1 \in 1 .. Len(posts')
  BY <1>1
<1>3. e.ev = "exited" => NowReported(e.gen)
  BY <1>1, <1>2 DEF NowReported
<1> QED BY <1>1, <1>3 DEF PostsKept

\* The report of a start that a kill overtakes.
LEMMA StartedByOk ==
  ASSUME NEW n \in Nat, NEW p \in ProcType(n)
  PROVE  StartedBy(p) \in Seq(PostType(n))
<1>1. Spawned(p.gen) \in PostType(n)
  BY Constructors DEF ProcType
<1>2. <<Spawned(p.gen)>> \in Seq(PostType(n)) /\ << >> \in Seq(PostType(n))
  BY <1>1
<1> QED BY <1>2 DEF StartedBy

\* What a step of the process class promises.
Goes(p) ==
  /\ proc' \in ProcType(setup.gens) /\ ProcStep(p, proc') /\ Lives(p, proc')
  /\ posts' \in Seq(PostType(setup.gens)) /\ PostsKept

\* CoreProcess::Restart().
LEMMA RestartOk ==
  ASSUME IInv, NEW s \in SettingsType, NEW p \in ProcType(setup.gens), p.pid <= p.gen, Restart(s, p)
  PROVE  /\ Goes(p) /\ settings' \in SettingsType
         /\ settings'.prepareExit <=> s.prepareExit
         /\ settings'.startedId = s.startedId
<1> DEFINE n == setup.gens
<1>1. n \in Nat /\ p \in ProcType(n) /\ posts \in Seq(PostType(n)) /\ p.gen < n /\ p.gen \in 0 .. n /\ p.pid \in 0 .. n
  BY Facts DEF Restart, ProcType, MaxGen
<1>2. StartedBy(p) \in Seq(PostType(n)) /\ posts' = posts \o StartedBy(p)
  BY <1>1, StartedByOk DEF Restart
<1>3. posts' \in Seq(PostType(n)) /\ PostsKept
  BY <1>1, <1>2, PostsAdded
<1>4. p.gen + 1 \in 0 .. n
  BY <1>1
<1>5. CASE /\ proc' = [p EXCEPT !.gen = @ + 1, !.pid = p.gen + 1, !.st = "starting", !.dialed = FALSE]
           /\ settings' = [s EXCEPT !.coreRunning = FALSE]
  <2>1. proc' \in ProcType(n) /\ proc'.gen = p.gen + 1 /\ proc'.pid = p.gen + 1 /\ proc'.st = "starting"
    BY <1>1, <1>4, <1>5 DEF ProcType, Alive
  <2>2. ProcStep(p, proc') /\ Lives(p, proc')
    BY <1>1, <2>1 DEF ProcStep, Lives
  <2>3. settings' \in SettingsType /\ (settings'.prepareExit <=> s.prepareExit) /\ settings'.startedId = s.startedId
    BY <1>5 DEF SettingsType
  <2> QED BY <1>3, <2>1, <2>2, <2>3 DEF Goes
<1>6. CASE p.st \in Alive /\ proc' = [p EXCEPT !.gen = @ + 1, !.st = "dying"] /\ settings' = s
  <2>1. proc' \in ProcType(n) /\ proc'.gen = p.gen + 1 /\ proc'.pid = p.pid /\ proc'.st = "dying"
    BY <1>1, <1>4, <1>6 DEF ProcType, Alive
  <2>2. ProcStep(p, proc') /\ Lives(p, proc')
    BY <1>1, <2>1 DEF ProcStep, Lives
  <2> QED BY <1>3, <1>6, <2>1, <2>2 DEF Goes
<1> QED BY <1>5, <1>6 DEF Restart

\* The rest of a frame: an exit is reported under the generation that the frame carries, and a failed
\* exec under the present one.
LEMMA ContinueOk ==
  ASSUME IInv, NEW f \in FrameType(setup.gens), f.op # "none", NEW s \in SettingsType,
         NEW p \in ProcType(setup.gens), p.pid <= p.gen, Continue(f, s, p)
  PROVE  /\ Goes(p) /\ settings' \in SettingsType
         /\ settings'.prepareExit <=> s.prepareExit
         /\ settings'.startedId \in {None, s.startedId}
         /\ f.op = "exit" => NowReported(f.gen)
         /\ f.op = "failed" => NowReported(p.gen)
         /\ proc'.pid # p.pid => f.op = "restart"
<1> DEFINE n == setup.gens
<1>1. /\ n \in Nat /\ p \in ProcType(n) /\ posts \in Seq(PostType(n)) /\ p.gen \in 0 .. n
      /\ f.gen \in 0 .. n /\ f.code \in {"identity", "other"} /\ f.op \in {"exit", "failed", "restart", "reset"}
  BY Facts DEF ProcType, FrameType
<1>2. ProcStep(p, p) /\ Lives(p, p)
  BY <1>1 DEF ProcStep, Lives
<1>3. CASE f.op = "exit"
  <2> DEFINE x == Exited(f.gen, FALSE, f.code)
  <2>1. posts' = Append(posts, x) /\ settings' = s /\ proc' = p
    BY <1>3 DEF Continue
  <2>a. x \in PostType(n) /\ x.ev = "exited" /\ x.gen = f.gen
    BY <1>1 DEF Exited, PostType
  <2> HIDE DEF x
  <2>2. PICK e \in PostType(n) : e = x /\ e.ev = "exited" /\ e.gen = f.gen
    BY <2>a
  <2>3. posts' \in Seq(PostType(n)) /\ PostsKept /\ NowReported(f.gen)
    BY <1>1, <2>1, <2>2, PostAdded
  <2> QED BY <1>1, <1>2, <1>3, <2>1, <2>3 DEF Goes
<1>4. CASE f.op = "failed"
  <2> DEFINE x == Exited(p.gen, TRUE, "other")
  <2>1. posts' = Append(posts, x) /\ settings' = s /\ proc' = p
    BY <1>4 DEF Continue
  <2>a. x \in PostType(n) /\ x.ev = "exited" /\ x.gen = p.gen
    BY <1>1 DEF Exited, PostType
  <2> HIDE DEF x
  <2>2. PICK e \in PostType(n) : e = x /\ e.ev = "exited" /\ e.gen = p.gen
    BY <2>a
  <2>3. posts' \in Seq(PostType(n)) /\ PostsKept /\ NowReported(p.gen)
    BY <1>1, <2>1, <2>2, PostAdded
  <2> QED BY <1>1, <1>2, <1>4, <2>1, <2>3 DEF Goes
<1>5. CASE f.op = "restart"
  <2>1. Restart(s, p)
    BY <1>5 DEF Continue
  <2> QED BY <1>5, <2>1, RestartOk
<1>6. CASE f.op = "reset"
  <2>1. /\ settings' = [s EXCEPT !.startedId = None]
        /\ proc' = [Killed(p) EXCEPT !.expected = p.gen]
        /\ posts' = posts \o StartedBy(p)
    BY <1>6 DEF Continue
  <2>2. posts' \in Seq(PostType(n)) /\ PostsKept
    BY <1>1, <2>1, StartedByOk, PostsAdded
  <2>3. proc' \in ProcType(n) /\ ProcStep(p, proc') /\ Lives(p, proc') /\ proc'.pid = p.pid
    BY <1>1, <2>1, ExpectedOk
  <2>4. settings' \in SettingsType /\ (settings'.prepareExit <=> s.prepareExit) /\ settings'.startedId = None
    BY <2>1, StartedOk, Facts
  <2> QED BY <1>6, <2>2, <2>3, <2>4 DEF Goes
<1> QED BY <1>1, <1>3, <1>4, <1>5, <1>6

\* A frame that stops the running profile first: it waits, or goes on at once.
LEMMA StopThenOk ==
  ASSUME IInv, NEW f \in FrameType(setup.gens), f.op # "none", NEW s \in SettingsType,
         NEW p \in ProcType(setup.gens), p.pid <= p.gen, StopThen(f, s, p)
  PROVE  /\ Goes(p) /\ settings' \in SettingsType
         /\ settings'.prepareExit <=> s.prepareExit
         /\ settings'.startedId \in {None, s.startedId}
         /\ blocked' \in FrameType(setup.gens) /\ FrameInv' /\ stopper' \in {"nobody", "frame", "user", "exit"}
         /\ running' = running /\ starting' = starting
         /\ f.op = "exit" => blocked' = f \/ NowReported(f.gen)
         /\ blocked.op # "none" => blocked' = blocked
         /\ proc'.pid # p.pid => f.op = "restart"
<1>1. CASE running # None /\ stopper = "nobody"
  <2>1. /\ blocked' = f /\ stopper' = "frame" /\ settings' = s /\ proc' = p
        /\ UNCHANGED <<posts, running, starting>>
    BY <1>1 DEF StopThen
  <2>2. blocked.op = "none"
    BY <1>1 DEF IInv, FrameInv
  <2>3. posts \in Seq(PostType(setup.gens)) /\ Len(posts) \in Nat /\ p.gen \in Nat
    BY Facts, LenProperties DEF ProcType
  <2>4. Goes(p)
    BY <2>1, <2>3 DEF Goes, ProcStep, Lives, PostsKept
  <2>5. FrameInv'
    BY <2>1 DEF FrameInv
  <2> QED BY <2>1, <2>2, <2>4, <2>5
<1>2. CASE ~(running # None /\ stopper = "nobody")
  <2>1. Continue(f, s, p) /\ UNCHANGED <<blocked, stopper, running, starting>>
    BY <1>2 DEF StopThen, conn
  <2>2. /\ Goes(p) /\ settings' \in SettingsType
        /\ settings'.prepareExit <=> s.prepareExit
        /\ settings'.startedId \in {None, s.startedId}
        /\ f.op = "exit" => NowReported(f.gen)
        /\ proc'.pid # p.pid => f.op = "restart"
    BY <2>1, ContinueOk
  <2>3. FrameInv' /\ blocked' \in FrameType(setup.gens) /\ stopper' \in {"nobody", "frame", "user", "exit"}
    BY <2>1 DEF IInv, TypeInv, FrameInv
  <2> QED BY <2>1, <2>2, <2>3
<1> QED BY <1>1, <1>2

\* The crash stop is over and its frame goes on.
LEMMA CrashStopDoneKeeps == ASSUME IInv, CrashStopDone PROVE IInv'
<1> DEFINE s == IF blocked.manual THEN [settings EXCEPT !.startedId = None] ELSE settings
<1>1. /\ stopper = "frame" /\ running' = None /\ stopper' = "nobody" /\ blocked' = NoFrame
      /\ Continue(blocked, s, proc)
      /\ UNCHANGED <<m, cores, starting, sock, probe, down, hist>>
  BY DEF CrashStopDone
<1>2. /\ settings \in SettingsType /\ proc \in ProcType(setup.gens) /\ blocked \in FrameType(setup.gens)
      /\ None \in ProfileOrNone /\ NoFrame \in FrameType(setup.gens) /\ NoFrame.op = "none"
      /\ proc.pid <= proc.gen /\ blocked.op # "none"
  BY <1>1, Facts, Constructors DEF IInv, GenInv, FrameInv
<1>3. s \in SettingsType /\ (s.prepareExit <=> settings.prepareExit) /\ s.startedId \in {None, settings.startedId}
  <2>1. CASE s = settings
    BY <1>2, <2>1
  <2>2. CASE s = [settings EXCEPT !.startedId = None]
    BY <1>2, <2>2, StartedOk
  <2> QED BY <2>1, <2>2
<1> HIDE DEF s
<1>4. /\ Goes(proc) /\ settings' \in SettingsType
      /\ settings'.prepareExit <=> s.prepareExit
      /\ settings'.startedId \in {None, s.startedId}
      /\ blocked.op = "exit" => NowReported(blocked.gen)
  BY <1>1, <1>2, <1>3, ContinueOk
<1>5. TypeInv'
  BY <1>1, <1>2, <1>4 DEF IInv, TypeInv, Goes, hist
<1>6. FrameInv'
  BY <1>1, <1>2 DEF FrameInv
<1>7. EndReported /\ Takes
  BY <1>1, <1>4 DEF EndReported, Takes, Goes
<1> QED BY <1>1, <1>3, <1>4, <1>5, <1>6, <1>7, CoreSide DEF Goes

\* A spawned process has started.
LEMMA ProcessStartedKeeps == ASSUME IInv, ProcessStarted PROVE IInv'
<1> DEFINE n == setup.gens
<1>1. /\ proc.st = "starting" /\ proc' = [proc EXCEPT !.st = "running"]
      /\ posts' = Append(posts, Spawned(proc.gen))
      /\ UNCHANGED <<m, settings, cores, blocked, conn, sock, probe, down, hist>>
  BY DEF ProcessStarted
<1>2. n \in Nat /\ proc \in ProcType(n) /\ posts \in Seq(PostType(n)) /\ proc.gen \in 0 .. n /\ proc.pid <= proc.gen
  BY Facts DEF IInv, GenInv
<1>3. PICK e \in PostType(n) : e = Spawned(proc.gen)
  BY <1>2, Constructors
<1>4. posts' \in Seq(PostType(n)) /\ PostsKept
  BY <1>1, <1>2, <1>3, PostAdded
<1>5. proc' \in ProcType(n) /\ proc'.st = "running" /\ proc'.gen = proc.gen /\ proc'.pid = proc.pid
  BY <1>1, <1>2 DEF ProcType, Alive
<1>6. ProcStep(proc, proc') /\ EndReported /\ Takes
  BY <1>1, <1>2, <1>5 DEF ProcStep, Lives, EndReported, Takes, Alive
<1> HIDE DEF n
<1>7. TypeInv' /\ FrameInv'
  BY <1>1, <1>4, <1>5 DEF IInv, TypeInv, FrameInv, conn, hist, n
<1> QED BY <1>1, <1>4, <1>6, <1>7, CoreSide DEF IInv, SayInv, conn, hist

\* The process ends: its report is posted now or waits for the crash stop.
LEMMA ProcessEndsKeeps ==
  ASSUME IInv, NEW f \in FrameType(setup.gens), proc.st \in Alive, ProcessEnds(f),
         (f.op = "failed" /\ proc.st = "starting") \/ (f.op = "exit" /\ f.gen = proc.gen)
  PROVE  IInv' /\ proc'.pid = proc.pid
<1> DEFINE n == setup.gens
           s == [settings EXCEPT !.coreRunning = FALSE]
           p == [proc EXCEPT !.st = "none"]
<1>1. /\ UNCHANGED <<m, cores, sock, probe, down, hist>>
      /\ IF settings.prepareExit
         THEN settings' = s /\ proc' = p /\ UNCHANGED <<posts, blocked, conn>>
         ELSE StopThen(f, s, p)
  BY DEF ProcessEnds
<1>2. /\ n \in Nat /\ settings \in SettingsType /\ proc \in ProcType(n) /\ proc.pid <= proc.gen
      /\ posts \in Seq(PostType(n)) /\ Len(posts) \in Nat /\ proc.gen \in Nat
  BY Facts, LenProperties DEF IInv, GenInv
<1>3. s \in SettingsType /\ (s.prepareExit <=> settings.prepareExit) /\ s.startedId = settings.startedId
  BY <1>2 DEF SettingsType
<1>4. p \in ProcType(n) /\ p.gen = proc.gen /\ p.pid = proc.pid /\ p.st = "none"
  BY <1>2 DEF ProcType, Alive
<1> HIDE DEF s, p
<1>5. CASE settings.prepareExit
  <2>1. settings' = s /\ proc' = p /\ UNCHANGED <<posts, blocked, conn>>
    BY <1>1, <1>5
  <2>2. ProcStep(proc, proc') /\ PostsKept /\ Takes
    BY <1>1, <1>2, <1>4, <2>1 DEF ProcStep, PostsKept, Takes, Alive
  <2> HIDE DEF n
  <2>3. TypeInv' /\ FrameInv'
    BY <1>1, <1>3, <1>4, <2>1 DEF IInv, TypeInv, FrameInv, conn, hist, n
  <2>4. IInv'
    BY <1>1, <1>3, <1>5, <2>1, <2>2, <2>3, CoreSide DEF conn
  <2> QED BY <1>4, <2>1, <2>4
<1>6. CASE ~settings.prepareExit
  <2>1. StopThen(f, s, p) /\ f.op # "none"
    BY <1>1, <1>6
  <2>2. /\ Goes(p) /\ settings' \in SettingsType
        /\ settings'.prepareExit <=> s.prepareExit
        /\ settings'.startedId \in {None, s.startedId}
        /\ blocked' \in FrameType(n) /\ FrameInv' /\ stopper' \in {"nobody", "frame", "user", "exit"}
        /\ running' = running /\ starting' = starting
        /\ f.op = "exit" => blocked' = f \/ NowReported(f.gen)
        /\ blocked.op # "none" => blocked' = blocked
        /\ proc'.pid # p.pid => f.op = "restart"
    BY <1>2, <1>3, <1>4, <2>1, StopThenOk
  <2>3. ProcStep(proc, proc') /\ PostsKept
    BY <1>4, <2>2 DEF Goes, ProcStep
  <2>4. proc.st # "starting" => EndReported
    BY <2>2 DEF EndReported
  <2>5. Takes
    BY <1>1 DEF Takes, Alive
  <2> HIDE DEF n
  <2>6. TypeInv'
    BY <1>1, <2>2 DEF IInv, TypeInv, Goes, hist, n
  <2>7. IInv'
    BY <1>1, <1>3, <2>2, <2>3, <2>4, <2>5, <2>6, CoreSide
  <2> QED BY <1>4, <2>2, <2>7
<1> QED BY <1>5, <1>6

\* A spawn fails.
LEMMA SpawnFailsKeeps == ASSUME IInv, SpawnFails PROVE IInv' /\ proc'.pid = proc.pid
<1>1. setup.gens \in Nat /\ proc.gen \in 0 .. setup.gens
  BY Facts
<1> DEFINE f == Frame("failed", proc.gen, "other", FALSE)
<1>2. f \in FrameType(setup.gens) /\ f.op = "failed"
  BY <1>1 DEF Frame, FrameType
<1>3. proc.st = "starting" /\ proc.st \in Alive /\ ProcessEnds(f)
  BY DEF SpawnFails, Alive
<1>4. (f.op = "failed" /\ proc.st = "starting") \/ (f.op = "exit" /\ f.gen = proc.gen)
  BY <1>2, <1>3
<1> HIDE DEF f
<1>5. f \in FrameType(setup.gens) /\ proc.st \in Alive /\ ProcessEnds(f)
  BY <1>2, <1>3
<1> QED BY <1>4, <1>5, ProcessEndsKeeps

\* A core exits.
LEMMA CoreExitsKeeps == ASSUME IInv, CoreExits PROVE IInv' /\ proc'.pid = proc.pid
<1>1. setup.gens \in Nat /\ proc.gen \in 0 .. setup.gens
  BY Facts
<1>2. PICK code \in {"identity", "other"} : ProcessEnds(Frame("exit", proc.gen, code, FALSE))
  BY DEF CoreExits
<1> DEFINE f == Frame("exit", proc.gen, code, FALSE)
<1>3. f \in FrameType(setup.gens) /\ f.op = "exit" /\ f.gen = proc.gen
  BY <1>1 DEF Frame, FrameType
<1>4. proc.st \in Alive /\ ProcessEnds(f)
  BY <1>2 DEF CoreExits, Alive
<1> HIDE DEF f
<1> QED BY <1>3, <1>4, ProcessEndsKeeps

\* The core dials.
LEMMA CoreDialsKeeps == ASSUME IInv, CoreDials PROVE IInv'
<1> DEFINE n == setup.gens
<1>1. /\ proc.st = "running" /\ sock' = proc.pid /\ proc' = [proc EXCEPT !.dialed = TRUE]
      /\ UNCHANGED <<m, settings, cores, posts, blocked, conn, probe, down, hist>>
  BY DEF CoreDials
<1>2. /\ n \in Nat /\ proc \in ProcType(n) /\ proc.pid <= proc.gen /\ proc.pid \in 0 .. n
      /\ posts \in Seq(PostType(n)) /\ Len(posts) \in Nat
  BY Facts, LenProperties DEF IInv, GenInv
<1>a. proc.gen \in Nat
  BY <1>2 DEF ProcType
<1>b. [proc EXCEPT !.dialed = TRUE] \in ProcType(n)
  BY <1>2 DEF ProcType
<1>c. /\ [proc EXCEPT !.dialed = TRUE].st = proc.st /\ [proc EXCEPT !.dialed = TRUE].gen = proc.gen
      /\ [proc EXCEPT !.dialed = TRUE].pid = proc.pid
  BY <1>2 DEF ProcType
<1>3. proc' \in ProcType(n) /\ proc'.st = proc.st /\ proc'.gen = proc.gen /\ proc'.pid = proc.pid /\ proc.gen \in Nat
  BY <1>1, <1>a, <1>b, <1>c
<1>4. ProcStep(proc, proc') /\ EndReported /\ Takes /\ PostsKept
  BY <1>1, <1>2, <1>3 DEF ProcStep, Lives, EndReported, Takes, PostsKept
<1> HIDE DEF n
<1>5. TypeInv' /\ FrameInv'
  BY <1>1, <1>2, <1>3 DEF IInv, TypeInv, FrameInv, conn, hist, n
<1> QED BY <1>1, <1>3, <1>4, <1>5, CoreSide DEF conn, hist


\* A task that was taken, and did what its limits allow.
LEMMA TaskTaken ==
  ASSUME IInv, cores # << >>, cores' = Tail(cores), UNCHANGED <<m, sock, probe, hist, running, starting>>,
         proc' \in ProcType(setup.gens), ProcStep(proc, proc'),
         posts' \in Seq(PostType(setup.gens)), PostsKept,
         settings' \in SettingsType, settings'.prepareExit <=> settings.prepareExit,
         settings'.startedId \in {None, settings.startedId},
         blocked' \in FrameType(setup.gens), stopper' \in {"nobody", "frame", "user", "exit"}, FrameInv',
         down' \in {"no", "killing", "closed"},
         ~settings.prepareExit => EndReported
  PROVE  IInv'
<1>1. cores' \in Seq(TaskType(setup.gens)) /\ Takes
  BY Facts, Shrinks DEF Takes
<1>2. TypeInv'
  BY <1>1 DEF IInv, TypeInv, hist
<1> QED BY <1>1, <1>2, CoreSide

\* A frame that a task begins.
LEMMA TaskStops ==
  ASSUME IInv, cores # << >>, cores' = Tail(cores), UNCHANGED <<m, sock, probe, hist, down>>,
         NEW f \in FrameType(setup.gens), f.op \in {"restart", "reset"}, StopThen(f, settings, proc)
  PROVE  IInv'
<1>1. settings \in SettingsType /\ proc \in ProcType(setup.gens) /\ proc.pid <= proc.gen /\ f.op # "none"
  BY Facts DEF IInv, GenInv
<1>2. /\ Goes(proc) /\ settings' \in SettingsType
      /\ settings'.prepareExit <=> settings.prepareExit
      /\ settings'.startedId \in {None, settings.startedId}
      /\ blocked' \in FrameType(setup.gens) /\ FrameInv' /\ stopper' \in {"nobody", "frame", "user", "exit"}
      /\ running' = running /\ starting' = starting
      /\ blocked.op # "none" => blocked' = blocked
  BY <1>1, StopThenOk
<1>3. EndReported
  BY <1>2 DEF EndReported, Goes
<1>4. down' \in {"no", "killing", "closed"}
  BY DEF IInv, TypeInv
<1> QED BY <1>2, <1>3, <1>4, TaskTaken DEF Goes

\* A task of DS_cores.
LEMMA TakeTaskKeeps == ASSUME IInv, TakeTask PROVE IInv'
<1> DEFINE n == setup.gens
           t == Head(cores)
<1>1. cores # << >> /\ cores' = Tail(cores) /\ UNCHANGED <<m, sock, probe, hist>>
  BY DEF TakeTask
<1>2. /\ n \in Nat /\ n >= 1 /\ settings \in SettingsType /\ proc \in ProcType(n) /\ proc.pid <= proc.gen
      /\ proc.gen \in Nat /\ proc.pid \in Nat /\ blocked \in FrameType(n)
      /\ posts \in Seq(PostType(n)) /\ Len(posts) \in Nat
  BY Facts, LenProperties DEF IInv, GenInv, Setup
<1>3. /\ stopper \in {"nobody", "frame", "user", "exit"} /\ down \in {"no", "killing", "closed"} /\ FrameInv
  BY DEF IInv, TypeInv
<1>4. t \in TaskType(n) /\ t = cores[1] /\ 1 \in 1 .. Len(cores)
  BY <1>1, Facts, Shrinks
<1>5. /\ t.op = "create" => proc.st = "absent"
      /\ t.op = "exitKill" => settings.prepareExit
  BY <1>4 DEF IInv, TaskInv
<1>6. ProcStep(proc, proc) /\ Lives(proc, proc)
  BY <1>2 DEF ProcStep, Lives
<1>7. posts' = posts => posts' \in Seq(PostType(n)) /\ PostsKept
  BY <1>2 DEF PostsKept
<1>8. UNCHANGED <<blocked, conn>> =>
        /\ blocked' \in FrameType(n) /\ stopper' \in {"nobody", "frame", "user", "exit"} /\ FrameInv'
        /\ UNCHANGED <<running, starting>>
        /\ (blocked.op = "exit" => blocked' = blocked)
  BY <1>2, <1>3 DEF FrameInv, conn
<1>9. CASE t.op = "create"
  <2>1. /\ proc' = [proc EXCEPT !.gen = 1, !.pid = 1, !.st = "starting"]
        /\ UNCHANGED <<settings, posts, blocked, conn, down>>
    BY <1>9 DEF TakeTask
  <2>2. proc.st = "absent" /\ proc.gen = 0 /\ proc.pid = 0
    BY <1>2, <1>5, <1>9 DEF IInv, GenInv
  <2>a. 1 \in 0 .. n /\ "starting" \in Alive
    BY <1>2 DEF Alive
  <2>b. proc' \in ProcType(n)
    BY <1>2, <2>1, <2>a DEF ProcType
  <2>3. proc' \in ProcType(n) /\ proc'.gen = 1 /\ proc'.pid = 1 /\ proc'.st = "starting"
    BY <1>2, <2>1, <2>b DEF ProcType
  <2>4. ProcStep(proc, proc') /\ Lives(proc, proc')
    BY <2>2, <2>3 DEF ProcStep, Lives
  <2>5. EndReported
    BY <1>8, <2>1, <2>4 DEF EndReported
  <2> HIDE DEF n, t
  <2> QED BY <1>1, <1>2, <1>3, <1>7, <1>8, <2>1, <2>3, <2>4, <2>5, TaskTaken DEF n
<1>10. CASE t.op = "restart"
  <2>1. CASE settings.prepareExit
    <3>1. UNCHANGED <<proc, settings, posts, blocked, conn, down>>
      BY <1>10, <2>1 DEF TakeTask
    <3> HIDE DEF n, t
    <3> QED BY <1>1, <1>2, <1>3, <1>6, <1>7, <1>8, <2>1, <3>1, TaskTaken DEF n
  <2>2. CASE ~settings.prepareExit /\ t.stop = "no"
    <3>1. Restart(settings, proc) /\ UNCHANGED <<blocked, conn, down>>
      BY <1>10, <2>2 DEF TakeTask
    <3>2. /\ Goes(proc) /\ settings' \in SettingsType
          /\ settings'.prepareExit <=> settings.prepareExit
          /\ settings'.startedId = settings.startedId
      BY <1>2, <3>1, RestartOk
    <3>3. EndReported
      BY <1>8, <3>1, <3>2 DEF EndReported, Goes
    <3> HIDE DEF n, t
    <3> QED BY <1>1, <1>3, <1>8, <3>1, <3>2, <3>3, TaskTaken DEF Goes, n
  <2>3. CASE ~settings.prepareExit /\ t.stop # "no"
    <3> DEFINE f == Frame("restart", 0, "other", t.stop = "manual")
    <3>1. StopThen(f, settings, proc) /\ UNCHANGED down
      BY <1>10, <2>3 DEF TakeTask
    <3>2. f \in FrameType(n) /\ f.op = "restart"
      BY <1>2 DEF Frame, FrameType
    <3> HIDE DEF f
    <3> QED BY <1>1, <3>1, <3>2, TaskStops
  <2> QED BY <2>1, <2>2, <2>3
<1>11. CASE t.op = "reset"
  <2> DEFINE f == Frame("reset", 0, "other", TRUE)
  <2>1. StopThen(f, settings, proc) /\ UNCHANGED down
    BY <1>11 DEF TakeTask
  <2>2. f \in FrameType(n) /\ f.op = "reset"
    BY <1>2 DEF Frame, FrameType
  <2> HIDE DEF f
  <2> QED BY <1>1, <2>1, <2>2, TaskStops
<1>12. CASE t.op \in {"expectKill", "kill"}
  <2>1. /\ \/ proc' = [Killed(proc) EXCEPT !.expected = proc.gen] \/ proc' = Killed(proc) \/ proc' = proc
        /\ posts' = posts \o StartedBy(proc) \/ posts' = posts \o << >>
        /\ UNCHANGED <<settings, blocked, conn, down>>
    BY <1>12 DEF TakeTask
  <2>2. proc' \in ProcType(n) /\ ProcStep(proc, proc') /\ Lives(proc, proc')
    BY <1>2, <1>6, <2>1, KilledOk, ExpectedOk
  <2>3. StartedBy(proc) \in Seq(PostType(n)) /\ << >> \in Seq(PostType(n))
    BY <1>2, StartedByOk
  <2>4. posts' \in Seq(PostType(n)) /\ PostsKept
    BY <1>2, <2>1, <2>3, PostsAdded
  <2>5. EndReported
    BY <1>8, <2>1, <2>2 DEF EndReported
  <2> HIDE DEF n, t
  <2> QED BY <1>1, <1>2, <1>3, <1>8, <2>1, <2>2, <2>4, <2>5, TaskTaken DEF n
<1>13. CASE t.op = "exitKill"
  <2>1. /\ (proc' = [proc EXCEPT !.st = "none"] /\ proc.st \in Alive) \/ proc' = proc
        /\ settings' = [settings EXCEPT !.coreRunning = FALSE]
        /\ down' = "closed"
        /\ UNCHANGED <<posts, blocked, conn>>
    BY <1>13 DEF TakeTask
  <2>2. settings' \in SettingsType /\ (settings'.prepareExit <=> settings.prepareExit) /\ settings'.startedId = settings.startedId
    BY <1>2, <2>1 DEF SettingsType
  <2>3. CASE proc' = [proc EXCEPT !.st = "none"] /\ proc.st \in Alive
    <3>1. proc' \in ProcType(n) /\ proc'.gen = proc.gen /\ proc'.pid = proc.pid /\ proc'.st = "none"
      BY <1>2, <2>3 DEF ProcType, Alive
    <3>2. ProcStep(proc, proc')
      BY <1>2, <2>3, <3>1 DEF ProcStep, Alive
    <3> HIDE DEF n, t
    <3> QED BY <1>1, <1>5, <1>7, <1>8, <1>13, <2>1, <2>2, <3>1, <3>2, TaskTaken DEF n
  <2>4. CASE proc' = proc
    <3> HIDE DEF n, t
    <3> QED BY <1>1, <1>2, <1>5, <1>6, <1>7, <1>8, <1>13, <2>1, <2>2, <2>4, TaskTaken DEF n
  <2> QED BY <2>1, <2>3, <2>4
<1> QED BY <1>4, <1>9, <1>10, <1>11, <1>12, <1>13 DEF TaskType

-----------------------------------------------------------------------------
(* The invariant, and what follows from it. *)

\* The invariant holds when the program begins.
LEMMA InitIInv == Init => IInv
<1> SUFFICES ASSUME Init PROVE IInv
  OBVIOUS
<1>1. setup \in Setup /\ setup.gens \in Nat /\ None \in ProfileOrNone
  BY SetupAssumption DEF Init, Setup, ProfileOrNone
<1>2. /\ NoStart \in StartType(setup.gens) /\ NoFrame \in FrameType(setup.gens) /\ NoFrame.op = "none"
      /\ NoStart.pid = 0
  BY <1>1, Constructors DEF NoStart
<1>3. m \in MainType(setup.gens) /\ m.state = "NotStarted" /\ m.acceptedGen = 0
  BY <1>1 DEF Init, MainType, StateType
<1>4. proc \in ProcType(setup.gens) /\ proc.st = "absent" /\ proc.gen = 0 /\ proc.pid = 0
  BY <1>1 DEF Init, ProcType, Alive
<1>5. settings \in SettingsType
  BY <1>1 DEF Init, SettingsType
<1>6. cores \in Seq(TaskType(setup.gens)) /\ posts \in Seq(PostType(setup.gens)) /\ Len(cores) = 0
  BY DEF Init
<1>7. TypeInv
  BY <1>1, <1>2, <1>3, <1>4, <1>5, <1>6 DEF Init, TypeInv, AskedType
<1>8. GenInv
  BY <1>2, <1>3, <1>4 DEF Init, GenInv
<1>9. TaskInv
  BY <1>6 DEF TaskInv
<1>10. FrameInv /\ StartInv /\ SayInv /\ ConnInv
  BY <1>2, <1>3, <1>4 DEF Init, FrameInv, StartInv, SayInv, ConnInv
<1> QED BY <1>7, <1>8, <1>9, <1>10 DEF IInv

\* Every step keeps it.
LEMMA NextIInv == IInv /\ [Next]_vars => IInv'
<1> SUFFICES ASSUME IInv, [Next]_vars PROVE IInv'
  OBVIOUS
<1>1. CASE UNCHANGED vars
  BY <1>1 DEF vars, IInv, TypeInv, GenInv, TaskInv, FrameInv, StartInv, SayInv, StartIsLive, ConnInv, Reported
<1>2. CASE CrashStopDone
  BY <1>2, CrashStopDoneKeeps
<1>3. CASE TakeTask
  BY <1>3, TakeTaskKeeps
<1>4. CASE ProcessStarted
  BY <1>4, ProcessStartedKeeps
<1>5. CASE SpawnFails
  BY <1>5, SpawnFailsKeeps
<1>6. CASE CoreExits
  BY <1>6, CoreExitsKeeps
<1>7. CASE CoreDials
  BY <1>7, CoreDialsKeeps
<1>8. CASE onNewConnection
  BY <1>8, NewConnectionKeeps
<1>9. CASE onPrivilegeProbed
  BY <1>9, PrivilegeProbedKeeps
<1>10. CASE onCoreSpawned
  BY <1>10, CoreSpawnedKeeps
<1>11. CASE onConnectTimeout
  BY <1>11, ConnectTimeoutKeeps
<1>12. CASE onCoreExited
  BY <1>12, CoreExitedKeeps
<1>13. CASE postRestart
  BY <1>13, PostRestartKeeps
<1>14. CASE restartDeadCore
  BY <1>14, RestartDeadCoreKeeps
<1>15. CASE listen
  BY <1>15, ListenKeeps
<1>16. ASSUME NEW p \in ProfileOrNone, start(p) PROVE IInv'
  BY <1>16, StartKeeps
<1>17. CASE resetCore
  BY <1>17, ResetCoreKeeps
<1>18. CASE restartForGuard
  BY <1>18, RestartForGuardKeeps
<1>19. CASE killForPrivilegeChange
  BY <1>19, KillForPrivilegeChangeKeeps
<1>20. ASSUME NEW p \in Profile, userStart(p) PROVE IInv'
  BY <1>20, UserStartKeeps
<1>21. CASE startAnswered
  BY <1>21, StartAnsweredKeeps
<1>22. CASE userStop
  BY <1>22, UserStopKeeps
<1>23. CASE stopDone
  BY <1>23, StopDoneKeeps
<1>24. CASE prepareExit
  BY <1>24, PrepareExitKeeps
<1>25. CASE killForExit
  BY <1>25, KillForExitKeeps
<1>26. CASE shutdown
  BY <1>26, ShutdownKeeps
<1>27. CASE Ends
  BY <1>1, <1>27 DEF Ends
<1> QED
  BY <1>1, <1>2, <1>3, <1>4, <1>5, <1>6, <1>7, <1>8, <1>9, <1>10, <1>11, <1>12, <1>13, <1>14, <1>15,
     <1>16, <1>17, <1>18, <1>19, <1>20, <1>21, <1>22, <1>23, <1>24, <1>25, <1>26, <1>27 DEF Next

\* The state type of the module, spelled out there.
LEMMA TypesOk == TypeInv => TypeOK
<1> SUFFICES ASSUME TypeInv PROVE TypeOK
  OBVIOUS
<1>1. /\ cores \in Seq(TaskType(setup.gens)) /\ posts \in Seq(PostType(setup.gens))
      /\ DOMAIN cores = 1 .. Len(cores) /\ DOMAIN posts = 1 .. Len(posts)
  BY LenProperties DEF TypeInv
<1>2. \A i \in DOMAIN cores : cores[i] \in TaskType(setup.gens)
  BY <1>1, ElementOfSeq
<1>3. \A i \in DOMAIN posts : posts[i] \in PostType(setup.gens)
  BY <1>1, ElementOfSeq
<1> QED
  BY <1>2, <1>3
  DEF TypeOK, TypeInv, MainType, StateType, ProcType, SettingsType, TaskType, PostType, FrameType, StartType,
      AskedType, Gen, MaxGen

\* What the user sees of the invariant.
LEMMA IInvShows == IInv => ConnectedIsReal
<1> SUFFICES ASSUME IInv PROVE ConnectedIsReal
  OBVIOUS
<1>1. TypeOK /\ DOMAIN posts = 1 .. Len(posts) /\ m.acceptedGen \in Nat /\ proc.gen \in Nat
  BY Facts, TypesOk, LenProperties DEF IInv
<1>2. ASSUME m.state = "Connected", ~settings.prepareExit
      PROVE  \/ proc.gen = m.acceptedGen /\ proc.st \in Alive
             \/ ExitOnTheWay(m.acceptedGen)
             \/ proc.gen > m.acceptedGen
  <2>1. \/ proc.gen = m.acceptedGen /\ proc.st \in Alive
        \/ blocked.op = "exit" /\ blocked.gen = m.acceptedGen
        \/ Reported(m.acceptedGen)
        \/ m.acceptedGen < proc.gen
    BY <1>2 DEF IInv, ConnInv
  <2>2. Reported(m.acceptedGen) => ExitOnTheWay(m.acceptedGen)
    BY <1>1 DEF Reported, ExitOnTheWay
  <2>3. blocked.op = "exit" /\ blocked.gen = m.acceptedGen => ExitOnTheWay(m.acceptedGen)
    BY DEF ExitOnTheWay
  <2>4. m.acceptedGen < proc.gen => proc.gen > m.acceptedGen
    BY <1>1
  <2> QED BY <2>1, <2>2, <2>3, <2>4
<1> QED BY <1>1, <1>2 DEF ConnectedIsReal

\* A supervisor that reports Connected has a live core, a report of its exit on the way to
\* onCoreExited(), or a newer core: no exit is lost between the cleanup on DS_cores and the main
\* thread, whatever overtakes the crash stop.
THEOREM ConnectedMeansReal == Spec => []ConnectedIsReal
<1>1. Init => IInv
  BY InitIInv
<1>2. IInv /\ [Next]_vars => IInv'
  BY NextIInv
<1>3. IInv => ConnectedIsReal
  BY IInvShows
<1> QED BY <1>1, <1>2, <1>3, PTL DEF Spec

-----------------------------------------------------------------------------
(* The exit. *)

\* Once prepare_exit is set nothing is carried, and a core is spawned only by the first task or by a
\* restart that was past its check.
Quiet ==
  /\ carried' = carried
  /\ proc'.pid # proc.pid => blocked.op = "restart" \/ proc.st = "absent"

\* A step of DS_cores while the program exits.
LEMMA CoresQuiet ==
  ASSUME IInv, settings.prepareExit, CrashStopDone \/ TakeTask \/ ProcessStarted \/ SpawnFails \/ CoreExits \/ CoreDials
  PROVE  Quiet
<1>1. settings \in SettingsType /\ proc \in ProcType(setup.gens) /\ proc.pid <= proc.gen
  BY Facts DEF IInv, GenInv
<1>2. CASE CrashStopDone
  <2> DEFINE s == IF blocked.manual THEN [settings EXCEPT !.startedId = None] ELSE settings
  <2>1. Continue(blocked, s, proc) /\ carried' = carried /\ stopper = "frame"
    BY <1>2 DEF CrashStopDone, hist
  <2>2. blocked \in FrameType(setup.gens) /\ blocked.op # "none"
    BY <2>1, Facts DEF IInv, FrameInv
  <2>3. s \in SettingsType
    <3>1. None \in ProfileOrNone
      BY DEF ProfileOrNone
    <3>2. [settings EXCEPT !.startedId = None] \in SettingsType
      BY <1>1, <3>1, StartedOk
    <3> QED BY <1>1, <3>2
  <2> HIDE DEF s
  <2>4. proc'.pid # proc.pid => blocked.op = "restart"
    BY <1>1, <2>1, <2>2, <2>3, ContinueOk
  <2> QED BY <2>1, <2>4 DEF Quiet
<1>3. CASE TakeTask
  <2> DEFINE t == Head(cores)
  <2>1. t \in TaskType(setup.gens) /\ t = cores[1] /\ 1 \in 1 .. Len(cores) /\ carried' = carried
    BY <1>3, Facts, Shrinks DEF TakeTask, hist
  <2>2. CASE t.op = "create"
    <3>1. proc.st = "absent"
      BY <2>1, <2>2 DEF IInv, TaskInv
    <3> QED BY <2>1, <3>1 DEF Quiet
  <2>3. CASE t.op = "restart"
    <3>1. proc' = proc
      BY <1>3, <2>3 DEF TakeTask
    <3> QED BY <2>1, <3>1 DEF Quiet
  <2>4. CASE t.op = "reset"
    <3> DEFINE f == Frame("reset", 0, "other", TRUE)
    <3>1. StopThen(f, settings, proc)
      BY <1>3, <2>4 DEF TakeTask
    <3>2. f \in FrameType(setup.gens) /\ f.op = "reset"
      <4>1. setup.gens \in Nat
        BY Facts
      <4> QED BY <4>1 DEF Frame, FrameType
    <3> HIDE DEF f
    <3>3. proc'.pid = proc.pid
      BY <1>1, <3>1, <3>2, StopThenOk
    <3> QED BY <2>1, <3>3 DEF Quiet
  <2>5. CASE t.op \in {"expectKill", "kill"}
    <3>1. proc' = [Killed(proc) EXCEPT !.expected = proc.gen] \/ proc' = Killed(proc) \/ proc' = proc
      BY <1>3, <2>5 DEF TakeTask
    <3>2. proc'.pid = proc.pid
      <4>1. setup.gens \in Nat
        BY Facts
      <4> QED BY <1>1, <3>1, <4>1, KilledOk, ExpectedOk
    <3> QED BY <2>1, <3>2 DEF Quiet
  <2>6. CASE t.op = "exitKill"
    <3>1. proc' = [proc EXCEPT !.st = "none"] \/ proc' = proc
      BY <1>3, <2>6 DEF TakeTask
    <3>2. proc'.pid = proc.pid
      BY <1>1, <3>1 DEF ProcType
    <3> QED BY <2>1, <3>2 DEF Quiet
  <2> QED BY <2>1, <2>2, <2>3, <2>4, <2>5, <2>6 DEF TaskType
<1>4. CASE ProcessStarted
  <2>1. proc' = [proc EXCEPT !.st = "running"] /\ carried' = carried
    BY <1>4 DEF ProcessStarted, hist
  <2>2. proc'.pid = proc.pid
    BY <1>1, <2>1 DEF ProcType
  <2> QED BY <2>1, <2>2 DEF Quiet
<1>5. CASE SpawnFails
  <2>1. carried' = carried
    BY <1>5 DEF SpawnFails, ProcessEnds, hist
  <2> QED BY <1>5, <2>1, SpawnFailsKeeps DEF Quiet
<1>6. CASE CoreExits
  <2>1. carried' = carried
    BY <1>6 DEF CoreExits, ProcessEnds, hist
  <2> QED BY <1>6, <2>1, CoreExitsKeeps DEF Quiet
<1>7. CASE CoreDials
  <2>1. proc' = [proc EXCEPT !.dialed = TRUE] /\ carried' = carried
    BY <1>7 DEF CoreDials, hist
  <2>2. proc'.pid = proc.pid
    BY <1>1, <2>1 DEF ProcType
  <2> QED BY <2>1, <2>2 DEF Quiet
<1> QED BY <1>2, <1>3, <1>4, <1>5, <1>6, <1>7

\* Every step while the program exits.
LEMMA ExitsQuietly == ASSUME IInv, [Next]_vars, settings.prepareExit PROVE Quiet
<1>1. CASE CrashStopDone \/ TakeTask \/ ProcessStarted \/ SpawnFails \/ CoreExits \/ CoreDials
  BY <1>1, CoresQuiet
<1>2. CASE onPrivilegeProbed
  BY <1>2 DEF onPrivilegeProbed, Exiting, Quiet
<1>3. CASE onCoreExited
  <2>1. UNCHANGED <<asked, carried>> /\ proc' = proc
    BY <1>3 DEF onCoreExited, Exiting
  <2> QED BY <2>1 DEF Quiet
<1>4. CASE onNewConnection \/ onCoreSpawned \/ onConnectTimeout \/ postRestart \/ restartDeadCore \/ listen
  BY <1>4 DEF onNewConnection, onCoreSpawned, onConnectTimeout, postRestart, restartDeadCore, listen, hist,
     Quiet
<1>5. ASSUME NEW p \in ProfileOrNone, start(p) PROVE Quiet
  BY <1>5 DEF start, hist, Quiet
<1>6. CASE resetCore
  BY <1>6 DEF resetCore, Exiting
<1>7. CASE restartForGuard
  BY <1>7 DEF restartForGuard, Exiting
<1>8. CASE killForPrivilegeChange
  BY <1>8 DEF killForPrivilegeChange, Quiet
<1>9. ASSUME NEW p \in Profile, userStart(p) PROVE Quiet
  BY <1>9 DEF userStart, Exiting
<1>10. CASE userStop
  BY <1>10 DEF userStop, Exiting
<1>11. CASE startAnswered \/ stopDone \/ prepareExit \/ killForExit \/ shutdown
  BY <1>11 DEF startAnswered, stopDone, prepareExit, killForExit, shutdown, hist, Quiet
<1>12. CASE Ends \/ UNCHANGED vars
  BY <1>12 DEF Ends, vars, Quiet
<1> QED
  BY <1>1, <1>2, <1>3, <1>4, <1>5, <1>6, <1>7, <1>8, <1>9, <1>10, <1>11, <1>12 DEF Next

\* Nothing comes back that nobody wants: what the user stopped (cancelResume()), what onCoreExited()
\* declined, and any profile or core of a program that exits.
THEOREM UnwantedStaysAway == Spec => NothingUnwanted
<1>1. Init => IInv
  BY InitIInv
<1>2. IInv /\ [Next]_vars => IInv'
  BY NextIInv
<1>3. IInv => StopIsFinal /\ DeclinedForGood
  BY DEF IInv, SayInv, StopIsFinal, DeclinedForGood
<1>4. IInv /\ [Next]_vars =>
        [settings.prepareExit =>
           /\ carried' = carried
           /\ proc'.pid # proc.pid => blocked.op = "restart" \/ proc.st = "absent"]_vars
  BY ExitsQuietly DEF Quiet
<1> QED BY <1>1, <1>2, <1>3, <1>4, PTL DEF Spec, NothingUnwanted, ExitIsFinal
=============================================================================
