--------------------------- MODULE Tunnels_proofs ---------------------------
(***************************************************************************)
(* The tunnels of any number of machines over any number of transports:    *)
(* types, one connect task per machine, distinct ports, and the count of a *)
(* shared connection, which closes with its last user and never before.    *)
(***************************************************************************)
EXTENDS Tunnels, FiniteSetTheorems, TLAPS

\* The connection a machine holds a claim on.
Claim(m) == IF state[m] = None THEN None ELSE state[m].conn
TransportOfTask(t) == TransportOf[t.machine]
AtLock(t) == t.pc \in {"shake", "pin"}

\* An entry a tick has captured and nobody replaced is still in _STATE.
LiveIsThere == \A m \in Machines : snap[m] = "live" => state[m] # None

\* _transport_lock: one task of a transport is connecting for real, and only
\* while nothing is registered for it.
OneAtLock ==
    \A s, t \in tasks :
        AtLock(s) /\ AtLock(t) /\ TransportOfTask(s) = TransportOfTask(t) => s = t
LockedIsFresh == \A t \in tasks : AtLock(t) => registry[TransportOfTask(t)] = None

\* A connection about to be registered is open and nobody else's.
PinnedIsOwn ==
    \A t \in tasks : t.pc = "pin" =>
        /\ t.conn \in open
        /\ \A s \in tasks : s.pc = "pin" /\ s.conn = t.conn => s = t
        /\ \A x \in Transports : registry[x] # None => registry[x].conn # t.conn

\* A machine that is still connecting has no claim yet.
Unclaimed == \A t \in tasks : t.pc # "save" => Claim(t.machine) = None

RegisteredIsOwn ==
    \A x, y \in Transports :
        registry[x] # None /\ registry[y] # None /\ registry[x].conn = registry[y].conn
            => x = y

TypeInv == TypeOK /\ LiveIsThere
TaskInv == OneTaskEach /\ portless \subseteq connecting /\ PortsDistinct
LockInv == OneAtLock /\ LockedIsFresh /\ PinnedIsOwn /\ Unclaimed
CountInv == CountsUsers /\ RegisteredIsOwn /\ OpenWhileUsed
IInv == TypeInv /\ TaskInv /\ LockInv /\ CountInv

----------------------------------------------------------------------------
\* The helpers of Tunnels.

\* _release_machine keeps types and gives the captured entry its last phase.
LEMMA ReleaseType ==
  ASSUME TypeInv, NEW m \in Machines, ReleaseMachine(m)
  PROVE  /\ registry' \in [Transports -> Shared \cup {None}]
         /\ open' \subseteq Conns
         /\ snap' \in [Machines -> {"no", "live"} \cup Phases]
         /\ snap'[m] # "live"
         /\ \A n \in Machines \ {m} : snap'[n] = snap[n]
<1> DEFINE x == TransportOf[m]
<1>1. x \in Transports
  BY TransportOfIsFunction
<1>2. snap[m] = "live" => state[m].phase \in Phases
  BY DEF TypeInv, TypeOK, LiveIsThere, Entry
<1>3. /\ snap' \in [Machines -> {"no", "live"} \cup Phases]
      /\ snap'[m] # "live"
      /\ \A n \in Machines \ {m} : snap'[n] = snap[n]
  BY <1>2 DEF TypeInv, TypeOK, ReleaseMachine, Phases
<1>4. CASE UNCHANGED <<registry, open>>
  BY <1>3, <1>4 DEF TypeInv, TypeOK
<1>5. CASE open' = open \ {state[m].conn} /\ UNCHANGED registry
  BY <1>3, <1>5 DEF TypeInv, TypeOK
<1>6. CASE registry[x] # None /\ Drop(x)
  <2>1. registry[x].conn \in Conns /\ registry[x].refs \in Nat \ {0}
    BY <1>1, <1>6 DEF TypeInv, TypeOK, Shared
  <2>2. CASE registry[x].refs = 1
    BY <1>1, <1>3, <1>6, <2>2 DEF TypeInv, TypeOK, Drop
  <2>3. CASE registry[x].refs # 1
    <3>1. registry' = [registry EXCEPT ![x].refs = @ - 1] /\ open' = open
      BY <1>6, <2>3 DEF Drop
    <3>2. [registry[x] EXCEPT !.refs = @ - 1] \in Shared
      <4>1. registry[x] \in Shared /\ registry[x].refs - 1 \in Nat \ {0}
        BY <1>1, <1>6, <2>1, <2>3 DEF TypeInv, TypeOK
      <4>2. QED
        BY <4>1 DEF Shared
    <3>3. registry' = [registry EXCEPT ![x] = [registry[x] EXCEPT !.refs = @ - 1]]
      BY <3>1
    <3>4. QED
      BY <1>1, <1>3, <3>1, <3>2, <3>3 DEF TypeInv, TypeOK
  <2>4. QED
    BY <2>2, <2>3
<1>7. QED
  BY <1>4, <1>5, <1>6 DEF ReleaseMachine

\* _try_connect adds at most a task for a machine that has none.
LEMMA TryConnectType ==
  ASSUME TypeInv, NEW m \in Machines, TryConnect(m)
  PROVE  /\ connecting' \subseteq Machines /\ tasks' \subseteq Task
         /\ portless' \subseteq Machines /\ faults' \in 0..MaxFaults
<1>1. CASE UNCHANGED <<connecting, tasks, portless, faults>>
  BY <1>1 DEF TypeInv, TypeOK
<1>2. CASE /\ connecting' = connecting \cup {m}
           /\ Spawn(m) /\ UNCHANGED <<portless, faults>>
  BY <1>2 DEF TypeInv, TypeOK, Spawn, Task, FreePorts
<1>3. CASE connecting' = connecting \cup {m} /\ NoPort(m)
  BY <1>3, BoundsAreNumbers DEF TypeInv, TypeOK, NoPort, Fault
<1>4. QED
  BY <1>1, <1>2, <1>3 DEF TryConnect

LEMMA FreshEntryType == \A b \in Backoffs : FreshEntry(b) \in Entry /\ FreshEntry(b) # None
BY NoneIsNothing DEF FreshEntry, Entry, Phases

LEMMA OneIsBackoff == 1 \in Backoffs /\ \A b \in Backoffs : Doubled(b) \in Backoffs
BY BoundsAreNumbers DEF Backoffs, Doubled

----------------------------------------------------------------------------
LEMMA TypeInit == Init => TypeInv
BY BoundsAreNumbers DEF Init, TypeInv, TypeOK, LiveIsThere, LoopAt, Phases

\* What a connect task leaves behind keeps its type.
LEMMA TaskType ==
  ASSUME TypeInv, NEW t \in tasks
  PROVE  /\ t \in Task /\ t.machine \in Machines /\ t.port \in Ports
         /\ t.conn \in Conns \cup {None}
         /\ \A c \in Conns \cup {None}, pc \in {"read", "lock", "shake", "pin", "save"} :
                Moves(t, pc, c) => tasks' \subseteq Task
         /\ Over(t) => tasks' \subseteq Task /\ connecting' \subseteq Machines
<1>1. t \in Task
  BY DEF TypeInv, TypeOK
<1>2. \A c \in Conns \cup {None}, pc \in {"read", "lock", "shake", "pin", "save"} :
          [t EXCEPT !.pc = pc, !.conn = c] \in Task
  BY <1>1 DEF Task
<1>3. /\ t.machine \in Machines /\ t.port \in Ports /\ t.conn \in Conns \cup {None}
      /\ Over(t) => tasks' \subseteq Task /\ connecting' \subseteq Machines
  BY <1>1 DEF TypeInv, TypeOK, Task, Over
<1>4. ASSUME NEW c \in Conns \cup {None},
             NEW pc \in {"read", "lock", "shake", "pin", "save"}, Moves(t, pc, c)
      PROVE  tasks' \subseteq Task
  BY <1>2, <1>4 DEF TypeInv, TypeOK, Moves
<1>5. QED
  BY <1>1, <1>3, <1>4

\* The phase of an entry is all that a failure changes ...
LEMMA FailedType ==
  ASSUME TypeInv, NEW t \in tasks, Failed(t), UNCHANGED snap
  PROVE  /\ tasks' \subseteq Task /\ connecting' \subseteq Machines
         /\ state' \in [Machines -> Entry \cup {None}]
         /\ LiveIsThere'
<1>1. t.machine \in Machines /\ tasks' \subseteq Task /\ connecting' \subseteq Machines
  BY TaskType DEF Failed
<1>2. state[t.machine] # None => [state[t.machine] EXCEPT !.phase = "error"] \in Entry
  BY <1>1 DEF TypeInv, TypeOK, Entry, Phases
<1>3. CASE state[t.machine] = None
  BY <1>1, <1>3 DEF TypeInv, TypeOK, Failed, LiveIsThere
<1>4. CASE state[t.machine] # None
  <2>1. state' = [state EXCEPT ![t.machine] = [state[t.machine] EXCEPT !.phase = "error"]]
    BY <1>4 DEF Failed
  <2>2. QED
    BY <1>1, <1>2, <1>4, <2>1, NoneIsNothing DEF TypeInv, TypeOK, LiveIsThere
<1>5. QED
  BY <1>3, <1>4

\* ... and a connection is a whole new entry.
LEMMA ConnectedType ==
  ASSUME TypeInv, NEW t \in tasks, NEW c \in Conns, Connected(t, c), UNCHANGED snap
  PROVE  /\ tasks' \subseteq Task /\ connecting' \subseteq Machines
         /\ state' \in [Machines -> Entry \cup {None}]
         /\ LiveIsThere'
<1> DEFINE e == [phase |-> "connected", conn |-> c, port |-> t.port, backoff |-> 1]
<1>1. t.machine \in Machines /\ t.port \in Ports /\ tasks' \subseteq Task
  BY TaskType DEF Connected
<1>2. e \in Entry
  BY <1>1, OneIsBackoff DEF Entry, Phases
<1>3. state' = [state EXCEPT ![t.machine] = e] /\ connecting' = connecting
  BY DEF Connected
<1>4. e # None
  BY <1>2, NoneIsNothing
<1> HIDE DEF e
<1>5. QED
  BY <1>1, <1>2, <1>3, <1>4 DEF TypeInv, TypeOK, LiveIsThere

\* Every step keeps the types; a connection to be registered is one.
LEMMA TypeStep == TypeInv /\ PinnedIsOwn /\ [Next]_vars => TypeInv'
<1> SUFFICES ASSUME TypeInv, PinnedIsOwn, [Next]_vars PROVE TypeInv'
  OBVIOUS
<1> USE BoundsAreNumbers
<1>1. ASSUME NEW m \in Machines, NEW command \in {"START", "STOP"}, Ask(m, command)
      PROVE  TypeInv'
  BY <1>1 DEF TypeInv, TypeOK, LiveIsThere, Ask, Command
<1>2. ASSUME NEW m \in Machines, NEW b \in Backoffs, Retry(m, b)
      PROVE  TypeInv'
  <2>1. ReleaseMachine(m) /\ TryConnect(m) /\ state' = [state EXCEPT ![m] = FreshEntry(b)]
    BY <1>2 DEF Retry
  <2>2. sleepers' \in [Machines -> [Backoffs -> 0..MaxSleepers]]
    <3>1. sleepers' = [sleepers EXCEPT ![m] = [sleepers[m] EXCEPT ![b] = @ - 1]]
      BY <1>2 DEF Retry
    <3>2. sleepers[m][b] \in 0..MaxSleepers /\ sleepers[m][b] > 0
      BY <1>2 DEF Retry, TypeInv, TypeOK
    <3>3. [sleepers[m] EXCEPT ![b] = @ - 1] \in [Backoffs -> 0..MaxSleepers]
      BY <3>2 DEF TypeInv, TypeOK
    <3>4. QED
      BY <3>1, <3>3 DEF TypeInv, TypeOK
  <2>3. QED
    BY <1>2, <2>1, <2>2, ReleaseType, TryConnectType, FreshEntryType
       DEF Retry, TypeInv, TypeOK, LiveIsThere
<1>3. ASSUME LoopStep
      PROVE  TypeInv'
  <2>1. ASSUME Snapshot \/ TickEnds \/ Wakes
        PROVE  TypeInv'
    BY <2>1 DEF Snapshot, TickEnds, Wakes, TypeInv, TypeOK, LiveIsThere, LoopAt
  <2>2. ASSUME NEW m \in Machines, HandleStart(m)
        PROVE  TypeInv'
    <3>1. queue' \in Seq(Command)
      <4>1. queue # <<>> /\ <<"RECONNECT", m>> \in Command
        BY <2>2 DEF HandleStart, Next1, Command
      <4>2. Tail(queue) \in Seq(Command)
        BY <4>1 DEF TypeInv, TypeOK
      <4>3. QED
        BY <2>2, <4>1, <4>2 DEF HandleStart
    <3>2. QED
      BY <2>2, <3>1, FreshEntryType, OneIsBackoff
         DEF HandleStart, TypeInv, TypeOK, LiveIsThere
  <2>3. ASSUME NEW m \in Machines, HandleStop(m) \/ HandleReconnect(m)
        PROVE  TypeInv'
    <3>1. queue' \in Seq(Command)
      <4>1. queue # <<>> /\ queue' = Tail(queue)
        BY <2>3 DEF HandleStop, HandleReconnect, Next1
      <4>2. QED
        BY <4>1 DEF TypeInv, TypeOK
    <3>2. CASE HandleStop(m)
      BY <3>1, <3>2, ReleaseType DEF HandleStop, TypeInv, TypeOK, LiveIsThere
    <3>3. CASE HandleReconnect(m)
      BY <3>1, <3>3, ReleaseType, TryConnectType, FreshEntryType, OneIsBackoff
         DEF HandleReconnect, TypeInv, TypeOK, LiveIsThere
    <3>4. QED
      BY <2>3, <3>2, <3>3
  <2>4. ASSUME NEW m \in Machines, VisitConnected(m) \/ VisitBusy(m) \/ ProbeOk(m)
        PROVE  TypeInv'
    BY <2>4 DEF VisitConnected, VisitBusy, ProbeOk, TypeInv, TypeOK, LiveIsThere, LoopAt
  <2>5. ASSUME NEW m \in Machines, VisitStranded(m)
        PROVE  TypeInv'
    <3>1. sleepers' \in [Machines -> [Backoffs -> 0..MaxSleepers]]
      <4>1. CASE state[m] = None
        BY <2>5, <4>1 DEF VisitStranded, TypeInv, TypeOK
      <4>2. CASE state[m] # None
        <5> DEFINE b == Doubled(state[m].backoff)
                   n == IF sleepers[m][b] < MaxSleepers THEN sleepers[m][b] + 1
                                                        ELSE sleepers[m][b]
        <5>1. state[m].backoff \in Backoffs
          BY <4>2 DEF TypeInv, TypeOK, Entry
        <5>2. b \in Backoffs
          BY <5>1, OneIsBackoff
        <5>3. sleepers[m][b] \in 0..MaxSleepers
          BY <5>2 DEF TypeInv, TypeOK
        <5>4. n \in 0..MaxSleepers
          BY <5>3
        <5>5. sleepers' = [sleepers EXCEPT ![m] = [sleepers[m] EXCEPT ![b] = n]]
          BY <2>5, <4>2 DEF VisitStranded
        <5> HIDE DEF b, n
        <5>6. [sleepers[m] EXCEPT ![b] = n] \in [Backoffs -> 0..MaxSleepers]
          BY <5>2, <5>4 DEF TypeInv, TypeOK
        <5>7. QED
          BY <5>5, <5>6 DEF TypeInv, TypeOK
      <4>3. QED
        BY <4>1, <4>2
    <3>2. QED
      BY <2>5, <3>1 DEF VisitStranded, TypeInv, TypeOK, LiveIsThere
  <2>6. ASSUME NEW m \in Machines, ProbeFails(m)
        PROVE  TypeInv'
    <3>1. /\ state' \in [Machines -> Entry \cup {None}]
          /\ \A n \in Machines : state[n] # None => state'[n] # None
      <4>1. CASE snap[m] # "live"
        BY <2>6, <4>1 DEF ProbeFails, TypeInv, TypeOK
      <4>2. CASE snap[m] = "live"
        <5>1. state[m] \in Entry
          BY <4>2 DEF TypeInv, TypeOK, LiveIsThere
        <5>2. [state[m] EXCEPT !.phase = "error"] \in Entry
          BY <5>1 DEF Entry, Phases
        <5>3. state' = [state EXCEPT ![m] = [state[m] EXCEPT !.phase = "error"]]
          BY <2>6, <4>2 DEF ProbeFails
        <5>4. QED
          BY <5>2, <5>3, NoneIsNothing DEF TypeInv, TypeOK
      <4>3. QED
        BY <4>1, <4>2
    <3>2. QED
      BY <2>6, <3>1 DEF ProbeFails, TypeInv, TypeOK, LiveIsThere, LoopAt
  <2>7. QED
    BY <1>3, <2>1, <2>2, <2>3, <2>4, <2>5, <2>6 DEF LoopStep
<1>4. ASSUME NEW t \in tasks, TaskStep(t)
      PROVE  TypeInv'
  <2>1. t \in Task /\ t.machine \in Machines /\ t.conn \in Conns \cup {None}
    BY TaskType
  <2>2. ASSUME ReadRows(t) \/ Acquire(t)
        PROVE  TypeInv'
    BY <2>2, TaskType DEF ReadRows, Acquire, TypeInv, TypeOK, LiveIsThere
  <2>3. ASSUME ReadFails(t) \/ ReuseFails(t) \/ HandshakeFails(t)
        PROVE  TypeInv'
    BY <2>3, FailedType DEF ReadFails, ReuseFails, HandshakeFails, Fault, TypeInv, TypeOK
  <2>4. ASSUME Reuse(t)
        PROVE  TypeInv'
    <3> DEFINE x == TransportOf[t.machine]
    <3>1. x \in Transports /\ registry[x] \in Shared
      BY <2>1, <2>4, TransportOfIsFunction DEF Reuse, TypeInv, TypeOK
    <3>2. registry[x].conn \in Conns /\ registry[x].refs + 1 \in Nat \ {0}
      BY <3>1 DEF Shared
    <3>3. CASE /\ Connected(t, registry[x].conn)
               /\ registry' = [registry EXCEPT ![x].refs = @ + 1]
      <4>1. [registry[x] EXCEPT !.refs = @ + 1] \in Shared
        BY <3>1, <3>2 DEF Shared
      <4>2. registry' = [registry EXCEPT ![x] = [registry[x] EXCEPT !.refs = @ + 1]]
        BY <3>3
      <4>3. registry' \in [Transports -> Shared \cup {None}]
        BY <3>1, <4>1, <4>2 DEF TypeInv, TypeOK
      <4>4. QED
        BY <2>4, <3>2, <3>3, <4>3, ConnectedType DEF Reuse, TypeInv, TypeOK
    <3>4. CASE Over(t) /\ UNCHANGED <<state, registry>>
      BY <2>4, <3>4, TaskType DEF Reuse, TypeInv, TypeOK, LiveIsThere
    <3>5. QED
      BY <2>4, <3>3, <3>4 DEF Reuse
  <2>5. ASSUME Handshake(t)
        PROVE  TypeInv'
    <3>1. PICK c \in FreshConns : open' = open \cup {c} /\ dead' = dead \ {c}
                                  /\ Moves(t, "pin", c)
      BY <2>5 DEF Handshake
    <3>2. c \in Conns
      BY DEF FreshConns
    <3>3. QED
      BY <2>5, <3>1, <3>2, TaskType DEF Handshake, TypeInv, TypeOK, LiveIsThere
  <2>6. ASSUME Register(t)
        PROVE  TypeInv'
    <3> DEFINE x == TransportOf[t.machine]
    <3>0. t.conn \in Conns
      BY <2>6 DEF Register, PinnedIsOwn, TypeInv, TypeOK
    <3>1. x \in Transports /\ [conn |-> t.conn, refs |-> 1] \in Shared
      BY <2>1, <3>0, TransportOfIsFunction DEF Shared
    <3>2. CASE /\ Connected(t, t.conn)
               /\ registry' = [registry EXCEPT ![x] = [conn |-> t.conn, refs |-> 1]]
               /\ UNCHANGED open
      <4>1. registry' \in [Transports -> Shared \cup {None}]
        BY <3>1, <3>2 DEF TypeInv, TypeOK
      <4>2. QED
        BY <2>6, <3>0, <3>2, <4>1, ConnectedType DEF Register, TypeInv, TypeOK
    <3>3. CASE /\ Over(t)
               /\ open' = open \ {t.conn}
               /\ registry' = [registry EXCEPT ![x] = None]
               /\ UNCHANGED state
      <4>1. registry' \in [Transports -> Shared \cup {None}]
        BY <3>1, <3>3 DEF TypeInv, TypeOK
      <4>2. QED
        BY <2>6, <3>3, <4>1, TaskType DEF Register, TypeInv, TypeOK, LiveIsThere
    <3>4. QED
      BY <2>6, <3>2, <3>3 DEF Register
  <2>7. ASSUME RegisterFails(t)
        PROVE  TypeInv'
    BY <2>7, FailedType DEF RegisterFails, Fault, TypeInv, TypeOK
  <2>8. ASSUME Save(t)
        PROVE  TypeInv'
    BY <2>1, <2>8, TaskType DEF Save, Fault, TypeInv, TypeOK, LiveIsThere
  <2>9. QED
    BY <1>4, <2>2, <2>3, <2>4, <2>5, <2>6, <2>7, <2>8 DEF TaskStep
<1>5. ASSUME NEW c \in Conns, LinkDrops(c)
      PROVE  TypeInv'
  BY <1>5 DEF LinkDrops, Fault, TypeInv, TypeOK, LiveIsThere
<1>6. ASSUME Reboot
      PROVE  TypeInv'
  <2>1. queue' \in Seq(Command)
    <3>1. PICK n \in Nat : queue' \in [1..n -> {"RECONNECT"} \X up]
      <4>1. IsFiniteSet(up)
        BY MachinesFinite, FS_Subset DEF TypeInv, TypeOK
      <4>2. Cardinality(up) \in Nat
        BY <4>1, FS_CardinalityType
      <4>3. QED
        BY <1>6, <4>2 DEF Reboot
    <3>2. {"RECONNECT"} \X up \subseteq Command
      BY DEF TypeInv, TypeOK, Command
    <3>3. queue' \in [1..n -> Command]
      BY <3>1, <3>2
    <3>4. QED
      BY <3>3 DEF TypeInv
  <2>2. QED
    BY <1>6, <2>1 DEF Reboot, Fault, TypeInv, TypeOK, LiveIsThere, LoopAt
<1>7. CASE UNCHANGED vars
  BY <1>7 DEF vars, TypeInv, TypeOK, LiveIsThere
<1>8. QED
  BY <1>1, <1>2, <1>3, <1>4, <1>5, <1>6, <1>7 DEF Next

----------------------------------------------------------------------------
\* Connect tasks and their ports.

LEMMA TaskInit == Init => TaskInv
BY DEF Init, TaskInv, OneTaskEach, PortsDistinct

\* A machine whose port has gone may start another connect task.
LEMMA ReconnectTasks ==
  ASSUME TypeInv, TaskInv, NEW m \in Machines, NEW b \in Backoffs,
         TryConnect(m), state' = [state EXCEPT ![m] = FreshEntry(b)]
  PROVE  TaskInv'
<1>1. state'[m].port = None /\ \A n \in Machines \ {m} : state'[n] = state[n]
  BY DEF TypeInv, TypeOK, FreshEntry
<1>2. \A t \in tasks : t.port \in Ports /\ t.machine \in Machines
  BY DEF TypeInv, TypeOK, Task
<1>3. CASE m \in connecting
  BY <1>1, <1>2, <1>3, NoneIsNothing DEF TryConnect, TaskInv, OneTaskEach, PortsDistinct
<1>4. CASE m \notin connecting /\ connecting' = connecting \cup {m} /\ Spawn(m)
           /\ portless' = portless
  <2>1. PICK p \in FreePorts(m) :
            tasks' = tasks \cup
                {[machine |-> m, pc |-> "read", conn |-> None, port |-> p]}
    BY <1>4 DEF Spawn
  <2> DEFINE u == [machine |-> m, pc |-> "read", conn |-> None, port |-> p]
  <2>2. u.machine = m /\ u.port = p
    OBVIOUS
  <2>3. /\ p \in Ports
        /\ \A t \in tasks : t.port # p
        /\ \A n \in Machines \ {m} : state[n] # None => state[n].port # p
    BY DEF FreePorts
  <2> HIDE DEF u
  <2>4. OneTaskEach'
    <3>1. tasks' = tasks \cup {u}
      BY <2>1 DEF u
    <3>2. connecting \ portless = {t.machine : t \in tasks} /\ m \notin portless
      BY <1>4 DEF TaskInv, OneTaskEach
    <3>3. connecting' \ portless' = {t.machine : t \in tasks} \cup {m}
      BY <1>4, <3>2
    <3>4. {t.machine : t \in tasks'} = {t.machine : t \in tasks} \cup {m}
      BY <2>2, <3>1
    <3>5. \A t \in tasks : t.machine # m
      BY <1>4, <3>2
    <3>6. \A s, t \in tasks' : s.machine = t.machine => s = t
      BY <2>2, <3>1, <3>5 DEF TaskInv, OneTaskEach
    <3>7. QED
      BY <3>3, <3>4, <3>6 DEF OneTaskEach
  <2>5. PortsDistinct'
    BY <1>1, <1>2, <2>1, <2>2, <2>3, NoneIsNothing DEF u, TaskInv, PortsDistinct
  <2>6. portless' \subseteq connecting'
    BY <1>4 DEF TaskInv
  <2>7. QED
    BY <2>4, <2>5, <2>6 DEF TaskInv
<1>5. CASE m \notin connecting /\ connecting' = connecting \cup {m} /\ NoPort(m)
  <2>1. tasks' = tasks /\ portless' = portless \cup {m}
    BY <1>5 DEF NoPort
  <2>2. connecting' \ portless' = connecting \ portless
    BY <1>5, <2>1
  <2>3. OneTaskEach' /\ portless' \subseteq connecting'
    BY <1>5, <2>1, <2>2 DEF TaskInv, OneTaskEach
  <2>4. PortsDistinct'
    BY <1>1, <1>2, <2>1, NoneIsNothing DEF TaskInv, PortsDistinct
  <2>5. QED
    BY <2>3, <2>4 DEF TaskInv
<1>6. QED
  BY <1>3, <1>4, <1>5 DEF TryConnect

\* A task moves on with its machine and its port, and may bind the port.
LEMMA MovingTasks ==
  ASSUME TypeInv, TaskInv, NEW t \in tasks, NEW pc, NEW c, Moves(t, pc, c),
         connecting' = connecting, portless' = portless,
         \A m \in Machines : state'[m] # None =>
             \/ state[m] # None /\ state'[m].port = state[m].port
             \/ m = t.machine /\ state'[m].port = t.port
  PROVE  TaskInv'
<1> DEFINE u == [t EXCEPT !.pc = pc, !.conn = c]
<1>1. u.machine = t.machine /\ u.port = t.port
  BY DEF TypeInv, TypeOK, Task
<1>2. tasks' = (tasks \ {t}) \cup {u}
  BY DEF Moves
<1> HIDE DEF u
<1>3. OneTaskEach'
  BY <1>1, <1>2 DEF TaskInv, OneTaskEach
<1>4. PortsDistinct'
  BY <1>1, <1>2 DEF TaskInv, PortsDistinct
<1>5. QED
  BY <1>3, <1>4 DEF TaskInv

LEMMA EndingTasks ==
  ASSUME TypeInv, TaskInv, NEW t \in tasks, Over(t), portless' = portless,
         \A m \in Machines : state'[m] # None =>
             state[m] # None /\ state'[m].port = state[m].port
  PROVE  TaskInv'
BY DEF TaskInv, OneTaskEach, PortsDistinct, Over

LEMMA IdleTasks ==
  ASSUME TaskInv, UNCHANGED <<tasks, connecting, portless>>,
         \A m \in Machines : state'[m] # None =>
             \/ state'[m].port \notin Ports
             \/ state[m] # None /\ state'[m].port = state[m].port,
         \A t \in tasks : t.port \in Ports
  PROVE  TaskInv'
BY DEF TaskInv, OneTaskEach, PortsDistinct

\* One connect task per machine and one port per task, whatever the step.
LEMMA TaskStepInv == TypeInv /\ TaskInv /\ [Next]_vars => TaskInv'
<1> SUFFICES ASSUME TypeInv, TaskInv, [Next]_vars PROVE TaskInv'
  OBVIOUS
<1>0. \A t \in tasks : t.port \in Ports /\ t.machine \in Machines
  BY TaskType
<1>1. ASSUME UNCHANGED <<state, tasks, connecting, portless>>
      PROVE  TaskInv'
  BY <1>1 DEF TaskInv, OneTaskEach, PortsDistinct
<1>2. ASSUME NEW m \in Machines, NEW b \in Backoffs, Retry(m, b)
      PROVE  TaskInv'
  BY <1>2, ReconnectTasks DEF Retry
<1>3. ASSUME LoopStep
      PROVE  TaskInv'
  <2>1. ASSUME Snapshot \/ TickEnds \/ Wakes
        PROVE  TaskInv'
    BY <1>1, <2>1 DEF Snapshot, TickEnds, Wakes
  <2>2. ASSUME NEW m \in Machines, HandleStart(m)
        PROVE  TaskInv'
    BY <1>0, <2>2, IdleTasks, NoneIsNothing DEF HandleStart, FreshEntry, TypeInv, TypeOK
  <2>3. ASSUME NEW m \in Machines, HandleStop(m)
        PROVE  TaskInv'
    BY <1>0, <2>3, IdleTasks DEF HandleStop, TypeInv, TypeOK
  <2>4. ASSUME NEW m \in Machines, HandleReconnect(m)
        PROVE  TaskInv'
    BY <2>4, ReconnectTasks, OneIsBackoff DEF HandleReconnect
  <2>5. ASSUME NEW m \in Machines,
               VisitConnected(m) \/ VisitStranded(m) \/ VisitBusy(m) \/ ProbeOk(m)
        PROVE  TaskInv'
    BY <1>1, <2>5 DEF VisitConnected, VisitStranded, VisitBusy, ProbeOk
  <2>6. ASSUME NEW m \in Machines, ProbeFails(m)
        PROVE  TaskInv'
    <3>1. \A n \in Machines : state'[n] # None =>
              state[n] # None /\ state'[n].port = state[n].port
      BY <2>6 DEF ProbeFails, TypeInv, TypeOK, LiveIsThere, Entry
    <3>2. QED
      BY <1>0, <2>6, <3>1, IdleTasks DEF ProbeFails
  <2>7. QED
    BY <1>3, <2>1, <2>2, <2>3, <2>4, <2>5, <2>6 DEF LoopStep
<1>4. ASSUME NEW t \in tasks, TaskStep(t)
      PROVE  TaskInv'
  <2>1. ASSUME ReadRows(t) \/ Acquire(t)
        PROVE  TaskInv'
    BY <2>1, MovingTasks DEF ReadRows, Acquire
  <2>2. ASSUME Failed(t), UNCHANGED portless
        PROVE  TaskInv'
    <3>1. \A n \in Machines : state'[n] # None =>
              state[n] # None /\ state'[n].port = state[n].port
      BY <1>0, <2>2 DEF Failed, TypeInv, TypeOK, Entry
    <3>2. QED
      BY <2>2, <3>1, EndingTasks DEF Failed
  <2>3. ASSUME NEW c, Connected(t, c), UNCHANGED portless
        PROVE  TaskInv'
    <3>1. \A n \in Machines : state'[n] # None =>
              \/ state[n] # None /\ state'[n].port = state[n].port
              \/ n = t.machine /\ state'[n].port = t.port
      BY <1>0, <2>3 DEF Connected, TypeInv, TypeOK
    <3>2. QED
      BY <2>3, <3>1, MovingTasks DEF Connected
  <2>4. ASSUME Over(t), UNCHANGED <<state, portless>>
        PROVE  TaskInv'
    BY <2>4, EndingTasks
  <2>5. ASSUME Handshake(t)
        PROVE  TaskInv'
    <3>1. PICK c : Moves(t, "pin", c)
      BY <2>5 DEF Handshake
    <3>2. QED
      BY <2>5, <3>1, MovingTasks DEF Handshake
  <2>6. QED
    BY <1>4, <2>1, <2>2, <2>3, <2>4, <2>5
       DEF TaskStep, ReadFails, Reuse, ReuseFails, HandshakeFails, Register,
           RegisterFails, Save
<1>5. CASE Reboot
  BY <1>5 DEF Reboot, TaskInv, OneTaskEach, PortsDistinct
<1>6. QED
  BY <1>1, <1>2, <1>3, <1>4, <1>5 DEF Next, vars, Ask, LinkDrops

----------------------------------------------------------------------------
\* Locks, claims and the count.

LEMMA LockInit == Init => LockInv /\ CountInv
<1> SUFFICES ASSUME Init PROVE LockInv /\ CountInv
  OBVIOUS
<1>1. LockInv
  BY DEF Init, LockInv, OneAtLock, LockedIsFresh, PinnedIsOwn, Unclaimed
<1>2. CountInv
  BY DEF Init, CountInv, CountsUsers, RegisteredIsOwn, OpenWhileUsed, Users
<1>3. QED
  BY <1>1, <1>2

LEMMA UsersClaim ==
  /\ \A x : Users(x) = {m \in Machines : TransportOf[m] = x /\ Claim(m) # None}
  /\ \A x : Users(x)' = {m \in Machines : TransportOf[m] = x /\ Claim(m)' # None}
BY DEF Users, Claim

LEMMA UsersFinite == \A x : IsFiniteSet(Users(x)) /\ Cardinality(Users(x)) \in Nat
<1>1. \A x : Users(x) \subseteq Machines
  BY DEF Users
<1>2. QED
  BY <1>1, MachinesFinite, FS_Subset, FS_CardinalityType

\* The count says the same of claims.
LEMMA CountsClaims ==
  /\ CountsUsers <=>
        \A x \in Transports :
            /\ registry[x] # None => /\ registry[x].refs = Cardinality(Users(x))
                                     /\ \A m \in Users(x) : Claim(m) = registry[x].conn
            /\ registry[x] = None => Users(x) = {}
  /\ CountsUsers' <=>
        \A x \in Transports :
            /\ registry'[x] # None => /\ registry'[x].refs = Cardinality(Users(x)')
                                      /\ \A m \in Users(x)' : Claim(m)' = registry'[x].conn
            /\ registry'[x] = None => Users(x)' = {}
BY DEF CountsUsers, Users, Claim

LEMMA SameClaims ==
  ASSUME CountsUsers, \A m \in Machines : Claim(m)' = Claim(m), registry' = registry
  PROVE  CountsUsers'
<1>1. \A x : Users(x)' = Users(x)
  BY UsersClaim
<1>2. QED
  BY <1>1, CountsClaims DEF Users

\* A step that changes none of it.
LEMMA IdleLocks ==
  ASSUME LockInv, CountInv, \A m \in Machines : Claim(m)' = Claim(m),
         UNCHANGED <<tasks, registry, open>>, \A t \in tasks : t.machine \in Machines
  PROVE  LockInv' /\ CountInv'
<1>1. LockInv'
  BY DEF LockInv, OneAtLock, LockedIsFresh, PinnedIsOwn, Unclaimed, AtLock, TransportOfTask
<1>2. CountInv'
  BY SameClaims DEF CountInv, RegisteredIsOwn, OpenWhileUsed
<1>3. QED
  BY <1>1, <1>2

\* _release_machine: the claim goes, and with the last one the connection; a
\* connect task may start.
LEMMA ReleaseLocks ==
  ASSUME TypeInv, LockInv, CountInv, NEW m \in Machines, ReleaseMachine(m),
         Claim(m)' = None, \A n \in Machines \ {m} : Claim(n)' = Claim(n),
         tasks \subseteq tasks',
         \A t \in tasks' \ tasks : t.pc = "read" /\ t.machine = m
  PROVE  LockInv' /\ CountInv'
<1> DEFINE x == TransportOf[m]
<1>0. x \in Transports /\ \A t \in tasks : t.machine \in Machines
  BY TransportOfIsFunction, TaskType
<1>a. /\ \A t \in tasks : TransportOfTask(t) \in Transports
      /\ \A t \in tasks' : AtLock(t) => t \in tasks
  BY <1>0, TransportOfIsFunction DEF TransportOfTask, AtLock
<1>1. OneAtLock' /\ Unclaimed'
  BY <1>0 DEF LockInv, OneAtLock, Unclaimed, AtLock, TransportOfTask
<1>2. CASE Claim(m) = None
  <2>1. UNCHANGED <<registry, open>>
    BY <1>2 DEF ReleaseMachine, Claim
  <2>2. \A n \in Machines : Claim(n)' = Claim(n)
    BY <1>2
  <2>3. CountsUsers' /\ RegisteredIsOwn' /\ OpenWhileUsed'
    BY <2>1, <2>2, SameClaims DEF CountInv, RegisteredIsOwn, OpenWhileUsed
  <2>4. LockedIsFresh' /\ PinnedIsOwn'
    BY <2>1 DEF LockInv, LockedIsFresh, PinnedIsOwn, AtLock, TransportOfTask
  <2>5. QED
    BY <1>1, <2>3, <2>4 DEF LockInv, CountInv
<1>3. CASE Claim(m) # None
  <2> DEFINE c == registry[x].conn
             U == Users(x)
  <2>1. m \in U
    BY <1>3, UsersClaim
  <2>2. registry[x] # None /\ registry[x] \in Shared
    BY <1>0, <2>1 DEF CountInv, CountsUsers, TypeInv, TypeOK
  <2>3. Drop(x)
    BY <1>3, <2>2 DEF ReleaseMachine, Claim
  <2>4. Users(x)' = U \ {m} /\ \A y \in Transports \ {x} : Users(y)' = Users(y)
    <3>1. Users(x)' = U \ {m}
      BY UsersClaim
    <3>2. ASSUME NEW y \in Transports \ {x} PROVE Users(y)' = Users(y)
      BY UsersClaim
    <3>3. QED
      BY <3>1, <3>2
  <2>5. Cardinality(U \ {m}) = Cardinality(U) - 1
    BY <2>1, UsersFinite, FS_RemoveElement
  <2>6. registry[x].refs = Cardinality(U) /\ registry[x].refs \in Nat \ {0}
    BY <1>0, <2>2 DEF CountInv, CountsUsers, Shared
  <2> HIDE DEF x, c, U
  <2>7. CASE registry[x].refs = 1
    <3>1. registry' = [registry EXCEPT ![x] = None] /\ open' = open \ {c}
      BY <2>3, <2>7 DEF Drop, c
    <3>2. Users(x)' = {}
      <4>1. Cardinality(U \ {m}) = 0 /\ IsFiniteSet(U \ {m})
        BY <2>5, <2>6, <2>7, UsersFinite, FS_Subset DEF U
      <4>2. QED
        BY <2>4, <4>1, FS_EmptySet
    <3>3. /\ registry'[x] = None
          /\ \A y \in Transports \ {x} : registry'[y] = registry[y]
      BY <1>0, <3>1 DEF TypeInv, TypeOK
    <3>4. \A y \in Transports \ {x} : registry[y] # None => registry[y].conn # c
      BY <1>0, <2>2 DEF CountInv, RegisteredIsOwn, c
    <3>5. \A t \in tasks : t.pc = "pin" => t.conn # c
      BY <1>0, <2>2 DEF LockInv, PinnedIsOwn, c
    <3>6. CountsUsers'
      <4>1. \A y \in Transports : \A n \in Users(y)' : Claim(n)' = Claim(n)
        BY <2>4, <3>2, UsersClaim DEF x
      <4>2. QED
        BY <2>4, <3>2, <3>3, <4>1, CountsClaims DEF CountInv
    <3>7. RegisteredIsOwn'
      BY <3>3 DEF CountInv, RegisteredIsOwn
    <3>8. OpenWhileUsed'
      BY <1>0, <3>1, <3>3, <3>4 DEF CountInv, OpenWhileUsed, c
    <3>9. LockedIsFresh' /\ PinnedIsOwn'
      <4>1. LockedIsFresh'
        <5>1. ASSUME NEW t \in tasks', AtLock(t)
              PROVE  registry'[TransportOfTask(t)] = None
          BY <1>a, <3>3, <5>1 DEF LockInv, LockedIsFresh
        <5>2. QED
          BY <5>1 DEF LockedIsFresh, AtLock, TransportOfTask
      <4>2. PinnedIsOwn'
        BY <3>1, <3>3, <3>5 DEF LockInv, PinnedIsOwn
      <4>3. QED
        BY <4>1, <4>2
    <3>10. QED
      BY <1>1, <3>6, <3>7, <3>8, <3>9 DEF LockInv, CountInv
  <2>8. CASE registry[x].refs # 1
    <3>1. registry' = [registry EXCEPT ![x].refs = @ - 1] /\ open' = open
      BY <2>3, <2>8 DEF Drop
    <3>2. /\ registry'[x] = [registry[x] EXCEPT !.refs = @ - 1]
          /\ \A y \in Transports \ {x} : registry'[y] = registry[y]
      BY <1>0, <3>1 DEF TypeInv, TypeOK
    <3>3. registry'[x].conn = c /\ registry'[x].refs = registry[x].refs - 1
      BY <2>2, <3>2 DEF c, Shared
    <3>4. registry'[x] # None
      <4>1. registry'[x] \in Shared
        BY <2>2, <2>6, <2>8, <3>2 DEF Shared
      <4>2. QED
        BY <4>1, NoneIsNothing
    <3>5. /\ \A y \in Transports : registry'[y] # None => registry[y] # None
          /\ \A y \in Transports : registry[y] # None => registry'[y] # None
      BY <2>2, <3>2, <3>4
    <3>a. \A y \in Transports : registry'[y].conn = registry[y].conn
      BY <3>2, <3>3 DEF c
    <3>6. CountsUsers'
      <4>1. \A y \in Transports : \A n \in Users(y)' : Claim(n)' = Claim(n) /\ n \in Users(y)
        BY <2>4, UsersClaim DEF x, U
      <4>2. ASSUME NEW y \in Transports, registry'[y] # None
            PROVE  /\ registry'[y].refs = Cardinality(Users(y)')
                   /\ \A n \in Users(y)' : Claim(n)' = registry'[y].conn
        <5>1. \A n \in Users(y)' : Claim(n)' = registry'[y].conn
          <6>1. registry[y] # None
            BY <3>5, <4>2
          <6>2. \A n \in Users(y) : Claim(n) = registry[y].conn
            BY <6>1, CountsClaims DEF CountInv
          <6>3. QED
            BY <3>a, <4>1, <6>2
        <5>2. CASE y = x
          BY <2>4, <2>5, <2>6, <3>3, <5>1, <5>2
        <5>3. CASE y # x
          BY <2>4, <3>2, <4>2, <5>1, <5>3, CountsClaims DEF CountInv
        <5>4. QED
          BY <5>2, <5>3
      <4>3. ASSUME NEW y \in Transports, registry'[y] = None
            PROVE  Users(y)' = {}
        BY <2>4, <3>5, <3>4, <4>3, CountsClaims DEF CountInv
      <4>4. QED
        BY <4>2, <4>3, CountsClaims
    <3>7. RegisteredIsOwn' /\ OpenWhileUsed'
      BY <3>1, <3>5, <3>a DEF CountInv, RegisteredIsOwn, OpenWhileUsed
    <3>8. LockedIsFresh' /\ PinnedIsOwn'
      <4>1. ASSUME NEW t \in tasks', AtLock(t)
            PROVE  registry'[TransportOfTask(t)] = None
        <5>1. t \in tasks /\ TransportOfTask(t) \in Transports
          BY <1>a, <4>1
        <5>2. registry[TransportOfTask(t)] = None
          BY <4>1, <5>1 DEF LockInv, LockedIsFresh
        <5>3. QED
          BY <3>5, <5>1, <5>2
      <4>2. LockedIsFresh'
        BY <4>1 DEF LockedIsFresh, AtLock, TransportOfTask
      <4>3. PinnedIsOwn'
        BY <3>1, <3>5, <3>a DEF LockInv, PinnedIsOwn
      <4>4. QED
        BY <4>2, <4>3
    <3>9. QED
      BY <1>1, <3>6, <3>7, <3>8 DEF LockInv, CountInv
  <2>9. QED
    BY <2>7, <2>8
<1>4. QED
  BY <1>2, <1>3

\* A connect task moves on; it stays the only task of its machine.
LEMMA MovedTask ==
  ASSUME TypeInv, TaskInv, NEW t \in tasks, NEW pc, NEW c, Moves(t, pc, c)
  PROVE  \E u : /\ tasks' = (tasks \ {t}) \cup {u}
                /\ u.machine = t.machine /\ u.pc = pc /\ u.conn = c
                /\ \A s \in tasks \ {t} : s.machine # u.machine
<1> DEFINE u == [t EXCEPT !.pc = pc, !.conn = c]
<1>1. u.machine = t.machine /\ u.pc = pc /\ u.conn = c
  BY DEF TypeInv, TypeOK, Task
<1>2. tasks' = (tasks \ {t}) \cup {u}
  BY DEF Moves
<1>3. \A s \in tasks \ {t} : s.machine # t.machine
  BY DEF TaskInv, OneTaskEach
<1>4. QED
  BY <1>1, <1>2, <1>3

\* On its way to the lock, or taking it while nothing is registered.
LEMMA WaitingLocks ==
  ASSUME TypeInv, TaskInv, LockInv, CountInv, NEW t \in tasks, NEW pc \in {"lock", "shake"},
         Moves(t, pc, None), t.pc \in {"read", "lock"},
         UNCHANGED <<state, registry, open>>,
         pc = "shake" => LockFree(TransportOf[t.machine])
                         /\ registry[TransportOf[t.machine]] = None
  PROVE  LockInv' /\ CountInv'
<1>1. PICK u : /\ tasks' = (tasks \ {t}) \cup {u}
               /\ u.machine = t.machine /\ u.pc = pc /\ u.conn = None
  BY MovedTask
<1>2. \A m : Claim(m)' = Claim(m)
  BY DEF Claim
<1>3. OneAtLock'
  BY <1>1 DEF LockInv, OneAtLock, AtLock, TransportOfTask, LockFree
<1>4. LockedIsFresh' /\ PinnedIsOwn'
  BY <1>1 DEF LockInv, LockedIsFresh, PinnedIsOwn, AtLock, TransportOfTask
<1>5. Unclaimed'
  BY <1>1, <1>2 DEF LockInv, Unclaimed
<1>6. CountInv'
  BY <1>1, <1>2, SameClaims DEF CountInv, RegisteredIsOwn, OpenWhileUsed
<1>7. QED
  BY <1>3, <1>4, <1>5, <1>6 DEF LockInv

\* A task that is over before it has a connection, or after it has handed
\* it over.
LEMMA EndingLocks ==
  ASSUME TypeInv, LockInv, CountInv, NEW t \in tasks, Over(t), t.pc # "pin",
         \A m \in Machines : Claim(m)' = Claim(m), UNCHANGED <<registry, open>>
  PROVE  LockInv' /\ CountInv'
<1>1. LockInv'
  BY TaskType DEF LockInv, OneAtLock, LockedIsFresh, PinnedIsOwn, Unclaimed,
                  AtLock, TransportOfTask, Over
<1>2. CountInv'
  BY SameClaims DEF CountInv, RegisteredIsOwn, OpenWhileUsed, Over
<1>3. QED
  BY <1>1, <1>2

\* The handshake has succeeded: the new connection is nobody else's.
LEMMA HandshakeLocks ==
  ASSUME TypeInv, TaskInv, LockInv, CountInv, NEW t \in tasks, Handshake(t)
  PROVE  LockInv' /\ CountInv'
<1>1. PICK c \in FreshConns : open' = open \cup {c} /\ Moves(t, "pin", c)
  BY DEF Handshake
<1>2. PICK u : /\ tasks' = (tasks \ {t}) \cup {u}
               /\ u.machine = t.machine /\ u.pc = "pin" /\ u.conn = c
  BY <1>1, MovedTask
<1>3. c \notin open /\ t.pc = "shake" /\ UNCHANGED <<state, registry>>
  BY <1>1 DEF Handshake, FreshConns
<1>4. \A m : Claim(m)' = Claim(m)
  BY <1>3 DEF Claim
<1>5. \A x \in Transports : registry[x] # None => registry[x].conn # c
  BY <1>3 DEF CountInv, OpenWhileUsed
<1>6. OneAtLock' /\ LockedIsFresh'
  BY <1>2, <1>3 DEF LockInv, OneAtLock, LockedIsFresh, AtLock, TransportOfTask
<1>7. PinnedIsOwn'
  <2>1. \A s \in tasks : s.pc = "pin" => s.conn # c
    BY <1>3 DEF LockInv, PinnedIsOwn
  <2>2. QED
    BY <1>1, <1>2, <1>3, <1>5, <2>1 DEF LockInv, PinnedIsOwn
<1>8. Unclaimed'
  BY <1>2, <1>3, <1>4 DEF LockInv, Unclaimed
<1>9. CountInv'
  <2>1. OpenWhileUsed'
    BY <1>1, <1>2, <1>3 DEF CountInv, OpenWhileUsed
  <2>2. QED
    BY <1>3, <1>4, <2>1, SameClaims DEF CountInv, RegisteredIsOwn
<1>10. QED
  BY <1>6, <1>7, <1>8, <1>9 DEF LockInv

\* connect() has returned: the machine's entry holds the claim.
LEMMA ConnectedClaim ==
  ASSUME TypeInv, NEW t \in tasks, NEW c \in Conns, Connected(t, c)
  PROVE  /\ Claim(t.machine)' = c /\ c # None
         /\ \A n \in Machines \ {t.machine} : Claim(n)' = Claim(n)
<1>1. t.machine \in Machines /\ t.port \in Ports
  BY TaskType
<1>2. state'[t.machine] = [phase |-> "connected", conn |-> c, port |-> t.port, backoff |-> 1]
  BY <1>1 DEF Connected, TypeInv, TypeOK
<1>3. state'[t.machine] \in Entry
  BY <1>1, <1>2, OneIsBackoff DEF Entry, Phases
<1>4. state'[t.machine] # None /\ c # None
  BY <1>3, NoneIsNothing
<1>5. \A n \in Machines \ {t.machine} : state'[n] = state[n]
  BY <1>1 DEF Connected, TypeInv, TypeOK
<1>6. QED
  BY <1>2, <1>4, <1>5 DEF Claim

\* One more machine on a connection that is registered.
LEMMA ReuseLocks ==
  ASSUME TypeInv, TaskInv, LockInv, CountInv, NEW t \in tasks, t.pc = "lock",
         registry[TransportOf[t.machine]] # None,
         Connected(t, registry[TransportOf[t.machine]].conn),
         registry' = [registry EXCEPT ![TransportOf[t.machine]].refs = @ + 1],
         open' = open
  PROVE  LockInv' /\ CountInv'
<1> DEFINE m == t.machine
           x == TransportOf[m]
           c == registry[x].conn
           U == Users(x)
<1>0. m \in Machines /\ x \in Transports
  BY TaskType, TransportOfIsFunction
<1>1. registry[x] \in Shared /\ c \in Conns
  BY <1>0 DEF TypeInv, TypeOK, Shared
<1>2. Claim(m)' = c /\ c # None /\ \A n \in Machines \ {m} : Claim(n)' = Claim(n)
  BY <1>1, ConnectedClaim
<1>3. Claim(m) = None
  BY DEF LockInv, Unclaimed
<1>4. PICK u : /\ tasks' = (tasks \ {t}) \cup {u}
               /\ u.machine = m /\ u.pc = "save" /\ u.conn = c
               /\ \A s \in tasks \ {t} : s.machine # u.machine
  BY MovedTask DEF Connected
<1>5. m \notin U /\ Users(x)' = U \cup {m}
      /\ \A y \in Transports \ {x} : Users(y)' = Users(y)
  <2>1. m \notin U
    BY <1>3, UsersClaim
  <2>2. Users(x)' = U \cup {m}
    BY <1>0, <1>2, UsersClaim
  <2>3. ASSUME NEW y \in Transports \ {x} PROVE Users(y)' = Users(y)
    BY <1>2, UsersClaim
  <2>4. QED
    BY <2>1, <2>2, <2>3
<1>6. Cardinality(U \cup {m}) = Cardinality(U) + 1
  BY <1>5, UsersFinite, FS_AddElement
<1>7. /\ registry'[x] = [registry[x] EXCEPT !.refs = @ + 1]
      /\ \A y \in Transports \ {x} : registry'[y] = registry[y]
  BY <1>0 DEF TypeInv, TypeOK
<1>8. registry'[x].conn = c /\ registry'[x].refs = registry[x].refs + 1
  BY <1>1, <1>7 DEF Shared
<1>9. registry'[x] # None
  <2>1. registry'[x] \in Shared
    BY <1>1, <1>7 DEF Shared
  <2>2. QED
    BY <2>1, NoneIsNothing
<1> HIDE DEF x, c, U, m
<1>10. /\ \A y \in Transports : registry'[y] # None => registry[y] # None
       /\ \A y \in Transports : registry[y] # None => registry'[y] # None
  BY <1>1, <1>7, <1>9, NoneIsNothing
<1>11. \A y \in Transports : registry'[y].conn = registry[y].conn
  BY <1>7, <1>8 DEF c
<1>12. CountsUsers'
  <2>1. ASSUME NEW y \in Transports, registry'[y] # None
        PROVE  /\ registry'[y].refs = Cardinality(Users(y)')
               /\ \A n \in Users(y)' : Claim(n)' = registry'[y].conn
    <3>1. registry[y] # None
      BY <1>10, <2>1
    <3>2. registry[y].refs = Cardinality(Users(y))
          /\ \A n \in Users(y) : Claim(n) = registry[y].conn
      BY <3>1, CountsClaims DEF CountInv
    <3>3. CASE y = x
      <4>1. \A n \in Users(x)' : Claim(n)' = c
        BY <1>2, <1>5, <3>2, <3>3, UsersClaim DEF U, c
      <4>2. QED
        BY <1>5, <1>6, <1>8, <3>2, <3>3, <4>1 DEF U
    <3>4. CASE y # x
      <4>1. m \notin Users(y)
        BY <3>4, UsersClaim DEF x
      <4>2. \A n \in Users(y) : Claim(n)' = Claim(n)
        BY <1>2, <4>1 DEF Users
      <4>3. Users(y)' = Users(y) /\ registry'[y] = registry[y]
        BY <1>5, <1>7, <3>4
      <4>4. \A n \in Users(y)' : Claim(n)' = registry'[y].conn
        BY <3>2, <4>2, <4>3
      <4>5. QED
        BY <3>2, <4>3, <4>4
    <3>5. QED
      BY <3>3, <3>4
  <2>2. ASSUME NEW y \in Transports, registry'[y] = None
        PROVE  Users(y)' = {}
    <3>1. registry[y] = None /\ y # x
      BY <1>9, <1>10, <2>2
    <3>2. QED
      BY <1>5, <3>1, CountsClaims DEF CountInv
  <2>3. QED
    BY <2>1, <2>2, CountsClaims
<1>13. RegisteredIsOwn'
  BY <1>10, <1>11 DEF CountInv, RegisteredIsOwn
<1>14. OpenWhileUsed'
  BY <1>4, <1>10, <1>11 DEF CountInv, OpenWhileUsed
<1>15. OneAtLock' /\ PinnedIsOwn' /\ Unclaimed'
  <2>1. OneAtLock'
    BY <1>4 DEF LockInv, OneAtLock, AtLock, TransportOfTask
  <2>2. PinnedIsOwn'
    BY <1>4, <1>10, <1>11 DEF LockInv, PinnedIsOwn
  <2>3. Unclaimed'
    BY <1>2, <1>4, TaskType DEF LockInv, Unclaimed, m
  <2>4. QED
    BY <2>1, <2>2, <2>3
<1>16. LockedIsFresh'
  <2>1. ASSUME NEW s \in tasks, AtLock(s), s # t
        PROVE  registry'[TransportOfTask(s)] = None
    <3>1. TransportOfTask(s) \in Transports /\ registry[TransportOfTask(s)] = None
      BY <2>1, TaskType, TransportOfIsFunction DEF LockInv, LockedIsFresh, TransportOfTask
    <3>2. QED
      BY <1>10, <3>1
  <2>2. QED
    BY <1>4, <2>1 DEF LockedIsFresh, AtLock, TransportOfTask
<1>17. QED
  BY <1>12, <1>13, <1>14, <1>15, <1>16 DEF LockInv, CountInv

\* The first machine of a transport: the connection is registered with one
\* claim.
LEMMA RegisterLocks ==
  ASSUME TypeInv, TaskInv, LockInv, CountInv, NEW t \in tasks, t.pc = "pin",
         Connected(t, t.conn),
         registry' = [registry EXCEPT ![TransportOf[t.machine]] =
                         [conn |-> t.conn, refs |-> 1]],
         open' = open
  PROVE  LockInv' /\ CountInv'
<1> DEFINE m == t.machine
           x == TransportOf[m]
           c == t.conn
<1>0. m \in Machines /\ x \in Transports
  BY TaskType, TransportOfIsFunction
<1>1. c \in open /\ c \in Conns
  BY DEF LockInv, PinnedIsOwn, TypeInv, TypeOK
<1>2. Claim(m)' = c /\ c # None /\ \A n \in Machines \ {m} : Claim(n)' = Claim(n)
  BY <1>1, ConnectedClaim
<1>3. registry[x] = None
  BY DEF LockInv, LockedIsFresh, AtLock, TransportOfTask
<1>4. PICK u : /\ tasks' = (tasks \ {t}) \cup {u}
               /\ u.machine = m /\ u.pc = "save" /\ u.conn = c
               /\ \A s \in tasks \ {t} : s.machine # u.machine
  BY MovedTask DEF Connected
<1>5. Users(x) = {}
  BY <1>0, <1>3 DEF CountInv, CountsUsers
<1>6. Users(x)' = {m} /\ \A y \in Transports \ {x} : Users(y)' = Users(y)
  <2>1. \A n \in Machines : TransportOf[n] = x => Claim(n) = None
    BY <1>5, UsersClaim
  <2>2. Users(x)' = {m}
    BY <1>0, <1>2, <2>1, UsersClaim
  <2>3. ASSUME NEW y \in Transports \ {x} PROVE Users(y)' = Users(y)
    BY <1>2, UsersClaim
  <2>4. QED
    BY <2>2, <2>3
<1>7. /\ registry'[x] = [conn |-> c, refs |-> 1]
      /\ \A y \in Transports \ {x} : registry'[y] = registry[y]
  BY <1>0 DEF TypeInv, TypeOK
<1>8. registry'[x] # None /\ registry'[x].conn = c /\ registry'[x].refs = 1
  <2>1. registry'[x] \in Shared
    BY <1>1, <1>7 DEF Shared
  <2>2. QED
    BY <1>7, <2>1, NoneIsNothing
<1>9. \A s \in tasks \ {t} : AtLock(s) => TransportOfTask(s) # x
  BY DEF LockInv, OneAtLock, AtLock, TransportOfTask
<1>10. /\ \A y \in Transports : registry[y] # None => registry[y].conn # c
       /\ \A s \in tasks \ {t} : s.pc = "pin" => s.conn # c
  BY DEF LockInv, PinnedIsOwn
<1> HIDE DEF x, c, m
<1>11. CountsUsers'
  <2>1. ASSUME NEW y \in Transports, registry'[y] # None
        PROVE  /\ registry'[y].refs = Cardinality(Users(y)')
               /\ \A n \in Users(y)' : Claim(n)' = registry'[y].conn
    <3>1. CASE y = x
      BY <1>2, <1>6, <1>8, <3>1, FS_Singleton
    <3>2. CASE y # x
      <4>1. Users(y)' = Users(y) /\ registry'[y] = registry[y]
        BY <1>6, <1>7, <3>2
      <4>2. registry[y].refs = Cardinality(Users(y))
            /\ \A n \in Users(y) : Claim(n) = registry[y].conn
        BY <2>1, <4>1, CountsClaims DEF CountInv
      <4>3. m \notin Users(y)
        BY <3>2, UsersClaim DEF x
      <4>4. \A n \in Users(y) : Claim(n)' = Claim(n)
        BY <1>2, <4>3 DEF Users
      <4>5. \A n \in Users(y)' : Claim(n)' = registry'[y].conn
        BY <4>1, <4>2, <4>4
      <4>6. QED
        BY <4>1, <4>2, <4>5
    <3>3. QED
      BY <3>1, <3>2
  <2>2. ASSUME NEW y \in Transports, registry'[y] = None
        PROVE  Users(y)' = {}
    BY <1>6, <1>7, <1>8, <2>2, CountsClaims DEF CountInv
  <2>3. QED
    BY <2>1, <2>2, CountsClaims
<1>12. RegisteredIsOwn'
  BY <1>7, <1>8, <1>10 DEF CountInv, RegisteredIsOwn
<1>13. OpenWhileUsed'
  <2>1. \A y \in Transports : registry'[y] # None => registry'[y].conn \in open
    BY <1>1, <1>7, <1>8 DEF CountInv, OpenWhileUsed
  <2>2. \A y \in Transports : registry[y] # None => y # x /\ registry'[y] = registry[y]
    BY <1>3, <1>7
  <2>3. ASSUME NEW d \in open
        PROVE  \/ \E y \in Transports : registry'[y] # None /\ registry'[y].conn = d
               \/ \E s \in tasks' : s.pc = "pin" /\ s.conn = d
    <3>1. CASE d = c
      BY <1>0, <1>8, <3>1
    <3>2. CASE \E s \in tasks \ {t} : s.pc = "pin" /\ s.conn = d
      BY <1>4, <3>2
    <3>3. CASE \E y \in Transports : registry[y] # None /\ registry[y].conn = d
      BY <2>2, <3>3
    <3>4. QED
      BY <2>3, <3>1, <3>2, <3>3 DEF CountInv, OpenWhileUsed, c
  <2>4. QED
    BY <2>1, <2>3 DEF OpenWhileUsed
<1>14. OneAtLock' /\ Unclaimed'
  <2>1. OneAtLock'
    BY <1>4 DEF LockInv, OneAtLock, AtLock, TransportOfTask
  <2>2. Unclaimed'
    BY <1>2, <1>4, TaskType DEF LockInv, Unclaimed, m
  <2>3. QED
    BY <2>1, <2>2
<1>15. PinnedIsOwn'
  BY <1>4, <1>7, <1>8, <1>10 DEF LockInv, PinnedIsOwn
<1>16. LockedIsFresh'
  <2>1. ASSUME NEW s \in tasks, AtLock(s), s # t
        PROVE  registry'[TransportOfTask(s)] = None
    <3>1. TransportOfTask(s) \in Transports /\ registry[TransportOfTask(s)] = None
      BY <2>1, TaskType, TransportOfIsFunction DEF LockInv, LockedIsFresh, TransportOfTask
    <3>2. QED
      BY <1>7, <1>9, <2>1, <3>1
  <2>2. QED
    BY <1>4, <2>1 DEF LockedIsFresh, AtLock, TransportOfTask
<1>17. QED
  BY <1>11, <1>12, <1>13, <1>14, <1>15, <1>16 DEF LockInv, CountInv

\* The machine was stopped meanwhile, or registering failed: the connection
\* is closed again, and nobody has seen it.
LEMMA AbandonLocks ==
  ASSUME TypeInv, TaskInv, LockInv, CountInv, NEW t \in tasks, t.pc = "pin", Over(t),
         \A m \in Machines : Claim(m)' = Claim(m), registry' = registry,
         open' = open \ {t.conn}
  PROVE  LockInv' /\ CountInv'
<1>1. tasks' = tasks \ {t} /\ \A s \in tasks : s.machine \in Machines
  BY TaskType DEF Over
<1>2. OneAtLock' /\ LockedIsFresh' /\ Unclaimed'
  BY <1>1 DEF LockInv, OneAtLock, LockedIsFresh, Unclaimed, AtLock, TransportOfTask
<1>3. PinnedIsOwn'
  BY <1>1 DEF LockInv, PinnedIsOwn
<1>4. CountsUsers' /\ RegisteredIsOwn'
  BY SameClaims DEF CountInv, RegisteredIsOwn
<1>5. OpenWhileUsed'
  BY <1>1 DEF LockInv, PinnedIsOwn, CountInv, OpenWhileUsed
<1>6. QED
  BY <1>2, <1>3, <1>4, <1>5 DEF LockInv, CountInv

\* RECONNECT and the retries: the entry is replaced, a task may start.
LEMMA ReconnectLocks ==
  ASSUME TypeInv, LockInv, CountInv, NEW m \in Machines, NEW b, ReleaseMachine(m),
         state' = [state EXCEPT ![m] = FreshEntry(b)], TryConnect(m)
  PROVE  LockInv' /\ CountInv'
<1>1. Claim(m)' = None /\ \A n \in Machines \ {m} : Claim(n)' = Claim(n)
  BY DEF Claim, FreshEntry, TypeInv, TypeOK
<1>2. tasks \subseteq tasks' /\ \A t \in tasks' \ tasks : t.pc = "read" /\ t.machine = m
  BY DEF TryConnect, Spawn, NoPort
<1>3. QED
  BY <1>1, <1>2, ReleaseLocks

\* Every step keeps locks, claims and the count.
LEMMA LockStep ==
  TypeInv /\ TaskInv /\ LockInv /\ CountInv /\ [Next]_vars => LockInv' /\ CountInv'
<1> SUFFICES ASSUME TypeInv, TaskInv, LockInv, CountInv, [Next]_vars
             PROVE  LockInv' /\ CountInv'
  OBVIOUS
<1>0. \A t \in tasks : t.machine \in Machines
  BY TaskType
<1>1. ASSUME UNCHANGED <<state, tasks, registry, open>>
      PROVE  LockInv' /\ CountInv'
  BY <1>0, <1>1, IdleLocks DEF Claim
<1>2. ASSUME NEW m \in Machines, NEW b \in Backoffs, Retry(m, b)
      PROVE  LockInv' /\ CountInv'
  BY <1>2, ReconnectLocks DEF Retry
<1>3. ASSUME LoopStep
      PROVE  LockInv' /\ CountInv'
  <2>1. ASSUME Snapshot \/ TickEnds \/ Wakes
        PROVE  LockInv' /\ CountInv'
    BY <1>1, <2>1 DEF Snapshot, TickEnds, Wakes
  <2>2. ASSUME NEW m \in Machines, HandleStart(m)
        PROVE  LockInv' /\ CountInv'
    <3>1. \A n \in Machines : Claim(n)' = Claim(n)
      BY <2>2 DEF HandleStart, Claim, FreshEntry, TypeInv, TypeOK
    <3>2. QED
      BY <1>0, <2>2, <3>1, IdleLocks DEF HandleStart
  <2>3. ASSUME NEW m \in Machines, HandleStop(m)
        PROVE  LockInv' /\ CountInv'
    <3>1. Claim(m)' = None /\ \A n \in Machines \ {m} : Claim(n)' = Claim(n)
      BY <2>3 DEF HandleStop, Claim, TypeInv, TypeOK
    <3>2. QED
      BY <2>3, <3>1, ReleaseLocks DEF HandleStop
  <2>4. ASSUME NEW m \in Machines, HandleReconnect(m)
        PROVE  LockInv' /\ CountInv'
    BY <2>4, ReconnectLocks DEF HandleReconnect
  <2>5. ASSUME NEW m \in Machines,
               VisitConnected(m) \/ VisitStranded(m) \/ VisitBusy(m) \/ ProbeOk(m)
        PROVE  LockInv' /\ CountInv'
    BY <1>1, <2>5 DEF VisitConnected, VisitStranded, VisitBusy, ProbeOk
  <2>6. ASSUME NEW m \in Machines, ProbeFails(m)
        PROVE  LockInv' /\ CountInv'
    <3>1. \A n \in Machines : Claim(n)' = Claim(n)
      <4>1. CASE snap[m] # "live"
        BY <2>6, <4>1 DEF ProbeFails, Claim
      <4>2. CASE snap[m] = "live"
        <5>1. state[m] \in Entry /\ state' = [state EXCEPT ![m].phase = "error"]
          BY <2>6, <4>2 DEF ProbeFails, TypeInv, TypeOK, LiveIsThere
        <5>2. state'[m] \in Entry /\ state'[m].conn = state[m].conn
          BY <5>1 DEF TypeInv, TypeOK, Entry, Phases
        <5>3. \A n \in Machines \ {m} : state'[n] = state[n]
          BY <5>1 DEF TypeInv, TypeOK
        <5>4. QED
          BY <5>1, <5>2, <5>3, NoneIsNothing DEF Claim
      <4>3. QED
        BY <4>1, <4>2
    <3>2. QED
      BY <1>0, <2>6, <3>1, IdleLocks DEF ProbeFails
  <2>7. QED
    BY <1>3, <2>1, <2>2, <2>3, <2>4, <2>5, <2>6 DEF LoopStep
<1>4. ASSUME NEW t \in tasks, TaskStep(t)
      PROVE  LockInv' /\ CountInv'
  <2>1. ASSUME Failed(t)
        PROVE  \A n \in Machines : Claim(n)' = Claim(n)
    <3>1. CASE state[t.machine] = None
      BY <2>1, <3>1 DEF Failed, Claim
    <3>2. CASE state[t.machine] # None
      <4>1. state[t.machine] \in Entry
            /\ state' = [state EXCEPT ![t.machine].phase = "error"]
        BY <1>0, <2>1, <3>2 DEF Failed, TypeInv, TypeOK
      <4>2. state'[t.machine] \in Entry /\ state'[t.machine].conn = state[t.machine].conn
        BY <1>0, <4>1 DEF TypeInv, TypeOK, Entry, Phases
      <4>3. \A n \in Machines \ {t.machine} : state'[n] = state[n]
        BY <4>1 DEF TypeInv, TypeOK
      <4>4. QED
        BY <4>1, <4>2, <4>3, NoneIsNothing DEF Claim
    <3>3. QED
      BY <3>1, <3>2
  <2>2. ASSUME ReadRows(t) \/ Acquire(t)
        PROVE  LockInv' /\ CountInv'
    BY <2>2, WaitingLocks DEF ReadRows, Acquire
  <2>3. ASSUME ReadFails(t) \/ ReuseFails(t) \/ HandshakeFails(t)
        PROVE  LockInv' /\ CountInv'
    BY <2>1, <2>3, EndingLocks DEF ReadFails, ReuseFails, HandshakeFails, Failed
  <2>4. ASSUME Reuse(t)
        PROVE  LockInv' /\ CountInv'
    <3>1. CASE UNCHANGED <<state, registry>> /\ Over(t)
      BY <2>4, <3>1, EndingLocks DEF Reuse, Claim
    <3>2. CASE ~(UNCHANGED <<state, registry>> /\ Over(t))
      BY <2>4, <3>2, ReuseLocks DEF Reuse
    <3>3. QED
      BY <3>1, <3>2
  <2>5. ASSUME Register(t)
        PROVE  LockInv' /\ CountInv'
    <3>1. CASE Connected(t, t.conn)
               /\ registry' = [registry EXCEPT ![TransportOf[t.machine]] =
                                  [conn |-> t.conn, refs |-> 1]]
               /\ UNCHANGED open
      BY <2>5, <3>1, RegisterLocks DEF Register
    <3>2. CASE /\ Over(t) /\ UNCHANGED state
               /\ registry' = [registry EXCEPT ![TransportOf[t.machine]] = None]
               /\ open' = open \ {t.conn}
      <4>1. registry[TransportOf[t.machine]] = None
        BY <2>5 DEF Register, LockInv, LockedIsFresh, AtLock, TransportOfTask
      <4>2. registry' = registry
        BY <3>2, <4>1 DEF TypeInv, TypeOK
      <4>3. QED
        BY <2>5, <3>2, <4>2, AbandonLocks DEF Register, Claim
    <3>3. QED
      BY <2>5, <3>1, <3>2 DEF Register
  <2>6. ASSUME RegisterFails(t)
        PROVE  LockInv' /\ CountInv'
    BY <2>1, <2>6, AbandonLocks DEF RegisterFails, Failed
  <2>7. ASSUME Save(t)
        PROVE  LockInv' /\ CountInv'
    BY <2>7, EndingLocks DEF Save, Claim
  <2>8. QED
    BY <1>4, <2>2, <2>3, <2>4, <2>5, <2>6, <2>7, HandshakeLocks DEF TaskStep
<1>5. CASE Reboot
  <2>1. \A x : Users(x)' = {}
    BY <1>5 DEF Reboot, Users
  <2>2. \A x \in Transports : registry'[x] = None
    BY <1>5 DEF Reboot
  <2>3. CountInv'
    BY <1>5, <2>1, <2>2, CountsClaims DEF Reboot, CountInv, RegisteredIsOwn, OpenWhileUsed
  <2>4. LockInv'
    BY <1>5 DEF Reboot, LockInv, OneAtLock, LockedIsFresh, PinnedIsOwn, Unclaimed
  <2>5. QED
    BY <2>3, <2>4
<1>6. QED
  BY <1>1, <1>2, <1>3, <1>4, <1>5 DEF Next, vars, Ask, LinkDrops

----------------------------------------------------------------------------
\* The inductive invariant: types need the connection a task has pinned to be
\* one of Conns, and the count needs the lock to keep strangers away.
THEOREM Invariant == Spec => []IInv
<1>1. Init => IInv
  BY TypeInit, TaskInit, LockInit DEF IInv
<1>2. IInv /\ [Next]_vars => IInv'
  BY TypeStep, TaskStepInv, LockStep DEF IInv, LockInv
<1>3. QED
  BY <1>1, <1>2, PTL DEF Spec

\* The manager's tables keep their shape: in particular a count never falls
\* to zero while its connection is still registered.
THEOREM TypeCorrect == Spec => []TypeOK
<1>1. IInv => TypeOK
  BY DEF IInv, TypeInv
<1>2. QED
  BY <1>1, Invariant, PTL

\* But for the machines a search for a port failed for, _CONNECTING is the set
\* of machines with a connect task, and no machine ever has two (_try_connect,
\* _run).
THEOREM OneConnectEach == Spec => []OneTaskEach
<1>1. IInv => OneTaskEach
  BY DEF IInv, TaskInv
<1>2. QED
  BY <1>1, Invariant, PTL

\* Two machines are never given one forward port, however their reconnects
\* overlap (_find_port_sync, _reserve_port).
THEOREM PortsStayDistinct == Spec => []PortsDistinct
<1>1. IInv => PortsDistinct
  BY DEF IInv, TaskInv
<1>2. QED
  BY <1>1, Invariant, PTL

\* Overlapping connects stay apart, however many machines there are
\* (_try_connect, _reserve_port).
THEOREM ConnectsStayApart == Spec => []ConnectsApart
BY OneConnectEach, PortsStayDistinct, PTL DEF ConnectsApart

\* The count of a shared connection is the number of machines that hold it,
\* through stops, retries and reconnects in any order (_release_machine,
\* connect).
THEOREM CountIsUsers == Spec => []CountsUsers
<1>1. IInv => CountsUsers
  BY DEF IInv, CountInv
<1>2. QED
  BY <1>1, Invariant, PTL

\* A registered connection is open, and an open one is registered or about to
\* be: none leaks and none is closed under its users.
THEOREM ClosedWithLastUser == Spec => []OpenWhileUsed
<1>1. IInv => OpenWhileUsed
  BY DEF IInv, CountInv
<1>2. QED
  BY <1>1, Invariant, PTL

\* A shared connection lives exactly as long as its users, for any machines
\* and transports (_release_machine, connect).
THEOREM SharingIsRight == Spec => []CountHolds
BY CountIsUsers, ClosedWithLastUser, PTL DEF CountHolds
=============================================================================
