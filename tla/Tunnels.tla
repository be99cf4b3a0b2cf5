------------------------------ MODULE Tunnels ------------------------------
(***************************************************************************)
(* tunnel_manager: the SSH tunnels of the remote machines.                 *)
(*                                                                         *)
(* One task (_loop) drains the command queue, checks every machine's       *)
(* health and sleeps.  Everything slow runs beside it: a connect task per  *)
(* machine (_run, which calls tunnel_manager_ssh.connect) and sleeping     *)
(* retries (_retry_after_backoff).  Machines of one transport share one    *)
(* SSH connection, counted in _TRANSPORT_CONNECTIONS; each machine has a   *)
(* port forward of its own.                                                *)
(*                                                                         *)
(* All of it runs on one event loop, so another task steps only where the  *)
(* manager's loop awaits: while it sleeps and while it probes a machine.   *)
(***************************************************************************)
EXTENDS Naturals, Sequences, FiniteSets

CONSTANTS Machines,     \* the ids the routes and the rows name
          Transports,   \* rows of ssh_transports
          TransportOf,  \* ai_machines.transport_id
          Conns,        \* identities of SSH connections
          Ports,        \* the forward port range
          None,
          MaxAsks,      \* bound: start and stop requests
          MaxFaults,    \* bound: dropped links, failed steps, restarts
          MaxSleepers,  \* bound: retries asleep for one machine and backoff
          BackoffMax,   \* _BACKOFF_MAX; _BACKOFF_BASE is 1
          HealthInterval \* TUNNEL_HEALTH_INTERVAL_S, the loop's sleep

ASSUME TransportOfIsFunction == TransportOf \in [Machines -> Transports]
ASSUME MachinesFinite == IsFiniteSet(Machines)
ASSUME IdsAreNumbers == Ports \subseteq Nat /\ Conns \subseteq Nat
ASSUME BoundsAreNumbers ==
    /\ MaxAsks \in Nat /\ MaxFaults \in Nat /\ MaxSleepers \in Nat
    /\ BackoffMax \in Nat \ {0} /\ HealthInterval \in Nat

VARIABLES
    queue,       \* _queue
    state,       \* _STATE: None where the machine has no entry
    connecting,  \* _CONNECTING
    tasks,       \* the connect tasks in flight
    sleepers,    \* retries asleep, per machine and per length of the sleep
    registry,    \* _TRANSPORT_CONNECTIONS
    open,        \* SSH connections this process holds open
    dead,        \* those among them whose far end is gone
    up,          \* machines whose ssh_tunnels row says tunnel_up = 1
    loop,        \* where the manager's loop is
    snap,        \* the entries a tick has still to visit, see Snapshot
    portless,    \* machines a search for a port failed for; no variable of
                 \* the code: only properties read it
    asks, faults

vars == <<queue, state, connecting, tasks, sleepers, registry, open, dead,
          up, loop, snap, portless, asks, faults>>

Phases == {"connecting", "connected", "error"}
Backoffs == 1..BackoffMax
Entry == [phase: Phases, conn: Conns \cup {None}, port: Ports \cup {None},
          backoff: Backoffs]
Task == [machine: Machines, pc: {"read", "lock", "shake", "pin", "save"},
         conn: Conns \cup {None}, port: Ports]
Shared == [conn: Conns, refs: Nat \ {0}]
LoopAt == {"drain", "tick", "sleep"} \cup Machines
Command == {"START", "STOP", "RECONNECT"} \X Machines

ASSUME NoneIsNothing ==
    None \notin Conns \cup Ports /\ None \notin Entry /\ None \notin Shared

FreshEntry(b) ==
    [phase |-> "connecting", conn |-> None, port |-> None, backoff |-> b]

----------------------------------------------------------------------------
\* The event loop runs another task where the manager's loop awaits: its
\* sleep, and the probe of a machine (loop then names that machine).
Yielded == loop = "sleep" \/ loop \in Machines

PortsNotReserved(m) ==                                       \* mutant
    {p \in Ports : \A n \in Machines \ {m} : state[n] # None => state[n].port # p}

\* What _find_port_sync finds free: neither reserved by a connect task nor
\* listened on by another machine's forward (m's own has just been stopped).
FreePorts(m) ==
    {p \in Ports :
        /\ \A t \in tasks : t.port # p
        /\ \A n \in Machines \ {m} : state[n] # None => state[n].port # p}

LockNotTaken(x) == TRUE                                      \* mutant

LockFree(x) ==
    ~\E t \in tasks : t.pc \in {"shake", "pin"} /\ TransportOf[t.machine] = x

LastClaimKept(x) ==                                          \* mutant
    /\ registry' = [registry EXCEPT ![x].refs = @ - 1]
    /\ UNCHANGED open

\* One claim on the transport's connection given up; the last one closes it.
Drop(x) ==
    IF registry[x].refs = 1
    THEN /\ registry' = [registry EXCEPT ![x] = None]
         /\ open' = open \ {registry[x].conn}
    ELSE /\ registry' = [registry EXCEPT ![x].refs = @ - 1]
         /\ UNCHANGED open

\* _release_machine: the entry goes, with its forward and its claim.  The
\* entry a tick has captured keeps the phase it had.
ReleaseMachine(m) ==
    /\ snap' = [snap EXCEPT ![m] = IF @ = "live" THEN state[m].phase ELSE @]
    /\ IF state[m] = None \/ state[m].conn = None
       THEN UNCHANGED <<registry, open>>
       ELSE IF registry[TransportOf[m]] = None
            THEN open' = open \ {state[m].conn} /\ UNCHANGED registry
            ELSE Drop(TransportOf[m])

Fault == faults < MaxFaults /\ faults' = faults + 1

\* The least free port is reserved, and the connect task created.
Spawn(m) ==
    \E p \in FreePorts(m) :
        /\ \A q \in FreePorts(m) : p <= q
        /\ tasks' = tasks \cup
               {[machine |-> m, pc |-> "read", conn |-> None, port |-> p]}

\* _find_port_sync raises: the manager has taken every port, or, a fault, none
\* refuses a connection (other programs listen there, or no socket can be had).
\* The OSError leaves _try_connect: the name is in _CONNECTING without a task.
NoPort(m) ==
    /\ portless' = portless \cup {m}
    /\ IF FreePorts(m) = {} THEN UNCHANGED faults ELSE Fault
    /\ UNCHANGED tasks

\* _try_connect: at most one connect task for a machine.
TryConnect(m) ==
    IF m \in connecting
    THEN UNCHANGED <<connecting, tasks, portless, faults>>
    ELSE /\ connecting' = connecting \cup {m}
         /\ \/ Spawn(m) /\ UNCHANGED <<portless, faults>>
            \/ NoPort(m)

----------------------------------------------------------------------------
Init ==
    /\ queue = <<>>
    /\ state = [m \in Machines |-> None]
    /\ connecting = {}
    /\ tasks = {}
    /\ sleepers = [m \in Machines |-> [b \in Backoffs |-> 0]]
    /\ registry = [x \in Transports |-> None]
    /\ open = {}
    /\ dead = {}
    /\ up = {}
    /\ loop = "drain"
    /\ snap = [m \in Machines |-> "no"]
    /\ portless = {}
    /\ asks = 0
    /\ faults = 0

\* POST /api/tunnel/start, /api/tunnel/stop and the two branches of toggle.
Ask(m, command) ==
    /\ Yielded
    /\ asks < MaxAsks
    /\ asks' = asks + 1
    /\ queue' = Append(queue, <<command, m>>)
    /\ UNCHANGED <<state, connecting, tasks, sleepers, registry, open, dead,
                   up, loop, snap, portless, faults>>

----------------------------------------------------------------------------
\* _handle_command, one command of the drain.
Next1(command, m) ==
    loop = "drain" /\ queue # <<>> /\ Head(queue) = <<command, m>>

HandleStart(m) ==
    /\ Next1("START", m)
    /\ queue' = Append(Tail(queue), <<"RECONNECT", m>>)
    /\ state' = IF state[m] = None THEN [state EXCEPT ![m] = FreshEntry(1)]
                                   ELSE state
    /\ UNCHANGED <<connecting, tasks, sleepers, registry, open, dead, up, loop,
                   snap, portless, asks, faults>>

HandleStop(m) ==
    /\ Next1("STOP", m)
    /\ queue' = Tail(queue)
    /\ ReleaseMachine(m)
    /\ state' = [state EXCEPT ![m] = None]
    /\ UNCHANGED <<connecting, tasks, sleepers, dead, up, loop, portless, asks,
                   faults>>

HandleReconnect(m) ==
    /\ Next1("RECONNECT", m)
    /\ queue' = Tail(queue)
    /\ ReleaseMachine(m)
    /\ state' = [state EXCEPT ![m] = FreshEntry(1)]
    /\ TryConnect(m)
    /\ UNCHANGED <<sleepers, dead, up, loop, asks>>

----------------------------------------------------------------------------
\* _tick works on the entries _STATE holds when it starts: snap[m] is "live"
\* while the captured entry is the machine's own, and the phase it was left
\* with once the entry has been replaced.
Snapshot ==
    /\ loop = "drain"
    /\ queue = <<>>
    /\ loop' = "tick"
    /\ snap' = [m \in Machines |-> IF state[m] = None THEN "no" ELSE "live"]
    /\ UNCHANGED <<queue, state, connecting, tasks, sleepers, registry, open,
                   dead, up, portless, asks, faults>>

Captured(m) == IF snap[m] = "live" THEN state[m].phase ELSE snap[m]

ErrorsOnly(m) == Captured(m) = "error" /\ m \notin connecting   \* mutant

\* Connecting, or marked down, and nobody is working on it.
Stranded(m) ==
    /\ Captured(m) \in {"error", "connecting"}
    /\ m \notin connecting

VisitConnected(m) ==
    /\ loop = "tick"
    /\ snap[m] # "no"
    /\ Captured(m) = "connected"
    /\ loop' = m
    /\ UNCHANGED <<queue, state, connecting, tasks, sleepers, registry, open,
                   dead, up, snap, portless, asks, faults>>

\* The first lines of _retry_after_backoff run with the tick; then it sleeps.
Doubled(b) == IF b * 2 < BackoffMax THEN b * 2 ELSE BackoffMax

VisitStranded(m) ==
    /\ loop = "tick"
    /\ snap[m] # "no"
    /\ Stranded(m)
    /\ snap' = [snap EXCEPT ![m] = "no"]
    /\ IF state[m] = None
       THEN UNCHANGED sleepers
       ELSE sleepers' = [sleepers EXCEPT ![m][Doubled(state[m].backoff)] =
                            IF @ < MaxSleepers THEN @ + 1 ELSE @]
    /\ UNCHANGED <<queue, state, connecting, tasks, registry, open, dead, up,
                   loop, portless, asks, faults>>

VisitBusy(m) ==
    /\ loop = "tick"
    /\ snap[m] # "no"
    /\ Captured(m) # "connected" /\ ~Stranded(m)
    /\ snap' = [snap EXCEPT ![m] = "no"]
    /\ UNCHANGED <<queue, state, connecting, tasks, sleepers, registry, open,
                   dead, up, loop, portless, asks, faults>>

\* What a probe of m meets now: a proxy answering over a live connection.
Reachable(m) ==
    state[m] # None /\ state[m].conn \in Conns /\ state[m].conn \notin dead

ProbeOk(m) ==
    /\ loop = m
    /\ Reachable(m)
    /\ loop' = "tick"
    /\ snap' = [snap EXCEPT ![m] = "no"]
    /\ UNCHANGED <<queue, state, connecting, tasks, sleepers, registry, open,
                   dead, up, portless, asks, faults>>

\* The verdict is written on the captured entry, whichever that is by now.
ProbeFails(m) ==
    /\ loop = m
    /\ IF Reachable(m) THEN faults < MaxFaults /\ faults' = faults + 1
                       ELSE UNCHANGED faults
    /\ loop' = "tick"
    /\ state' = IF snap[m] = "live"
                THEN [state EXCEPT ![m].phase = "error"] ELSE state
    /\ snap' = [snap EXCEPT ![m] = "no"]
    /\ UNCHANGED <<queue, connecting, tasks, sleepers, registry, open, dead,
                   up, portless, asks>>

TickEnds ==
    /\ loop = "tick"
    /\ \A m \in Machines : snap[m] = "no"
    /\ loop' = "sleep"
    /\ UNCHANGED <<queue, state, connecting, tasks, sleepers, registry, open,
                   dead, up, snap, portless, asks, faults>>

\* The sleep outlasts every shorter one that began before it.
Wakes ==
    /\ loop = "sleep"
    /\ \A m \in Machines, b \in Backoffs :
           b < HealthInterval => sleepers[m][b] = 0
    /\ loop' = "drain"
    /\ UNCHANGED <<queue, state, connecting, tasks, sleepers, registry, open,
                   dead, up, snap, portless, asks, faults>>

----------------------------------------------------------------------------
\* _retry_after_backoff once its sleep is over: it does not look at what has
\* become of the machine meanwhile.
Retry(m, b) ==
    /\ Yielded
    /\ sleepers[m][b] > 0
    /\ sleepers' = [sleepers EXCEPT ![m][b] = @ - 1]
    /\ ReleaseMachine(m)
    /\ state' = [state EXCEPT ![m] = FreshEntry(b)]
    /\ TryConnect(m)
    /\ UNCHANGED <<queue, dead, up, loop, asks>>

----------------------------------------------------------------------------
\* A connect task.
Moves(t, pc, c) == tasks' = (tasks \ {t}) \cup {[t EXCEPT !.pc = pc, !.conn = c]}

Over(t) ==
    /\ tasks' = tasks \ {t}
    /\ connecting' = connecting \ {t.machine}

\* _run after connect() has returned a failure (which _fail has noted).
Failed(t) ==
    /\ Over(t)
    /\ state' = IF state[t.machine] = None THEN state
                ELSE [state EXCEPT ![t.machine].phase = "error"]

\* _run after connect() has returned connection c, in the same step.
Connected(t, c) ==
    /\ state[t.machine] # None
    /\ state' = [state EXCEPT ![t.machine] =
                    [phase |-> "connected", conn |-> c, port |-> t.port,
                     backoff |-> 1]]
    /\ Moves(t, "save", c)
    /\ UNCHANGED connecting

ReadRows(t) ==
    /\ Yielded /\ t.pc = "read"
    /\ Moves(t, "lock", None)
    /\ UNCHANGED <<queue, state, connecting, sleepers, registry, open, dead,
                   up, loop, snap, portless, asks, faults>>

ReadFails(t) ==
    /\ Yielded /\ t.pc = "read"
    /\ Fault
    /\ Failed(t)
    /\ UNCHANGED <<queue, sleepers, registry, open, dead, up, loop, snap,
                   portless, asks>>

\* The transport's lock is free and nobody is connected: handshake.
Acquire(t) ==
    /\ Yielded /\ t.pc = "lock" /\ LockFree(TransportOf[t.machine])
    /\ registry[TransportOf[t.machine]] = None
    /\ Moves(t, "shake", None)
    /\ UNCHANGED <<queue, state, connecting, sleepers, registry, open, dead,
                   up, loop, snap, portless, asks, faults>>

\* Somebody is connected: one more claim on that connection, unasked whether
\* it is alive.  A machine stopped meanwhile gives the claim back at once.
Reuse(t) ==
    LET x == TransportOf[t.machine]
    IN  /\ Yielded /\ t.pc = "lock" /\ LockFree(x)
        /\ registry[x] # None
        /\ \/ /\ Connected(t, registry[x].conn)
              /\ registry' = [registry EXCEPT ![x].refs = @ + 1]
           \/ /\ state[t.machine] = None
              /\ Over(t)
              /\ UNCHANGED <<state, registry>>
        /\ UNCHANGED <<queue, sleepers, open, dead, up, loop, snap, portless,
                       asks, faults>>

ReuseFails(t) ==
    /\ Yielded /\ t.pc = "lock" /\ LockFree(TransportOf[t.machine])
    /\ registry[TransportOf[t.machine]] # None
    /\ Fault
    /\ Failed(t)
    /\ UNCHANGED <<queue, sleepers, registry, open, dead, up, loop, snap,
                   portless, asks>>

\* Identities no client object in use has: the least stands for the new one.
FreshConns ==
    {c \in Conns \ open :
        \A m \in Machines : state[m] # None => state[m].conn # c}

\* The thread's ssh_client.connect has succeeded; the task has not resumed.
Handshake(t) ==
    /\ Yielded /\ t.pc = "shake"
    /\ \E c \in FreshConns :
        /\ \A d \in FreshConns : c <= d
        /\ open' = open \cup {c}
        /\ dead' = dead \ {c}
        /\ Moves(t, "pin", c)
    /\ UNCHANGED <<queue, state, connecting, sleepers, registry, up, loop,
                   snap, portless, asks, faults>>

HandshakeFails(t) ==
    /\ Yielded /\ t.pc = "shake"
    /\ Fault
    /\ Failed(t)
    /\ UNCHANGED <<queue, sleepers, registry, open, dead, up, loop, snap,
                   portless, asks>>

\* Host key pinned, forward started, connection registered for the others; a
\* machine stopped meanwhile closes it again.
Register(t) ==
    LET x == TransportOf[t.machine]
    IN  /\ Yielded /\ t.pc = "pin"
        /\ \/ /\ Connected(t, t.conn)
              /\ registry' = [registry EXCEPT ![x] =
                                 [conn |-> t.conn, refs |-> 1]]
              /\ UNCHANGED open
           \/ /\ state[t.machine] = None
              /\ Over(t)
              /\ open' = open \ {t.conn}
              /\ registry' = [registry EXCEPT ![x] = None]
              /\ UNCHANGED state
        /\ UNCHANGED <<queue, sleepers, dead, up, loop, snap, portless, asks,
                       faults>>

RegisterFails(t) ==
    /\ Yielded /\ t.pc = "pin"
    /\ Fault
    /\ Failed(t)
    /\ open' = open \ {t.conn}
    /\ UNCHANGED <<queue, sleepers, registry, dead, up, loop, snap, portless,
                   asks>>

\* The row is written, or that fails; only now does the task leave _CONNECTING.
Save(t) ==
    /\ Yielded /\ t.pc = "save"
    /\ \/ up' = up \cup {t.machine} /\ UNCHANGED faults
       \/ Fault /\ UNCHANGED up
    /\ Over(t)
    /\ UNCHANGED <<queue, state, sleepers, registry, open, dead, loop, snap,
                   portless, asks>>

----------------------------------------------------------------------------
\* A connection's far end goes away without the client noticing.
LinkDrops(c) ==
    /\ Yielded
    /\ c \in open \ dead
    /\ Fault
    /\ dead' = dead \cup {c}
    /\ UNCHANGED <<queue, state, connecting, tasks, sleepers, registry, open,
                   up, loop, snap, portless, asks>>

\* The process dies and start() queues a reconnect for every row that is up.
Reboot ==
    /\ Fault
    /\ queue' \in {q \in [1..Cardinality(up) -> {"RECONNECT"} \X up] :
                      \A m \in up : \E i \in DOMAIN q : q[i][2] = m}
    /\ state' = [m \in Machines |-> None]
    /\ connecting' = {}
    /\ tasks' = {}
    /\ sleepers' = [m \in Machines |-> [b \in Backoffs |-> 0]]
    /\ registry' = [x \in Transports |-> None]
    /\ open' = {}
    /\ dead' = {}
    /\ loop' = "drain"
    /\ snap' = [m \in Machines |-> "no"]
    /\ portless' = {}
    /\ UNCHANGED <<up, asks>>

LoopStep ==
    \/ Snapshot \/ TickEnds \/ Wakes
    \/ \E m \in Machines :
        \/ HandleStart(m) \/ HandleStop(m) \/ HandleReconnect(m)
        \/ VisitConnected(m) \/ VisitStranded(m) \/ VisitBusy(m)
        \/ ProbeOk(m) \/ ProbeFails(m)

TaskStep(t) ==
    \/ ReadRows(t) \/ ReadFails(t) \/ Acquire(t) \/ Reuse(t) \/ ReuseFails(t)
    \/ Handshake(t) \/ HandshakeFails(t) \/ Register(t) \/ RegisterFails(t)
    \/ Save(t)

Next ==
    \/ \E m \in Machines : Ask(m, "START") \/ Ask(m, "STOP")
    \/ \E m \in Machines, b \in Backoffs : Retry(m, b)
    \/ LoopStep
    \/ \E t \in tasks : TaskStep(t)
    \/ \E c \in Conns : LinkDrops(c)
    \/ Reboot

\* Every task of the event loop that is ready gets its turn at one of the
\* loop's awaits, a sleep ends, and asyncio.Lock serves its waiters in order.
Fairness ==
    /\ WF_vars(LoopStep)
    /\ \A m \in Machines :
        /\ SF_vars(\E b \in Backoffs : Retry(m, b))
        /\ SF_vars(\E t \in tasks : t.machine = m /\ TaskStep(t))

Spec == Init /\ [][Next]_vars /\ Fairness

----------------------------------------------------------------------------
TypeOK ==
    /\ queue \in Seq(Command)
    /\ state \in [Machines -> Entry \cup {None}]
    /\ connecting \subseteq Machines
    /\ tasks \subseteq Task
    /\ sleepers \in [Machines -> [Backoffs -> 0..MaxSleepers]]
    /\ registry \in [Transports -> Shared \cup {None}]
    /\ open \subseteq Conns
    /\ dead \subseteq Conns
    /\ up \subseteq Machines
    /\ loop \in LoopAt
    /\ snap \in [Machines -> {"no", "live"} \cup Phases]
    /\ portless \subseteq Machines
    /\ asks \in 0..MaxAsks
    /\ faults \in 0..MaxFaults

Users(x) == {m \in Machines :
                TransportOf[m] = x /\ state[m] # None /\ state[m].conn # None}

\* The shared count is the number of machines whose entry holds a claim, and
\* every claim is on the registered connection (_release_machine, connect).
CountsUsers ==
    \A x \in Transports :
        /\ registry[x] # None => /\ registry[x].refs = Cardinality(Users(x))
                                 /\ \A m \in Users(x) :
                                        state[m].conn = registry[x].conn
        /\ registry[x] = None => Users(x) = {}

\* No connection is closed under a machine that uses it, and none stays open
\* that nobody has registered or is about to register.
OpenWhileUsed ==
    /\ \A x \in Transports : registry[x] # None => registry[x].conn \in open
    /\ \A c \in open :
        \/ \E x \in Transports : registry[x] # None /\ registry[x].conn = c
        \/ \E t \in tasks : t.pc = "pin" /\ t.conn = c

\* A connection is shared as its count says: it is that of its users, and it
\* is open exactly while there are some (tunnel_manager_ssh.py).
CountHolds == CountsUsers /\ OpenWhileUsed

\* _CONNECTING names each machine that has a connect task, one task each, and
\* without a task only a machine for which the search for a port failed.
OneTaskEach ==
    /\ connecting \ portless = {t.machine : t \in tasks}
    /\ \A s, t \in tasks : s.machine = t.machine => s = t

\* No two forwards, bound or about to be, are given one port.
PortsDistinct ==
    \A t \in tasks :
        /\ \A s \in tasks : s.port = t.port => s = t
        /\ \A m \in Machines : state[m] # None /\ state[m].port = t.port
                                  => m = t.machine

\* Connects that overlap stay apart: one for each machine, on a port of its own.
ConnectsApart == OneTaskEach /\ PortsDistinct

\* A machine that waits for its tunnel gets it, or the tunnel is stopped: the
\* tick picks up the entries no task is working on.  A machine for which the
\* search for a port failed once is excepted: nothing takes its name out of
\* _CONNECTING before the process ends, so that no later connect is made.
NeverStranded ==
    \A m \in Machines :
        (state[m] # None) ~> \/ state[m] = None
                             \/ state[m].phase = "connected"
                             \/ m \in portless

\* Once links stop failing, a machine that has its transport to itself ends up
\* on a connection that works and stays on it, or is stopped; with the same
\* exception.
Alone(m) ==
    \A n \in Machines \ {m} : TransportOf[n] = TransportOf[m] => state[n] = None
RecoversAlone ==
    \A m \in Machines :
        <>[]Alone(m) => <>[](state[m] = None \/ Reachable(m) \/ m \in portless)

\* The comment in _tick: "if the machine is already in _CONNECTING, an _run() is
\* in-flight".  A search for a port that fails refutes it.
ConnectingIsInFlight == connecting = {t.machine : t \in tasks}

\* A tunnel comes into being, or comes back, by a command of the queue only.
StoppedStays ==
    [][\A m \in Machines :
          state[m] = None /\ state'[m] # None => loop = "drain"]_vars
=============================================================================
