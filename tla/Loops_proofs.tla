--------------------------- MODULE Loops_proofs -----------------------------
(***************************************************************************)
(* The two loops that work without a request.  The scheduler's: tasks run  *)
(* once, in order, and what is published is true, for every plan and any   *)
(* number of loops.  A task that is ready, or that a turn works on,        *)
(* belongs to the one loop that took it (Owns), and was taken when all its *)
(* dependencies were done, which they stay.  The sweep's: for any matrix,  *)
(* any number of forced measurements, edits, nights and failures, a cell   *)
(* that nobody forced goes dormant only for nights on which it failed, and *)
(* a sweep that is closed as done has measured every cell in rotation.     *)
(***************************************************************************)
EXTENDS ScheduleLoop, Sweep, WellFoundedInduction, TLAPS

-----------------------------------------------------------------------------
(***************************************************************************)
(* The scheduler loop (ScheduleLoop).                                      *)
(***************************************************************************)

\* The tasks loop l has taken and not finished.
Owns(l) ==
  loop[l].ready \cup (IF loop[l].pc \in {"model", "turn"} THEN {loop[l].tid} ELSE {})

\* No task belongs to two loops, whatever stops and restarts came before.
OneOwner == \A l, m \in Loops : l # m => Owns(l) \cap Owns(m) = {}

\* The status of a task that belongs to loop l says how far l is with it.
OwnsReady ==
  \A l \in Loops :
    /\ \A t \in loop[l].ready : status[t] = "ready"
    /\ loop[l].pc = "model" =>
         status[loop[l].tid] = "ready" /\ loop[l].tid \notin loop[l].ready
    /\ loop[l].pc = "turn" => status[loop[l].tid] = "running"

\* A task has been started when its status says so, and once.
StartedOnce ==
  \A t \in Tasks :
    started[t] = IF status[t] \in {"running", "done", "failed"} THEN 1 ELSE 0

\* What was found ready has its dependencies done, and they stay so.
TakenDepsDone ==
  \A t \in Tasks :
    status[t] \in {"ready", "running", "done", "failed"}
      => \A d \in deps[t] : status[d] = "done"

IInv == TypeOK /\ OneOwner /\ OwnsReady /\ StartedOnce /\ TakenDepsDone

-----------------------------------------------------------------------------
LEMMA AtLoop ==
  ASSUME NEW pc \in {"off", "spawned", "sleep", "model", "turn", "report",
                     "persist", "wait", "final", "failed"}
  PROVE  At(pc) \in Loop /\ At(pc).pc = pc /\ At(pc).ready = {}
  BY PlanAssumption DEF At, Loop, Tasks

LEMMA InitIInv == Init => IInv
<1> SUFFICES ASSUME Init PROVE IInv
  OBVIOUS
<1> USE DEF Init
<1>1. \A l \in Loops : loop[l] \in Loop /\ loop[l].pc \in {"spawned", "off"}
                         /\ loop[l].ready = {}
  BY AtLoop
<1>2. TypeOK
  BY <1>1 DEF TypeOK, Statuses, RunStatuses
<1>3. OneOwner
  BY <1>1 DEF OneOwner, Owns
<1>4. OwnsReady
  BY <1>1 DEF OwnsReady
<1>5. StartedOnce /\ TakenDepsDone
  BY DEF StartedOnce, TakenDepsDone
<1> QED
  BY <1>2, <1>3, <1>4, <1>5 DEF IInv

LEMMA GetReady ==
  ASSUME TypeOK
  PROVE  /\ get_ready_tasks \in [Tasks -> Statuses]
         /\ Runnable \subseteq Tasks
         /\ \A t \in Runnable : status[t] = "pending" /\ get_ready_tasks[t] = "ready"
         /\ \A t \in Tasks : status[t] # "pending" => get_ready_tasks[t] = status[t]
         /\ \A t \in Tasks : status[t] = "pending"
              => get_ready_tasks[t] \in {"pending", "ready", "blocked"}
         /\ \A t \in Tasks : status[t] = "pending" /\ get_ready_tasks[t] = "ready"
              => \A d \in deps[t] : status[d] = "done"
  BY DEF TypeOK, get_ready_tasks, Runnable, Blockable, Statuses

LEMMA DepsType == TypeOK => \A t \in Tasks : deps[t] \subseteq Tasks
  BY PlanAssumption DEF TypeOK

LEMMA StartNextType ==
  ASSUME TypeOK, NEW l \in Loops, NEW st \in [Tasks -> Statuses],
         NEW batch \in SUBSET Tasks, NEW goOn,
         StartNext(l, st, batch, goOn)
  PROVE  /\ loop' \in [Loops -> Loop]
         /\ status' \in [Tasks -> Statuses]
         /\ started' \in [Tasks -> Nat]
<1>1. At("persist") \in Loop
  BY AtLoop
<1>2. ASSUME NEW t \in batch, NEW pc \in {"model", "turn"}
      PROVE  [At(pc) EXCEPT !.ready = batch \ {t}, !.tid = t] \in Loop
  BY AtLoop, <1>2 DEF Loop, At
<1> DEFINE ready == {t \in batch : st[t] = "ready"}
<1>3. CASE goOn /\ ready # {}
  <2>1. PICK t \in ready, pc \in {"model", "turn"} :
          /\ loop' = [loop EXCEPT ![l] = [At(pc) EXCEPT !.ready = batch \ {t}, !.tid = t]]
          /\ status' = IF pc = "turn" THEN [st EXCEPT ![t] = "running"] ELSE st
          /\ started' = IF pc = "turn" THEN [started EXCEPT ![t] = @ + 1] ELSE started
    BY <1>3 DEF StartNext
  <2>2. t \in Tasks /\ t \in batch
    OBVIOUS
  <2>3. loop' \in [Loops -> Loop]
    BY <2>1, <2>2, <1>2 DEF TypeOK
  <2>4. status' \in [Tasks -> Statuses] /\ started' \in [Tasks -> Nat]
    BY <2>1, <2>2 DEF TypeOK, Statuses
  <2> QED
    BY <2>3, <2>4
<1>4. CASE ~(goOn /\ ready # {})
  BY <1>4, <1>1 DEF StartNext, TypeOK
<1> QED
  BY <1>3, <1>4

LEMMA TypeStep == TypeOK /\ [Next]_vars => TypeOK'
<1> SUFFICES ASSUME TypeOK, [Next]_vars PROVE TypeOK'
  OBVIOUS
<1> USE DEF TypeOK
<1>1. CASE UNCHANGED vars
  BY <1>1 DEF vars, graph, engine
<1>2. ASSUME NEW l \in Loops, Turn(l) PROVE TypeOK'
  BY <1>2, GetReady, StartNextType DEF Turn
<1>3. ASSUME NEW l \in Loops, Reported(l) PROVE TypeOK'
  <2>1. loop[l].ready \in SUBSET Tasks
    BY DEF Loop
  <2>2. StartNext(l, status, loop[l].ready, running)
    BY <1>3 DEF Reported
  <2>3. loop' \in [Loops -> Loop] /\ status' \in [Tasks -> Statuses]
        /\ started' \in [Tasks -> Nat]
    BY <2>1, <2>2, StartNextType
  <2> QED
    BY <1>3, <2>3 DEF Reported, engine
<1>4. ASSUME NEW l \in Loops, Leave(l) PROVE TypeOK'
  <2>1. [At("final") EXCEPT !.stoppedEarly = ~all_done] \in Loop
    BY AtLoop DEF Loop, At, all_done
  <2> QED
    BY <1>4, <2>1 DEF Leave, graph
<1>5. ASSUME NEW l \in Loops, ModelFound(l) \/ TurnEnds(l) PROVE TypeOK'
  BY <1>5 DEF ModelFound, TurnEnds, Loop, Statuses, engine
<1>6. ASSUME NEW l \in Loops, ModelRaises(l) \/ Publish(l) \/ PublishFails(l)
      PROVE  TypeOK'
  <2>1. loop' \in [Loops -> Loop]
    BY <1>6, AtLoop DEF ModelRaises, Publish, PublishFails
  <2>2. CASE ModelRaises(l)
    BY <2>1, <2>2 DEF ModelRaises, graph
  <2>3. CASE Publish(l) \/ PublishFails(l)
    <3>1. dbStatus' \in RunStatuses /\ degraded' \in BOOLEAN
      BY <2>3 DEF Publish, PublishFails, verdict, RunStatuses
    <3>2. UNCHANGED <<graph, engine, req>>
      BY <2>3 DEF Publish, PublishFails
    <3> QED
      BY <2>1, <3>1, <3>2 DEF graph, engine
  <2> QED
    BY <1>6, <2>2, <2>3
<1>7. ASSUME NEW l \in Loops, Persisted(l) \/ Waited(l) PROVE TypeOK'
  BY <1>7 DEF Persisted, Waited, Loop, graph, engine
<1>8. CASE PutStarts
  BY <1>8, AtLoop DEF PutStarts, Request, RunStatuses, graph, engine
<1>9. CASE \/ \E s \in RunStatuses : Put(s)
           \/ PutStops \/ PutOther \/ AskPause \/ AskResume
  <2>1. \E pc \in {"none", "put", "pause", "resume"}, seen \in RunStatuses :
          /\ req' = [pc |-> pc, seen |-> seen]
          /\ pc = "pause" => seen \in {"planning", "running"}
    BY <1>9 DEF Put, PutStops, PutOther, AskPause, AskResume, Request, RunStatuses
  <2>2. /\ req' \in [pc : {"none", "put", "pause", "pausing", "resume", "resuming"},
                    seen : RunStatuses]
        /\ req'.pc = "pause" => req'.seen \in {"planning", "running"}
    BY <2>1
  <2> QED
    BY <1>9, <2>2 DEF Put, PutStops, PutOther, AskPause, AskResume, graph, engine
<1>10. CASE pause
  <2>1. restore' \in {"planning", "running"} /\ paused' \in BOOLEAN
    BY <1>10 DEF pause
  <2>2. \/ req' = [pc |-> "pausing", seen |-> "paused"]
        \/ req' = [pc |-> "none", seen |-> "idle"]
    BY <1>10 DEF pause, Request
  <2> QED
    BY <1>10, <2>1, <2>2 DEF pause, RunStatuses, graph
<1>11. CASE resume
  <2>1. \/ req' = [pc |-> "resuming", seen |-> restore]
        \/ req' = [pc |-> "none", seen |-> "idle"]
    BY <1>11 DEF resume, Request
  <2>2. /\ req' \in [pc : {"none", "put", "pause", "pausing", "resume", "resuming"},
                    seen : RunStatuses]
        /\ req'.pc # "pause"
    BY <2>1 DEF RunStatuses
  <2> QED
    BY <1>11, <2>2 DEF resume, graph
<1>12. CASE PauseWritten
  BY <1>12 DEF PauseWritten, Request, RunStatuses, graph, engine
<1> QED
  BY <1>1, <1>2, <1>3, <1>4, <1>5, <1>6, <1>7, <1>8, <1>9, <1>10, <1>11, <1>12
     DEF Next, LoopStep, RequestStep

\* A loop that takes no task keeps the invariant.
LEMMA TakesNothing ==
  ASSUME IInv, TypeOK', UNCHANGED graph,
         \/ UNCHANGED loop
         \/ \E l \in Loops, x \in Loop :
              /\ loop' = [loop EXCEPT ![l] = x]
              /\ x.pc \notin {"model", "turn"}
              /\ x.ready \subseteq loop[l].ready
  PROVE  IInv'
<1> USE DEF IInv, graph
<1>1. \A m \in Loops :
        /\ Owns(m)' \subseteq Owns(m)
        /\ loop[m].ready' \subseteq loop[m].ready
        /\ loop'[m].pc \in {"model", "turn"} => loop'[m] = loop[m]
  BY DEF Owns, TypeOK
<1>2. OneOwner'
  BY <1>1 DEF OneOwner
<1>3. OwnsReady'
  BY <1>1 DEF OwnsReady
<1> QED
  BY <1>2, <1>3 DEF StartedOnce, TakenDepsDone

\* The next task of a batch that nobody else owns is taken.
LEMMA StartNextIInv ==
  ASSUME IInv, TypeOK', NEW l \in Loops, NEW st \in [Tasks -> Statuses],
         NEW batch \in SUBSET Tasks, NEW goOn,
         StartNext(l, st, batch, goOn), UNCHANGED deps,
         loop[l].pc \notin {"model", "turn"},
         \A t \in batch : /\ st[t] = "ready"
                          /\ status[t] = "pending" \/ t \in loop[l].ready,
         \A t \in Tasks :
           /\ status[t] # "pending" => st[t] = status[t]
           /\ status[t] = "pending" => st[t] \in {"pending", "ready", "blocked"}
           /\ status[t] = "pending" /\ st[t] = "ready"
                => \A d \in deps[t] : status[d] = "done"
  PROVE  IInv'
<1> USE DEF IInv
<1>1. \A m \in Loops \ {l} : Owns(m) \cap batch = {}
  <2> SUFFICES ASSUME NEW m \in Loops \ {l}, NEW t \in Owns(m), t \in batch
               PROVE  FALSE
    OBVIOUS
  <2>1. status[t] \in {"ready", "running"}
    BY DEF Owns, OwnsReady
  <2>2. t \in loop[l].ready
    BY <2>1
  <2> QED
    BY <2>2 DEF OneOwner, Owns
<1>2. \A t \in Tasks : deps[t] \subseteq Tasks
  BY DepsType
<1>3. CASE /\ loop' = [loop EXCEPT ![l] = At("persist")]
           /\ status' = st /\ UNCHANGED started
  <2>1. loop'[l].ready = {} /\ loop'[l].pc = "persist"
    BY <1>3, AtLoop DEF TypeOK
  <2>2. Owns(l)' = {} /\ \A m \in Loops \ {l} : loop'[m] = loop[m] /\ Owns(m)' = Owns(m)
    BY <1>3, <2>1 DEF Owns, TypeOK
  <2>3. OneOwner'
    BY <2>2 DEF OneOwner
  <2>4. OwnsReady'
    BY <1>3, <2>1, <2>2 DEF OwnsReady, TypeOK, Loop
  <2>5. StartedOnce'
    BY <1>3 DEF StartedOnce
  <2>6. TakenDepsDone'
    BY <1>2, <1>3 DEF TakenDepsDone
  <2> QED
    BY <2>3, <2>4, <2>5, <2>6
<1>4. ASSUME NEW t \in batch, NEW pc \in {"model", "turn"},
             loop' = [loop EXCEPT ![l] = [At(pc) EXCEPT !.ready = batch \ {t}, !.tid = t]],
             status' = IF pc = "turn" THEN [st EXCEPT ![t] = "running"] ELSE st,
             started' = IF pc = "turn" THEN [started EXCEPT ![t] = @ + 1] ELSE started
      PROVE  IInv'
  <2>1. loop'[l].ready = batch \ {t} /\ loop'[l].pc = pc /\ loop'[l].tid = t
    BY <1>4 DEF At, TypeOK
  <2>2. Owns(l)' = batch
    BY <2>1 DEF Owns
  <2>3. \A m \in Loops \ {l} : loop'[m] = loop[m] /\ Owns(m)' = Owns(m)
    BY <1>4 DEF Owns, TypeOK
  <2>4. OneOwner'
    BY <1>1, <2>2, <2>3 DEF OneOwner
  <2>5. ASSUME NEW s \in Tasks, s \notin batch, status[s] # "pending"
        PROVE  status'[s] = status[s]
    BY <1>4, <2>5
  <2>6. OwnsReady'
    <3>1. ASSUME NEW m \in Loops \ {l}, NEW s \in Owns(m) PROVE status'[s] = status[s]
      BY <1>1, <2>5 DEF Owns, OwnsReady, TypeOK, Loop
    <3>2. ASSUME NEW s \in batch \ {t} PROVE status'[s] = "ready"
      BY <1>4
    <3>3. status'[t] = IF pc = "turn" THEN "running" ELSE "ready"
      BY <1>4
    <3> QED
      BY <2>1, <2>3, <3>1, <3>2, <3>3 DEF OwnsReady, Owns
  <2>7. StartedOnce'
    <3>1. started[t] = 0
      BY DEF StartedOnce, OwnsReady
    <3> QED
      BY <1>4, <3>1 DEF StartedOnce, TypeOK
  <2>8. TakenDepsDone'
    BY <1>2, <1>4 DEF TakenDepsDone, OwnsReady
  <2> QED
    BY <2>4, <2>6, <2>7, <2>8
<1>5. CASE goOn /\ {t \in batch : st[t] = "ready"} # {}
  BY <1>4, <1>5 DEF StartNext
<1>6. CASE ~(goOn /\ {t \in batch : st[t] = "ready"} # {})
  BY <1>3, <1>6 DEF StartNext
<1> QED
  BY <1>5, <1>6

\* The task a loop owns starts, or ends.
LEMMA OwnTaskIInv ==
  ASSUME IInv, TypeOK', NEW l \in Loops, ModelFound(l) \/ TurnEnds(l)
  PROVE  IInv'
<1> USE DEF IInv
<1> DEFINE t == loop[l].tid
<1>1. t \in Tasks /\ t \in Owns(l) /\ t \notin loop[l].ready
  BY DEF ModelFound, TurnEnds, Owns, TypeOK, Loop, OwnsReady
<1>2. /\ \A m \in Loops \ {l} : loop'[m] = loop[m]
      /\ loop'[l].ready = loop[l].ready /\ loop'[l].tid = t
      /\ \A s \in Tasks \ {t} : status'[s] = status[s] /\ started'[s] = started[s]
      /\ \/ /\ loop[l].pc = "model" /\ loop'[l].pc = "turn"
            /\ status'[t] = "running" /\ started'[t] = started[t] + 1
         \/ /\ loop[l].pc = "turn" /\ loop'[l].pc = "report"
            /\ status'[t] \in {"done", "failed"} /\ started'[t] = started[t]
  BY <1>1 DEF ModelFound, TurnEnds, TypeOK, Loop
<1>3. \A m \in Loops : Owns(m)' \subseteq Owns(m)
  BY <1>2 DEF Owns
<1>4. OneOwner'
  BY <1>3 DEF OneOwner
<1>5. OwnsReady'
  <2>1. \A m \in Loops \ {l} : \A s \in Owns(m) : status'[s] = status[s]
    BY <1>1, <1>2 DEF OneOwner, Owns, TypeOK, Loop
  <2>2. \A s \in loop[l].ready : status'[s] = status[s]
    BY <1>1, <1>2 DEF TypeOK, Loop
  <2> QED
    BY <1>2, <2>1, <2>2 DEF OwnsReady, Owns
<1>6. StartedOnce'
  BY <1>1, <1>2 DEF StartedOnce, OwnsReady
<1>7. TakenDepsDone'
  <2>1. \A s \in Tasks : status[s] = "done" => status'[s] = "done"
    BY <1>1, <1>2 DEF OwnsReady
  <2>2. UNCHANGED deps
    BY DEF ModelFound, TurnEnds
  <2>3. status[t] \in {"ready", "running"}
    BY <1>2 DEF OwnsReady
  <2> QED
    BY <1>1, <1>2, <2>1, <2>2, <2>3, DepsType DEF TakenDepsDone
<1> QED
  BY <1>4, <1>5, <1>6, <1>7

LEMMA NextIInv == IInv /\ [Next]_vars => IInv'
<1> SUFFICES ASSUME IInv, [Next]_vars PROVE IInv'
  OBVIOUS
<1>1. TypeOK /\ TypeOK'
  BY TypeStep DEF IInv
<1>2. CASE UNCHANGED vars
  BY <1>1, <1>2, TakesNothing DEF vars, graph
<1>3. ASSUME NEW l \in Loops, Turn(l) PROVE IInv'
  BY <1>1, <1>3, GetReady, StartNextIInv DEF Turn
<1>4. ASSUME NEW l \in Loops, Reported(l) PROVE IInv'
  <2>1. /\ loop[l].ready \in SUBSET Tasks
        /\ \A t \in loop[l].ready : status[t] = "ready"
    BY <1>1 DEF TypeOK, Loop, IInv, OwnsReady
  <2>2. /\ StartNext(l, status, loop[l].ready, running)
        /\ UNCHANGED deps
        /\ loop[l].pc \notin {"model", "turn"}
    BY <1>4 DEF Reported
  <2>3. status \in [Tasks -> Statuses]
    BY <1>1 DEF TypeOK
  <2> QED
    BY <1>1, <2>1, <2>2, <2>3, StartNextIInv
<1>5. ASSUME NEW l \in Loops, ModelFound(l) \/ TurnEnds(l) PROVE IInv'
  BY <1>1, <1>5, OwnTaskIInv
<1>6. ASSUME NEW l \in Loops,
             Leave(l) \/ ModelRaises(l) \/ Publish(l) \/ PublishFails(l)
      PROVE  IInv'
  <2>1. /\ [At("final") EXCEPT !.stoppedEarly = ~all_done] \in Loop
        /\ [At("final") EXCEPT !.stoppedEarly = ~all_done].pc = "final"
        /\ [At("final") EXCEPT !.stoppedEarly = ~all_done].ready = {}
    BY AtLoop DEF Loop, At, all_done
  <2>2. \E x \in Loop : /\ loop' = [loop EXCEPT ![l] = x]
                        /\ x.pc \notin {"model", "turn"}
                        /\ x.ready = {}
    BY <1>6, <2>1, AtLoop DEF Leave, ModelRaises, Publish, PublishFails
  <2>3. UNCHANGED graph
    BY <1>6 DEF Leave, ModelRaises, Publish, PublishFails
  <2> QED
    BY <1>1, <2>2, <2>3, TakesNothing
<1>7. ASSUME NEW l \in Loops, Persisted(l) \/ Waited(l) PROVE IInv'
  <2>1. PICK pc \in {"wait", "sleep"} : loop' = [loop EXCEPT ![l].pc = pc]
    BY <1>7 DEF Persisted, Waited
  <2>2. loop[l] \in Loop
    BY <1>1 DEF TypeOK
  <2>3. /\ [loop[l] EXCEPT !.pc = pc] \in Loop
        /\ [loop[l] EXCEPT !.pc = pc].pc = pc
        /\ [loop[l] EXCEPT !.pc = pc].ready = loop[l].ready
    BY <2>2 DEF Loop
  <2>4. loop' = [loop EXCEPT ![l] = [loop[l] EXCEPT !.pc = pc]]
    BY <2>1
  <2>5. UNCHANGED graph
    BY <1>7 DEF Persisted, Waited
  <2> QED
    BY <1>1, <2>3, <2>4, <2>5, TakesNothing
<1>8. CASE \/ RequestStep \/ AskPause \/ AskResume
           \/ \E s \in RunStatuses : Put(s)
  <2>1. UNCHANGED graph
    BY <1>8 DEF RequestStep, AskPause, AskResume, Put, PutStarts, PutStops, PutOther,
       pause, resume, PauseWritten
  <2>2. \/ UNCHANGED loop
        \/ \E l \in Loops : loop' = [loop EXCEPT ![l] = At("spawned")]
    BY <1>8 DEF RequestStep, AskPause, AskResume, Put, PutStarts, PutStops, PutOther,
       pause, resume, PauseWritten
  <2> QED
    BY <1>1, <2>1, <2>2, AtLoop, TakesNothing
<1> QED
  BY <1>2, <1>3, <1>4, <1>5, <1>6, <1>7, <1>8 DEF Next, LoopStep

-----------------------------------------------------------------------------
\* The variables keep their types for every plan and any number of loops.
THEOREM TypeCorrect == Spec => []TypeOK
<1>1. IInv => TypeOK
  BY DEF IInv
<1> QED
  BY <1>1, InitIInv, NextIInv, PTL DEF Spec

\* Two loops over one graph never work on the same task, and no task gets a
\* second turn.
THEOREM EveryTaskRunsOnce == Spec => []RunOnce
<1>1. IInv => RunOnce
  BY DEF IInv, StartedOnce, RunOnce
<1> QED
  BY <1>1, InitIInv, NextIInv, PTL DEF Spec

\* Tasks are worked on in the order the plan asks for, cyclic plans included.
THEOREM DependenciesComeFirst == Spec => []DepsFirst
<1>1. IInv => DepsFirst
  BY DEF IInv, StartedOnce, TakenDepsDone, DepsFirst
<1> QED
  BY <1>1, InitIInv, NextIInv, PTL DEF Spec

\* Any number of loops over one graph run the plan as it was drawn
\* (run_schedule_loop).
THEOREM PlanIsFollowed == Spec => []OnceInOrder
BY EveryTaskRunsOnce, DependenciesComeFirst, PTL DEF OnceInOrder

-----------------------------------------------------------------------------
(* The verdict "done".                                                     *)

\* A loop that found everything settled is still right about it when it comes to
\* publish, and what is blocked is so by a failure, which is still there.
VerdictInv ==
  /\ \A t \in Tasks : status[t] = "blocked" => any_failed
  /\ \A l \in Loops : loop[l].pc = "final" /\ ~loop[l].stoppedEarly => all_done

\* What has settled stays as it is, and only a failure blocks.
LEMMA SettledStays ==
  ASSUME IInv, [Next]_vars, NEW t \in Tasks
  PROVE  /\ status[t] \in {"done", "blocked", "failed"} => status'[t] = status[t]
         /\ status'[t] = "blocked" => status[t] = "blocked" \/ any_failed
<1>1. ASSUME NEW l \in Loops, NEW st \in [Tasks -> Statuses], NEW batch \in SUBSET Tasks, NEW goOn,
             StartNext(l, st, batch, goOn)
      PROVE  status'[t] = st[t] \/ (st[t] = "ready" /\ status'[t] = "running")
  BY <1>1 DEF StartNext
<1>2. ASSUME NEW l \in Loops, Turn(l)
      PROVE  /\ status[t] \in {"done", "blocked", "failed"} => status'[t] = status[t]
             /\ status'[t] = "blocked" => status[t] = "blocked" \/ any_failed
  <2>1. status'[t] = get_ready_tasks[t] \/ (status'[t] = "running" /\ get_ready_tasks[t] = "ready")
    <3>1. StartNext(l, get_ready_tasks, Runnable, TRUE)
      BY <1>2 DEF Turn
    <3>2. get_ready_tasks \in [Tasks -> Statuses] /\ Runnable \in SUBSET Tasks
      BY GetReady DEF IInv
    <3> QED
      BY <1>1, <3>1, <3>2
  <2>2. get_ready_tasks[t] = "blocked" => status[t] = "blocked" \/ any_failed
    BY DepsType DEF get_ready_tasks, Blockable, any_failed, IInv
  <2>3. status[t] # "pending" => get_ready_tasks[t] = status[t]
    BY GetReady DEF IInv
  <2> QED
    BY <2>1, <2>2, <2>3
<1>3. ASSUME NEW l \in Loops, Reported(l)
      PROVE  status'[t] = status[t] \/ (status[t] = "ready" /\ status'[t] = "running")
  <2>1. loop[l].ready \in SUBSET Tasks /\ status \in [Tasks -> Statuses]
    BY DEF IInv, TypeOK, Loop
  <2> QED
    BY <1>1, <1>3, <2>1 DEF Reported
<1>4. ASSUME NEW l \in Loops, ModelFound(l) \/ TurnEnds(l)
      PROVE  /\ status[t] \in {"done", "blocked", "failed"} => status'[t] = status[t]
             /\ status'[t] = "blocked" => status[t] = "blocked"
  <2>1. loop[l].tid \in Tasks /\ status[loop[l].tid] \in {"ready", "running"}
    BY <1>4 DEF IInv, TypeOK, Loop, OwnsReady, ModelFound, TurnEnds
  <2>2. PICK s \in {"running", "done", "failed"} : status' = [status EXCEPT ![loop[l].tid] = s]
    BY <1>4 DEF ModelFound, TurnEnds
  <2> QED
    BY <2>1, <2>2 DEF IInv, TypeOK
<1>5. ASSUME NEW l \in Loops,
             Leave(l) \/ ModelRaises(l) \/ Persisted(l) \/ Waited(l) \/ Publish(l) \/ PublishFails(l)
      PROVE  status' = status
  BY <1>5 DEF Leave, ModelRaises, Persisted, Waited, Publish, PublishFails, graph
<1>6. CASE \/ RequestStep \/ AskPause \/ AskResume
           \/ \E s \in RunStatuses : Put(s)
           \/ UNCHANGED vars
  <2>1. status' = status
    BY <1>6 DEF RequestStep, AskPause, AskResume, Put, PutStarts, PutStops, PutOther,
       pause, resume, PauseWritten, graph, vars
  <2> QED
    BY <2>1
<1> QED
  BY <1>2, <1>3, <1>4, <1>5, <1>6 DEF Next, LoopStep

\* A loop says that all is settled only when it is.
LEMMA FinalFound ==
  ASSUME IInv, [Next]_vars, NEW l \in Loops, loop'[l].pc = "final", ~loop'[l].stoppedEarly
  PROVE  loop'[l] = loop[l] \/ all_done
<1> SUFFICES ASSUME loop'[l] # loop[l]
             PROVE  all_done
  OBVIOUS
<1>1. ASSUME NEW m \in Loops, NEW st, NEW batch, NEW goOn, StartNext(m, st, batch, goOn)
      PROVE  loop'[l] = loop[l] \/ loop'[l].pc \in {"model", "turn", "persist"}
  <2>1. CASE loop' = [loop EXCEPT ![m] = At("persist")]
    BY <2>1, AtLoop DEF IInv, TypeOK
  <2>2. ASSUME NEW t \in batch, NEW pc \in {"model", "turn"},
               loop' = [loop EXCEPT ![m] = [At(pc) EXCEPT !.ready = batch \ {t}, !.tid = t]]
        PROVE  loop'[l] = loop[l] \/ loop'[l].pc = pc
    <3>1. [At(pc) EXCEPT !.ready = batch \ {t}, !.tid = t].pc = pc
      BY DEF At
    <3> QED
      BY <2>2, <3>1 DEF IInv, TypeOK
  <2> QED
    BY <1>1, <2>1, <2>2 DEF StartNext
<1>2. ASSUME NEW m \in Loops, Turn(m) \/ Reported(m)
      PROVE  FALSE
  BY <1>1, <1>2 DEF Turn, Reported
<1>3. ASSUME NEW m \in Loops, ModelFound(m) \/ TurnEnds(m) \/ Persisted(m) \/ Waited(m)
      PROVE  FALSE
  BY <1>3 DEF ModelFound, TurnEnds, Persisted, Waited, IInv, TypeOK, Loop
<1>4. ASSUME NEW m \in Loops, ModelRaises(m) \/ Publish(m) \/ PublishFails(m)
      PROVE  FALSE
  BY <1>4, AtLoop DEF ModelRaises, Publish, PublishFails, IInv, TypeOK
<1>5. ASSUME NEW m \in Loops, Leave(m)
      PROVE  all_done
  <2>1. m = l
    BY <1>5 DEF Leave, IInv, TypeOK
  <2>2. loop'[l] = [At("final") EXCEPT !.stoppedEarly = ~all_done]
    BY <1>5, <2>1 DEF Leave, IInv, TypeOK
  <2>3. loop'[l].stoppedEarly = ~all_done
    BY <2>2 DEF At
  <2> QED
    BY <2>3
<1>6. CASE \/ RequestStep \/ AskPause \/ AskResume
           \/ \E s \in RunStatuses : Put(s)
           \/ UNCHANGED vars
  <2>1. \/ UNCHANGED loop
        \/ \E m \in Loops : loop' = [loop EXCEPT ![m] = At("spawned")]
    BY <1>6 DEF RequestStep, AskPause, AskResume, Put, PutStarts, PutStops, PutOther,
       pause, resume, PauseWritten, vars
  <2> QED
    BY <2>1, AtLoop DEF IInv, TypeOK
<1> QED
  BY <1>2, <1>3, <1>4, <1>5, <1>6 DEF Next, LoopStep

LEMMA VerdictStep == IInv /\ VerdictInv /\ [Next]_vars => VerdictInv'
<1> SUFFICES ASSUME IInv, VerdictInv, [Next]_vars
             PROVE  VerdictInv'
  OBVIOUS
<1>1. any_failed => any_failed'
  BY SettledStays DEF any_failed
<1>2. all_done => all_done'
  BY SettledStays DEF all_done
<1>3. ASSUME NEW t \in Tasks, status'[t] = "blocked"
      PROVE  any_failed'
  BY <1>1, <1>3, SettledStays DEF VerdictInv
<1>4. ASSUME NEW l \in Loops, loop'[l].pc = "final", ~loop'[l].stoppedEarly
      PROVE  all_done'
  <2>1. loop'[l] = loop[l] \/ all_done
    BY <1>4, FinalFound
  <2> QED
    BY <1>2, <1>4, <2>1 DEF VerdictInv
<1> QED
  BY <1>3, <1>4 DEF VerdictInv

\* However loops, stops and restarts overlap, the row is turned to "done" by the
\* scheduler only when every task is done (run_schedule_loop's verdict): what a
\* loop found settled has stayed so until it publishes.
THEOREM VerdictIsHonest == Spec => HonestDone
<1>1. Init => VerdictInv
  BY AtLoop DEF Init, VerdictInv
<1>2. Spec => []IInv
  BY InitIInv, NextIInv, PTL DEF Spec
<1>3. Spec => []VerdictInv
  BY <1>1, <1>2, VerdictStep, PTL DEF Spec
<1>4. ASSUME IInv, VerdictInv, NEW l \in Loops, LoopStep(l), dbStatus # "done", dbStatus' = "done"
      PROVE  \A t \in Tasks : status[t] = "done"
  <2>1. loop[l].pc = "final" /\ verdict(loop[l].stoppedEarly) = "done"
    BY <1>4 DEF LoopStep, Turn, Leave, ModelFound, ModelRaises, TurnEnds, Reported, Persisted,
       Waited, Publish, PublishFails
  <2>2. ~loop[l].stoppedEarly /\ ~any_failed
    BY <2>1 DEF verdict
  <2>3. all_done
    BY <1>4, <2>1, <2>2 DEF VerdictInv
  <2> QED
    BY <1>4, <2>2, <2>3 DEF VerdictInv, all_done, any_failed
<1>5. IInv /\ VerdictInv /\ [Next]_vars
        => [\A l \in Loops : LoopStep(l) /\ dbStatus # "done" /\ dbStatus' = "done"
              => \A t \in Tasks : status[t] = "done"]_vars
  BY <1>4
<1> QED
  BY <1>2, <1>3, <1>5, PTL DEF Spec, HonestDone

-----------------------------------------------------------------------------
(***************************************************************************)
(* The nightly sweep (Sweep).                                              *)
(***************************************************************************)

\* The night has a cell in hand.
Holding == {"busy", "run"} \cup Recording

\* A cell is tried once a night, and has not failed tonight when it is.
NightInv ==
    /\ failing \subseteq attempted
    /\ at[Night] \in Holding => work[Night].cell \in Cells
    /\ at[Night] = "busy" => work[Night].cell \notin attempted
    /\ at[Night] = "run" => work[Night].cell \in attempted \ failing

\* A force measures its own cell.
ForcesInv ==
    \A f \in Forces : at[f] \in {"run"} \cup Recording => work[f].cell = CellOf[f]

\* The table counts no failure, and the night has none in hand, that is not
\* a night's.
Counted(c) ==
    /\ row[c].failures <= struck[c]
    /\ work[Night].cell = c =>
        /\ at[Night] = "count" => Lesser(row[c].failures + 1, Threshold) <= struck[c]
        /\ at[Night] = "mark" => work[Night].failures <= struck[c]

CountsInv == \A c \in Cells : Forced(c) \/ Counted(c)

DormantInv == \A c \in Cells : row[c].dormant => row[c].failures >= Threshold

\* Nothing makes a cell pending again while the sweep is being closed.
ClosingInv == at[Night] = "finish" => \A c \in Pending : Forced(c)

SweepInv == SweepTypeOK /\ NightInv /\ ForcesInv /\ CountsInv /\ DormantInv /\ ClosingInv

-----------------------------------------------------------------------------
(* Helpers. *)

\* A set of numbers that is not empty has a first one.
LEMMA FirstIsOne ==
  ASSUME NEW S, S \subseteq Nat, S # {}
  PROVE  First(S) \in S
<1>1. PICK t \in S : \A y \in S : ~ (<<y, t>> \in OpToRel(<, Nat))
  BY NatLessThanWellFounded, WFMin
<1>2. ASSUME NEW y \in S
      PROVE  t <= y
  <2>1. t \in Nat /\ y \in Nat
    OBVIOUS
  <2>2. ~ (y < t)
    BY <2>1, <1>1 DEF OpToRel
  <2> QED
    BY <2>1, <2>2
<1> QED
  BY <1>2 DEF First

LEMMA NightIsApart ==
  /\ Night \in Measurers /\ Forces \subseteq Measurers
  /\ \A f \in Forces : f # Night /\ CellOf[f] \in Cells
  /\ \A e \in Edits : CellOf[e] \in Cells
BY PressesAreForces, CellOfIsFunction DEF Measurers

\* Counters stay within the threshold, ages within their periods.
LEMMA LesserBounds ==
  ASSUME NEW a \in Nat, NEW b \in Nat
  PROVE  /\ Lesser(a, b) \in 0..b /\ Lesser(a, b) <= a
         /\ Lesser(a, b) = a \/ Lesser(a, b) = b
BY DEF Lesser

-----------------------------------------------------------------------------
(* Types. *)

LEMMA InitTypes ==
  SweepInit => SweepTypeOK
<1> SUFFICES ASSUME SweepInit
             PROVE  SweepTypeOK
  OBVIOUS
<1>1. run \in Run /\ row \in [Cells -> Row] /\ struck \in [Cells -> 0..Threshold]
  BY PeriodsArePositive DEF SweepInit, Run, Row, Times
<1>2. at \in [Measurers -> NightAt \cup ForceAt \cup Recording]
      /\ at[Night] \in NightAt \cup Recording /\ \A f \in Forces : at[f] \in ForceAt \cup Recording
  BY NightIsApart DEF SweepInit, NightAt, ForceAt
<1>3. work \in [Measurers -> Work]
  BY PeriodsArePositive DEF SweepInit, Work, NoWork, Times
<1>4. edit \in [Edits -> [at: {"idle", "write", "done"}, accuracy: Times]]
  BY DEF SweepInit, Times
<1>5. faults \in 0..MaxFaults /\ attempted \subseteq Cells /\ inFlight \subseteq Cells
      /\ failing \subseteq Cells
  BY PeriodsArePositive DEF SweepInit
<1> QED
  BY <1>1, <1>2, <1>3, <1>4, <1>5 DEF SweepTypeOK

\* What the table, the hand of a measurer and the run become.
RowTypes == row \in [Cells -> Row]
WorkTypes == work \in [Measurers -> Work]
EditTypes == edit \in [Edits -> [at: {"idle", "write", "done"}, accuracy: Times]]

LEMMA RowStep ==
  ASSUME RowTypes, NEW c \in Cells
  PROVE  /\ \A n \in 0..Threshold, b \in BOOLEAN, t \in Times :
               /\ [row EXCEPT ![c].failures = n, ![c].dormant = b] \in [Cells -> Row]
               /\ [row EXCEPT ![c].measured_at = t, ![c].failures = n, ![c].dormant = b]
                      \in [Cells -> Row]
         /\ \A t \in Times, k \in {"seeded", "edited"} :
               [row EXCEPT ![c].accuracy = t, ![c].cost = k] \in [Cells -> Row]
<1>1. ASSUME NEW n \in 0..Threshold, NEW b \in BOOLEAN, NEW t \in Times
      PROVE  /\ [row EXCEPT ![c].failures = n, ![c].dormant = b] \in [Cells -> Row]
             /\ [row EXCEPT ![c].measured_at = t, ![c].failures = n, ![c].dormant = b]
                    \in [Cells -> Row]
  BY DEF RowTypes, Row
<1>2. ASSUME NEW t \in Times, NEW k \in {"seeded", "edited"}
      PROVE  [row EXCEPT ![c].accuracy = t, ![c].cost = k] \in [Cells -> Row]
  BY DEF RowTypes, Row
<1> QED
  BY <1>1, <1>2

LEMMA WorkStep ==
  ASSUME WorkTypes, NEW p \in Measurers
  PROVE  /\ \A c \in Cells : [work EXCEPT ![p].cell = c] \in [Measurers -> Work]
         /\ \A t \in Times : [work EXCEPT ![p].time = t] \in [Measurers -> Work]
         /\ \A k \in {"seeded", "edited"} : [work EXCEPT ![p].cost = k] \in [Measurers -> Work]
         /\ \A n \in 0..Threshold : [work EXCEPT ![p].failures = n] \in [Measurers -> Work]
         /\ \A w \in Work : [work EXCEPT ![p] = w] \in [Measurers -> Work]
         /\ NoWork \in Work
         /\ \A c \in Cells : [NoWork EXCEPT !.cell = c] \in Work
BY PeriodsArePositive DEF WorkTypes, Work, NoWork, Times

LEMMA RunStep ==
  ASSUME run \in Run
  PROVE  /\ Older => run' \in Run /\ run'.status = run.status
         /\ \A s \in {"none", "running", "done", "expired"} :
               /\ [run EXCEPT !.status = s] \in Run
               /\ [run EXCEPT !.status = s, !.cooling = CoolingDays] \in Run
         /\ [status |-> "running", age |-> 0, cooling |-> 0] \in Run
<1>1. run.age + 1 \in Nat /\ ExpiryDays \in Nat /\ CoolingDays \in Nat
  BY PeriodsArePositive DEF Run
<1>2. Lesser(run.age + 1, ExpiryDays) \in 0..ExpiryDays
  BY ONLY <1>1, LesserBounds
<1>3. (IF run.cooling = 0 THEN 0 ELSE run.cooling - 1) \in 0..CoolingDays
  BY <1>1 DEF Run
<1>4. Older => run' \in Run /\ run'.status = run.status
  BY <1>2, <1>3 DEF Run, Older
<1>5. ASSUME NEW s \in {"none", "running", "done", "expired"}
      PROVE  /\ [run EXCEPT !.status = s] \in Run
             /\ [run EXCEPT !.status = s, !.cooling = CoolingDays] \in Run
  <2> DEFINE S == {"none", "running", "done", "expired"}
  <2> DEFINE A == 0..ExpiryDays
  <2> DEFINE C == 0..CoolingDays
  <2>1. run \in [status : S, age : A, cooling : C] /\ s \in S /\ CoolingDays \in C
        /\ Run = [status : S, age : A, cooling : C]
    BY <1>1 DEF Run
  <2> HIDE DEF S, A, C
  <2> QED
    BY <2>1
<1>6. [status |-> "running", age |-> 0, cooling |-> 0] \in Run
  BY <1>1 DEF Run
<1> QED
  BY <1>4, <1>5, <1>6

\* What only moves the night or one of the forces on keeps the types.
LEMMA GoesTypes ==
  ASSUME SweepTypeOK, NEW p \in Measurers, NEW place,
         p = Night => place \in NightAt \cup Recording,
         p # Night => place \in ForceAt \cup Recording,
         MovesTo(p, place)
  PROVE  /\ at' \in [Measurers -> NightAt \cup ForceAt \cup Recording]
         /\ at'[Night] \in NightAt \cup Recording
         /\ \A f \in Forces : at'[f] \in ForceAt \cup Recording
BY NightIsApart DEF SweepTypeOK, MovesTo, Measurers

LEMMA NightMovesTypes ==
  ASSUME SweepTypeOK,
         NightOver \/ (\E place \in NightAt : NightGoesOn(place))
  PROVE  /\ at' \in [Measurers -> NightAt \cup ForceAt \cup Recording]
         /\ at'[Night] \in NightAt \cup Recording
         /\ \A f \in Forces : at'[f] \in ForceAt \cup Recording
         /\ work' \in [Measurers -> Work]
         /\ attempted' \subseteq Cells /\ failing' \subseteq Cells
<1> USE NightIsApart
<1>1. CASE NightOver
  <2>1. MovesTo(Night, "off") /\ "off" \in NightAt
    BY <1>1 DEF NightOver, NightAt
  <2>2. work' \in [Measurers -> Work]
    BY <1>1, WorkStep DEF NightOver, Drops, SweepTypeOK, WorkTypes
  <2> QED
    BY <1>1, <2>1, <2>2, GoesTypes DEF NightOver
<1>2. CASE \E place \in NightAt : NightGoesOn(place)
  BY <1>2, GoesTypes DEF NightGoesOn, SweepTypeOK
<1> QED
  BY <1>1, <1>2

LEMMA AgedTypes ==
  \A t \in Times : Aged(t) \in Times
BY DEF Aged, Times

LEMMA StartTypes ==
  ASSUME SweepTypeOK, start_sweep
  PROVE  run' \in Run /\ RowTypes' /\ WorkTypes' /\ EditTypes'
<1>1. run \in Run /\ RowTypes /\ WorkTypes /\ EditTypes
  BY DEF SweepTypeOK, RowTypes, WorkTypes, EditTypes
<1>2. run' \in Run
  BY <1>1, RunStep DEF start_sweep
<1>3. \A c \in Cells : [row[c] EXCEPT !.accuracy = Aged(@), !.measured_at = Aged(@)] \in Row
  BY <1>1, AgedTypes DEF RowTypes, Row
<1>4. \A p \in Measurers : [work[p] EXCEPT !.time = Aged(@)] \in Work
  BY <1>1, AgedTypes DEF WorkTypes, Work
<1>5. \A e \in Edits : [edit[e] EXCEPT !.accuracy = Aged(@)]
                           \in [at: {"idle", "write", "done"}, accuracy: Times]
  BY <1>1, AgedTypes DEF EditTypes
<1> QED
  BY <1>2, <1>3, <1>4, <1>5 DEF start_sweep, RowTypes, WorkTypes, EditTypes

LEMMA ClassifyTries ==
  ASSUME Classify
  PROVE  NightOver \/ (\E c \in Cells : c \notin attempted /\ Tries(c))
<1> DEFINE remaining == Pending \ attempted
<1>1. CASE remaining = {}
  BY <1>1 DEF Classify
<1>2. CASE remaining # {}
  <2>1. remaining \subseteq Cells /\ Cells \subseteq Nat
    BY CellsAreNumbers DEF Pending
  <2>2. First(remaining) \in remaining
    <3> HIDE DEF remaining
    <3> QED
      BY <2>1, <1>2, FirstIsOne
  <2> QED
    BY <1>2, <2>1, <2>2 DEF Classify
<1> QED
  BY <1>1, <1>2

LEMMA NightTypes ==
  ASSUME SweepTypeOK, NightInv,
         \/ NightFires \/ DayPasses \/ NightFails \/ scheduled_decision \/ CheckExpiry
         \/ sweep_is_complete \/ Finish \/ Classify \/ box_is_busy
  PROVE  SweepTypeOK'
<1> USE NightIsApart
<1>1. run \in Run /\ RowTypes /\ WorkTypes /\ EditTypes
  BY DEF SweepTypeOK, RowTypes, WorkTypes, EditTypes
<1>2. CASE NightFires
  <2>1. MovesTo(Night, "decide") /\ "decide" \in NightAt
    BY <1>2 DEF NightFires, NightAt
  <2>2. run' \in Run
    BY <1>2, RunStep, <1>1 DEF NightFires
  <2> QED
    BY <1>2, <2>1, <2>2, GoesTypes DEF NightFires, SweepTypeOK, ghosts
<1>3. CASE DayPasses
  BY <1>3, <1>1, RunStep DEF DayPasses, SweepTypeOK, ghosts
<1>4. CASE NightFails
  <2>1. faults' \in 0..MaxFaults
    BY <1>4, PeriodsArePositive DEF NightFails, SweepTypeOK, Fault
  <2> QED
    BY <1>4, <2>1, NightMovesTypes DEF NightFails, SweepTypeOK
<1>5. CASE scheduled_decision
  <2>1. CASE start_sweep /\ MovesTo(Night, "expiry") /\ UNCHANGED <<attempted, failing>>
    BY <1>5, <2>1, StartTypes, GoesTypes
       DEF scheduled_decision, SweepTypeOK, NightAt, RowTypes, WorkTypes, EditTypes
  <2>2. CASE NightGoesOn("expiry") /\ UNCHANGED <<run, row, edit>>
    BY <1>5, <2>2, NightMovesTypes DEF scheduled_decision, SweepTypeOK, NightAt
  <2>3. CASE NightOver /\ UNCHANGED <<run, row, edit>>
    BY <1>5, <2>3, NightMovesTypes DEF scheduled_decision, SweepTypeOK
  <2> QED
    BY <1>5, <2>1, <2>2, <2>3 DEF scheduled_decision
<1>6. CASE CheckExpiry
  <2>1. run' \in Run
    BY <1>6, <1>1, RunStep DEF CheckExpiry
  <2>2. NightOver \/ NightGoesOn("complete")
    BY <1>6 DEF CheckExpiry
  <2> QED
    BY <1>6, <2>1, <2>2, NightMovesTypes DEF CheckExpiry, SweepTypeOK, NightAt
<1>7. CASE sweep_is_complete
  <2>1. NightGoesOn("finish") \/ NightGoesOn("classify")
    BY <1>7 DEF sweep_is_complete
  <2> QED
    BY <1>7, <2>1, NightMovesTypes DEF sweep_is_complete, SweepTypeOK, NightAt
<1>8. CASE Finish
  <2>1. run' \in Run
    BY <1>8, <1>1, RunStep DEF Finish
  <2> QED
    BY <1>8, <2>1, NightMovesTypes DEF Finish, SweepTypeOK
<1>9. CASE Classify
  <2>1. CASE NightOver
    BY <1>9, <2>1, NightMovesTypes DEF Classify, SweepTypeOK
  <2>2. CASE \E c \in Cells : Tries(c)
    <3>1. PICK c \in Cells : Tries(c)
      BY <2>2
    <3>2. work' \in [Measurers -> Work]
      BY <3>1, <1>1, WorkStep DEF Tries
    <3>3. MovesTo(Night, "busy") /\ "busy" \in NightAt /\ UNCHANGED <<attempted, failing>>
      BY <3>1 DEF Tries, NightAt
    <3> QED
      BY <1>9, <3>2, <3>3, GoesTypes DEF Classify, SweepTypeOK
  <2> QED
    BY <1>9, <2>1, <2>2, ClassifyTries
<1>10. CASE box_is_busy
  <2>1. CASE NightOver
    BY <1>10, <2>1, NightMovesTypes DEF box_is_busy, SweepTypeOK
  <2>2. CASE MovesTo(Night, "run") /\ attempted' = attempted \cup {work[Night].cell}
             /\ UNCHANGED <<work, failing>>
    <3>1. work[Night].cell \in Cells
      BY <1>10 DEF box_is_busy, NightInv, Holding
    <3> QED
      BY <1>10, <2>2, <3>1, GoesTypes DEF box_is_busy, SweepTypeOK, NightAt
  <2> QED
    BY <1>10, <2>1, <2>2 DEF box_is_busy
<1> QED
  BY <1>2, <1>3, <1>4, <1>5, <1>6, <1>7, <1>8, <1>9, <1>10

\* Where a measurer that has a cell in hand is, and what it has in hand.
LEMMA HandTypes ==
  ASSUME SweepTypeOK, NightInv, ForcesInv, NEW p \in Measurers, at[p] \in {"run"} \cup Recording
  PROVE  /\ work[p].cell \in Cells /\ work[p].time \in Times
         /\ work[p].cost \in {"seeded", "edited"} /\ work[p].failures \in 0..Threshold
         /\ row[work[p].cell] \in Row
<1>1. work[p] \in Work
  BY DEF SweepTypeOK
<1>2. work[p].cell \in Cells
  BY NightIsApart DEF NightInv, ForcesInv, Holding, Measurers
<1> QED
  BY <1>1, <1>2 DEF SweepTypeOK, Work

LEMMA RecordedTypes ==
  ASSUME SweepTypeOK, NEW p \in Measurers, Recorded(p)
  PROVE  /\ at' \in [Measurers -> NightAt \cup ForceAt \cup Recording]
         /\ at'[Night] \in NightAt \cup Recording
         /\ \A f \in Forces : at'[f] \in ForceAt \cup Recording
         /\ work' \in [Measurers -> Work]
<1>1. work' \in [Measurers -> Work]
  BY WorkStep DEF Recorded, Drops, SweepTypeOK, WorkTypes
<1> QED
  BY <1>1, GoesTypes DEF Recorded, NightAt, ForceAt

LEMMA MeasureTypes ==
  ASSUME SweepTypeOK, NightInv, ForcesInv, NEW p \in Measurers, Measure(p)
  PROVE  SweepTypeOK'
<1> DEFINE c == work[p].cell
<1> USE NightIsApart
<1>1. at[p] \in {"run"} \cup Recording
  BY DEF Measure, MeasuredOk, MeasuredFailed, ReadExisting, WriteRow, StampRow,
         CountFailures, MarkFailed, Recording
<1>2. /\ c \in Cells /\ work[p].time \in Times
      /\ work[p].cost \in {"seeded", "edited"} /\ work[p].failures \in 0..Threshold
      /\ row[c] \in Row
  BY <1>1, HandTypes
<1>3. RowTypes /\ WorkTypes /\ Threshold \in Nat
  BY PeriodsArePositive DEF SweepTypeOK, RowTypes, WorkTypes
<1>4. \A place \in Recording : MovesTo(p, place) =>
          /\ at' \in [Measurers -> NightAt \cup ForceAt \cup Recording]
         /\ at'[Night] \in NightAt \cup Recording
          /\ \A f \in Forces : at'[f] \in ForceAt \cup Recording
  BY GoesTypes
<1>5. CASE MeasuredOk(p)
  <2>1. work' \in [Measurers -> Work]
    BY <1>5, <1>3, WorkStep DEF MeasuredOk, Times
  <2> QED
    BY <1>5, <1>4, <2>1 DEF MeasuredOk, SweepTypeOK, ghosts, Recording
<1>6. CASE MeasuredFailed(p)
  <2>1. struck' \in [Cells -> 0..Threshold] /\ failing' \subseteq Cells
    <3>1. struck[c] + 1 \in Nat
      BY <1>2, <1>3 DEF SweepTypeOK
    <3>2. Lesser(struck[c] + 1, Threshold) \in 0..Threshold
      BY ONLY <3>1, <1>3, LesserBounds
    <3> QED
      BY <1>6, <1>2, <3>2 DEF MeasuredFailed, SweepTypeOK, ghosts
  <2> QED
    BY <1>6, <1>4, <2>1 DEF MeasuredFailed, SweepTypeOK, Recording
<1>7. CASE ReadExisting(p)
  <2>1. work' \in [Measurers -> Work]
    BY <1>7, <1>2, <1>3, WorkStep DEF ReadExisting, Row
  <2> QED
    BY <1>7, <1>4, <2>1 DEF ReadExisting, SweepTypeOK, ghosts, Recording
<1>8. CASE WriteRow(p)
  <2>1. row' \in [Cells -> Row]
    BY <1>8, <1>2, <1>3, RowStep DEF WriteRow, delegation_row_set
  <2> QED
    BY <1>8, <1>4, <2>1 DEF WriteRow, SweepTypeOK, ghosts, Recording
<1>9. CASE StampRow(p)
  <2>1. row' \in [Cells -> Row]
    <3>1. 0 \in 0..Threshold /\ FALSE \in BOOLEAN
      BY <1>3
    <3>2. [row EXCEPT ![c].measured_at = work[p].time, ![c].failures = 0,
                      ![c].dormant = FALSE] \in [Cells -> Row]
      BY <1>2, <1>3, <3>1, RowStep
    <3> QED
      BY <1>9, <3>2 DEF StampRow
  <2>2. struck' \in [Cells -> 0..Threshold] /\ failing' \subseteq Cells
    BY <1>9, <1>2, <1>3 DEF StampRow, Unstruck, SweepTypeOK
  <2> QED
    BY <1>9, <2>1, <2>2, RecordedTypes DEF StampRow, SweepTypeOK
<1>10. CASE CountFailures(p)
  <2>0. row[c].failures + 1 \in Nat
    BY <1>2 DEF Row
  <2>1. Lesser(row[c].failures + 1, Threshold) \in 0..Threshold
    BY ONLY <2>0, <1>3, LesserBounds
  <2>2. work' \in [Measurers -> Work]
    BY <1>10, <1>3, <2>1, WorkStep DEF CountFailures
  <2> QED
    BY <1>10, <1>4, <2>2 DEF CountFailures, SweepTypeOK, ghosts, Recording
<1>11. CASE MarkFailed(p)
  <2>1. row' \in [Cells -> Row]
    <3>1. \A b \in BOOLEAN :
            [row EXCEPT ![c].failures = work[p].failures, ![c].dormant = b] \in [Cells -> Row]
      BY <1>2, <1>3, RowStep DEF Times
    <3>2. CASE work[p].failures >= Threshold
      <4>1. row' = [row EXCEPT ![c].failures = work[p].failures, ![c].dormant = TRUE]
        BY <1>11, <3>2 DEF MarkFailed
      <4> QED
        BY <3>1, <4>1
    <3>3. CASE ~ (work[p].failures >= Threshold)
      <4>1. row' = [row EXCEPT ![c].failures = work[p].failures, ![c].dormant = FALSE]
        <5>1. (work[p].failures >= Threshold) = FALSE
          BY <3>3
        <5> QED
          BY <1>11, <5>1 DEF MarkFailed
      <4> QED
        BY <3>1, <4>1
    <3> QED
      BY <3>2, <3>3
  <2> QED
    BY <1>11, <2>1, RecordedTypes DEF MarkFailed, SweepTypeOK, ghosts
<1> QED
  BY <1>5, <1>6, <1>7, <1>8, <1>9, <1>10, <1>11 DEF Measure

LEMMA ForceTypes ==
  ASSUME SweepTypeOK, NEW f \in Forces, ForceStep(f) \/ ForceFails(f)
  PROVE  SweepTypeOK'
<1> USE NightIsApart
<1>1. RowTypes /\ WorkTypes /\ Threshold \in Nat /\ f \in Measurers /\ f # Night
      /\ CellOf[f] \in Cells
  BY PeriodsArePositive DEF SweepTypeOK, RowTypes, WorkTypes
<1>2. \A place \in ForceAt : MovesTo(f, place) =>
          /\ at' \in [Measurers -> NightAt \cup ForceAt \cup Recording]
         /\ at'[Night] \in NightAt \cup Recording
          /\ \A g \in Forces : at'[g] \in ForceAt \cup Recording
  BY <1>1, GoesTypes
<1>3. CASE Press(f)
  BY <1>3, <1>2 DEF Press, SweepTypeOK, ghosts, ForceAt
<1>4. CASE CommandLine(f)
  BY <1>4, <1>2 DEF CommandLine, SweepTypeOK, ghosts, ForceAt
<1>5. CASE MarkInFlight(f)
  <2>1. work' \in [Measurers -> Work]
    BY <1>5, <1>1, WorkStep DEF MarkInFlight
  <2> QED
    BY <1>5, <1>1, <1>2, <2>1 DEF MarkInFlight, SweepTypeOK, ghosts, ForceAt
<1>6. CASE ClearDormancy(f)
  <2>1. row' \in [Cells -> Row]
    <3>1. 0 \in 0..Threshold /\ FALSE \in BOOLEAN /\ "never" \in Times
      BY <1>1 DEF Times
    <3>2. [row EXCEPT ![CellOf[f]].failures = 0, ![CellOf[f]].dormant = FALSE]
            \in [Cells -> Row]
      BY <1>1, <3>1, RowStep
    <3> QED
      BY <1>6, <3>2 DEF ClearDormancy
  <2>2. struck' \in [Cells -> 0..Threshold] /\ failing' \subseteq Cells
    BY <1>6, <1>1 DEF ClearDormancy, Unstruck, SweepTypeOK
  <2> QED
    BY <1>6, <1>2, <2>1, <2>2 DEF ClearDormancy, SweepTypeOK, ForceAt
<1>7. CASE ForceEnds(f)
  BY <1>7, <1>2 DEF ForceEnds, Discarded, SweepTypeOK, ghosts, ForceAt
<1>8. CASE ForceFails(f)
  <2>1. work' \in [Measurers -> Work]
    BY <1>8, <1>1, WorkStep DEF ForceFails, Drops
  <2>2. faults' \in 0..MaxFaults
    BY <1>8, PeriodsArePositive DEF ForceFails, Fault, SweepTypeOK
  <2> QED
    BY <1>8, <1>2, <2>1, <2>2 DEF ForceFails, Discarded, SweepTypeOK, ghosts, ForceAt
<1> QED
  BY <1>3, <1>4, <1>5, <1>6, <1>7, <1>8 DEF ForceStep

LEMMA EditTypesKept ==
  ASSUME SweepTypeOK, NEW e \in Edits, EditRead(e) \/ EditWrite(e)
  PROVE  SweepTypeOK'
<1>1. RowTypes /\ EditTypes /\ CellOf[e] \in Cells
  BY NightIsApart DEF SweepTypeOK, RowTypes, EditTypes
<1>2. row[CellOf[e]].accuracy \in Times /\ edit[e].accuracy \in Times
  BY <1>1 DEF RowTypes, EditTypes, Row
<1>3. CASE EditRead(e)
  <2>1. EditTypes'
    BY <1>3, <1>1, <1>2 DEF EditRead, EditTypes
  <2> QED
    BY <1>3, <2>1 DEF EditRead, EditTypes, SweepTypeOK, ghosts
<1>4. CASE EditWrite(e)
  <2>1. EditTypes'
    BY <1>4, <1>1 DEF EditWrite, EditTypes
  <2>2. row' \in [Cells -> Row]
    BY <1>4, <1>1, <1>2, RowStep DEF EditWrite, delegation_row_set
  <2> QED
    BY <1>4, <2>1, <2>2 DEF EditWrite, EditTypes, SweepTypeOK, ghosts
<1> QED
  BY <1>3, <1>4

-----------------------------------------------------------------------------
(* What a force has begun is not undone. *)


\* What moves in a step: nothing, or one measurer, and never back to idle.
LEMMA OneMoves ==
  ASSUME [SweepNext]_sweepVars
  PROVE  \/ at' = at
         \/ \E p \in Measurers, place \in (NightAt \cup ForceAt \cup Recording) \ {"idle"} :
                MovesTo(p, place)
<1> DEFINE Some == \E p \in Measurers, place \in (NightAt \cup ForceAt \cup Recording) \ {"idle"} :
                     MovesTo(p, place)
<1> USE NightIsApart
<1> SUFFICES ASSUME SweepNext
             PROVE  at' = at \/ Some
  BY DEF sweepVars
<1>1. CASE NightFires \/ DayPasses \/ NightFails
  BY <1>1 DEF NightFires, DayPasses, NightFails, NightOver, NightAt
<1>2. CASE scheduled_decision \/ CheckExpiry \/ sweep_is_complete \/ Finish
           \/ Classify \/ box_is_busy
  BY <1>2, ClassifyTries
     DEF scheduled_decision, CheckExpiry, sweep_is_complete, Finish, box_is_busy,
         NightOver, NightGoesOn, NightAt, Tries
<1>3. ASSUME NEW p \in Measurers, Measure(p)
      PROVE  Some
  BY <1>3 DEF Measure, MeasuredOk, MeasuredFailed, ReadExisting, WriteRow, StampRow,
              CountFailures, MarkFailed, Recorded, Recording, NightAt, ForceAt
<1>4. ASSUME NEW f \in Forces, ForceStep(f) \/ ForceFails(f)
      PROVE  Some
  BY <1>4 DEF ForceStep, Press, CommandLine, MarkInFlight, ClearDormancy, ForceEnds,
              ForceFails, ForceAt
<1>5. ASSUME NEW e \in Edits, EditRead(e) \/ EditWrite(e)
      PROVE  at' = at
  BY <1>5 DEF EditRead, EditWrite
<1> QED
  BY <1>1, <1>2, <1>3, <1>4, <1>5 DEF SweepNext, NightStep

LEMMA ForcedStays ==
  ASSUME SweepTypeOK, [SweepNext]_sweepVars, NEW c
  PROVE  Forced(c) => Forced(c)'
<1> SUFFICES ASSUME NEW f \in Forces, CellOf[f] = c, at[f] # "idle"
             PROVE  at'[f] # "idle"
  BY DEF Forced
<1>1. at \in [Measurers -> NightAt \cup ForceAt \cup Recording] /\ f \in Measurers
  BY NightIsApart DEF SweepTypeOK
<1> QED
  BY <1>1, OneMoves DEF MovesTo

\* Every step keeps the types.
LEMMA SweepTypeStep ==
  ASSUME SweepTypeOK, NightInv, ForcesInv, [SweepNext]_sweepVars
  PROVE  SweepTypeOK'
<1>1. CASE UNCHANGED sweepVars
  BY <1>1 DEF sweepVars, SweepTypeOK
<1> QED
  BY <1>1, NightTypes, MeasureTypes, ForceTypes, EditTypesKept, NightIsApart DEF SweepNext, NightStep

\* A force leaves alone what the night, and another force, has in hand.
LEMMA ForcesAside ==
  ASSUME SweepTypeOK, NEW f \in Forces, ForceStep(f) \/ ForceFails(f) \/ Measure(f)
  PROVE  /\ \A p \in Measurers \ {f} : at'[p] = at[p] /\ work'[p] = work[p]
         /\ attempted' = attempted /\ failing' = failing
<1> USE NightIsApart
<1>1. at \in [Measurers -> NightAt \cup ForceAt \cup Recording] /\ work \in [Measurers -> Work]
  BY DEF SweepTypeOK
<1>2. ASSUME NEW place
      PROVE  MovesTo(f, place) => \A p \in Measurers \ {f} : at'[p] = at[p]
  BY <1>1 DEF MovesTo
<1>3. CASE ForceStep(f)
  BY <1>1, <1>2, <1>3 DEF ForceStep, Press, CommandLine, MarkInFlight, ClearDormancy, ForceEnds,
                          Unstruck, ghosts
<1>4. CASE ForceFails(f)
  BY <1>1, <1>2, <1>4 DEF ForceFails, Drops, ghosts
<1>5. CASE Measure(f)
  BY <1>1, <1>2, <1>5 DEF Measure, MeasuredOk, MeasuredFailed, ReadExisting, WriteRow, StampRow,
                          CountFailures, MarkFailed, Recorded, Drops, Unstruck, ghosts
<1> QED
  BY <1>3, <1>4, <1>5

\* The first three parts: where the night and the forces are.
LEMMA NightInvStep ==
  ASSUME SweepTypeOK, NightInv, ForcesInv, [SweepNext]_sweepVars
  PROVE  NightInv'
<1> USE NightIsApart
<1>1. CASE UNCHANGED sweepVars
  BY <1>1 DEF sweepVars, NightInv
<1>2. at \in [Measurers -> NightAt \cup ForceAt \cup Recording] /\ work \in [Measurers -> Work]
  BY DEF SweepTypeOK
<1>3. ASSUME at' = at, work' = work, attempted' = attempted, failing' = failing
      PROVE  NightInv'
  BY <1>3 DEF NightInv
<1>4. ASSUME NightOver
      PROVE  NightInv'
  BY <1>2, <1>4 DEF NightInv, NightOver, MovesTo, Holding, Recording
<1>5. ASSUME NEW place \in {"expiry", "complete", "finish", "classify"}, MovesTo(Night, place),
             attempted' = attempted, failing' = failing
      PROVE  NightInv'
  BY <1>2, <1>5 DEF NightInv, MovesTo, Holding, Recording
<1>6. CASE NightFires \/ DayPasses \/ NightFails
  BY <1>2, <1>6, <1>3, <1>4
     DEF NightFires, DayPasses, NightFails, NightInv, MovesTo, Holding, Recording, ghosts
<1>7. CASE scheduled_decision \/ CheckExpiry \/ sweep_is_complete \/ Finish
  BY <1>7, <1>4, <1>5 DEF scheduled_decision, CheckExpiry, sweep_is_complete, Finish, NightGoesOn
<1>8. CASE Classify
  <2>1. CASE \E c \in Cells : c \notin attempted /\ Tries(c)
    BY <2>1, <1>2 DEF Tries, MovesTo, NightInv, Holding, Recording, Work
  <2> QED
    BY <1>8, <2>1, <1>4, ClassifyTries
<1>9. CASE box_is_busy
  BY <1>9, <1>4, <1>2 DEF box_is_busy, NightInv, MovesTo, Holding, Recording
<1>10. CASE Measure(Night)
  <2>1. at[Night] \in {"run"} \cup Recording /\ work[Night].cell \in Cells
    BY <1>10 DEF Measure, MeasuredOk, MeasuredFailed, ReadExisting, WriteRow, StampRow,
                 CountFailures, MarkFailed, Recording, NightInv, Holding
  <2>2. CASE MeasuredOk(Night)
    BY <2>1, <2>2, <1>2 DEF MeasuredOk, NightInv, MovesTo, Holding, Recording, Work, ghosts
  <2>3. CASE MeasuredFailed(Night)
    BY <2>1, <2>3, <1>2 DEF MeasuredFailed, NightInv, MovesTo, Holding, Recording, Work, ghosts
  <2>4. CASE ReadExisting(Night)
    BY <2>1, <2>4, <1>2 DEF ReadExisting, NightInv, MovesTo, Holding, Recording, Work, ghosts
  <2>5. CASE WriteRow(Night)
    BY <2>1, <2>5, <1>2 DEF WriteRow, NightInv, MovesTo, Holding, Recording, Work, ghosts
  <2>6. CASE CountFailures(Night)
    BY <2>1, <2>6, <1>2 DEF CountFailures, NightInv, MovesTo, Holding, Recording, Work, ghosts
  <2>7. CASE StampRow(Night) \/ MarkFailed(Night)
    BY <2>7, <1>5 DEF StampRow, MarkFailed, Recorded, Unstruck, ghosts
  <2> QED
    BY <1>10, <2>2, <2>3, <2>4, <2>5, <2>6, <2>7 DEF Measure
<1>11. ASSUME NEW f \in Forces, ForceStep(f) \/ ForceFails(f) \/ Measure(f)
       PROVE  NightInv'
  BY <1>11, ForcesAside DEF NightInv
<1>12. ASSUME NEW e \in Edits, EditRead(e) \/ EditWrite(e)
       PROVE  NightInv'
  BY <1>12, <1>3 DEF EditRead, EditWrite, ghosts
<1> QED
  BY <1>1, <1>6, <1>7, <1>8, <1>9, <1>10, <1>11, <1>12 DEF SweepNext, NightStep

LEMMA ForcesInvStep ==
  ASSUME SweepTypeOK, ForcesInv, [SweepNext]_sweepVars
  PROVE  ForcesInv'
<1> SUFFICES ASSUME NEW f \in Forces, at'[f] \in {"run"} \cup Recording
             PROVE  work'[f].cell = CellOf[f]
  BY DEF ForcesInv
<1> DEFINE Kept == at'[f] = at[f] /\ work'[f].cell = work[f].cell
<1> USE NightIsApart
<1>1. at \in [Measurers -> NightAt \cup ForceAt \cup Recording] /\ work \in [Measurers -> Work]
  BY DEF SweepTypeOK
<1>2. Kept => work'[f].cell = CellOf[f]
  BY DEF ForcesInv
<1>3. ASSUME NEW place, MovesTo(Night, place)
      PROVE  at'[f] = at[f]
  BY <1>1, <1>3 DEF MovesTo
<1>4. CASE UNCHANGED sweepVars
  BY <1>2, <1>4 DEF sweepVars
<1>5. CASE NightFires \/ DayPasses \/ NightFails
  BY <1>1, <1>2, <1>3, <1>5 DEF NightFires, DayPasses, NightFails, NightOver, Drops
<1>6. CASE scheduled_decision
  <2>1. CASE start_sweep /\ MovesTo(Night, "expiry")
    <3>1. work'[f].cell = work[f].cell
      BY <2>1, <1>1 DEF start_sweep, Work
    <3> QED
      BY <2>1, <3>1, <1>2, <1>3
  <2> QED
    BY <1>1, <1>2, <1>3, <1>6, <2>1 DEF scheduled_decision, NightOver, NightGoesOn, Drops
<1>7. CASE CheckExpiry \/ sweep_is_complete \/ Finish \/ box_is_busy
  BY <1>1, <1>2, <1>3, <1>7
     DEF CheckExpiry, sweep_is_complete, Finish, box_is_busy, NightOver, NightGoesOn, Drops
<1>8. CASE Classify
  BY <1>1, <1>2, <1>3, <1>8, ClassifyTries DEF NightOver, Tries, Drops
<1>9. CASE Measure(Night)
  BY <1>1, <1>2, <1>3, <1>9 DEF Measure, MeasuredOk, MeasuredFailed, ReadExisting, WriteRow,
                                StampRow, CountFailures, MarkFailed, Recorded, Drops
<1>10. ASSUME NEW g \in Forces, g # f, ForceStep(g) \/ ForceFails(g) \/ Measure(g)
       PROVE  work'[f].cell = CellOf[f]
  BY <1>10, <1>2, ForcesAside
<1>11. CASE Measure(f)
  <2>1. at[f] \in {"run"} \cup Recording
    BY <1>11 DEF Measure, MeasuredOk, MeasuredFailed, ReadExisting, WriteRow, StampRow,
                 CountFailures, MarkFailed, Recording
  <2>2. work[f].cell = CellOf[f]
    BY <2>1 DEF ForcesInv
  <2>3. CASE StampRow(f) \/ MarkFailed(f)
    BY <2>3, <1>1 DEF StampRow, MarkFailed, Recorded, MovesTo, Recording
  <2>4. CASE MeasuredOk(f) \/ MeasuredFailed(f) \/ ReadExisting(f) \/ WriteRow(f)
             \/ CountFailures(f)
    BY <2>4, <2>2, <1>1 DEF MeasuredOk, MeasuredFailed, ReadExisting, WriteRow, CountFailures, Work
  <2> QED
    BY <1>11, <2>3, <2>4 DEF Measure
<1>12. CASE ForceStep(f) \/ ForceFails(f)
  <2>1. CASE MarkInFlight(f)
    <3>1. work'[f] = [NoWork EXCEPT !.cell = CellOf[f]]
      BY <2>1, <1>1 DEF MarkInFlight
    <3> QED
      BY <3>1 DEF NoWork
  <2>2. CASE Press(f) \/ CommandLine(f) \/ ClearDormancy(f) \/ ForceEnds(f) \/ ForceFails(f)
    BY <2>2, <1>1 DEF Press, CommandLine, ClearDormancy, ForceEnds, ForceFails, MovesTo, Recording
  <2> QED
    BY <1>12, <2>1, <2>2 DEF ForceStep
<1>13. ASSUME NEW e \in Edits, EditRead(e) \/ EditWrite(e)
       PROVE  work'[f].cell = CellOf[f]
  BY <1>13, <1>2 DEF EditRead, EditWrite
<1> QED
  BY <1>4, <1>5, <1>6, <1>7, <1>8, <1>9, <1>10, <1>11, <1>12, <1>13 DEF SweepNext, NightStep

-----------------------------------------------------------------------------
(* What the table says of a cell that nobody has forced. *)

\* What of a row a step can leave alone.
Untouched(c) ==
  /\ row'[c].failures = row[c].failures /\ row'[c].dormant = row[c].dormant
  /\ row[c].measured_at = "since" => row'[c].measured_at = "since"

\* A force measures and clears its own cell, so no step but the night's touches
\* the counters of another; an edit touches neither counters nor stamps.
LEMMA OnlyForcesTouch ==
  ASSUME SweepTypeOK, ForcesInv, NEW c \in Cells,
         \/ \E f \in Forces : /\ CellOf[f] # c
                              /\ ForceStep(f) \/ ForceFails(f) \/ Measure(f)
         \/ \E e \in Edits : EditRead(e) \/ EditWrite(e)
  PROVE  Untouched(c) /\ struck'[c] = struck[c]
<1> USE NightIsApart
<1>1. RowTypes /\ row[c] \in Row /\ struck \in [Cells -> 0..Threshold]
  BY DEF SweepTypeOK, RowTypes
<1>2. ASSUME NEW f \in Forces, CellOf[f] # c, Measure(f)
      PROVE  Untouched(c) /\ struck'[c] = struck[c]
  <2>1. at[f] \in {"run"} \cup Recording
    BY <1>2 DEF Measure, MeasuredOk, MeasuredFailed, ReadExisting, WriteRow, StampRow,
                 CountFailures, MarkFailed, Recording
  <2>2. work[f].cell # c
    BY <2>1, <1>2 DEF ForcesInv
  <2> QED
    BY <1>1, <1>2, <2>2 DEF Measure, MeasuredOk, MeasuredFailed, ReadExisting, WriteRow, StampRow,
                 CountFailures, MarkFailed, Untouched, RowTypes, Unstruck, delegation_row_set, ghosts
<1>3. ASSUME NEW f \in Forces, CellOf[f] # c, ForceStep(f) \/ ForceFails(f)
      PROVE  Untouched(c) /\ struck'[c] = struck[c]
  BY <1>1, <1>3 DEF ForceStep, Press, CommandLine, MarkInFlight, ClearDormancy, ForceEnds,
                    ForceFails, Untouched, RowTypes, Unstruck, ghosts
<1>4. ASSUME NEW e \in Edits, EditRead(e) \/ EditWrite(e)
      PROVE  Untouched(c) /\ struck'[c] = struck[c]
  BY <1>1, <1>4 DEF EditRead, EditWrite, Untouched, RowTypes, Row, delegation_row_set, ghosts
<1> QED
  BY <1>2, <1>3, <1>4

LEMMA StepForces ==
  ASSUME SweepTypeOK, NEW f \in Forces, ForceStep(f) \/ ForceFails(f) \/ Measure(f)
  PROVE  Forced(CellOf[f])'
<1>1. at \in [Measurers -> NightAt \cup ForceAt \cup Recording] /\ f \in Measurers /\ f # Night
  BY NightIsApart DEF SweepTypeOK
<1>2. CASE ForceStep(f) \/ ForceFails(f)
  BY <1>1, <1>2 DEF ForceStep, Press, CommandLine, MarkInFlight, ClearDormancy, ForceEnds,
                    ForceFails, MovesTo, Forced
<1>3. CASE Measure(f)
  BY <1>1, <1>3 DEF Measure, MeasuredOk, MeasuredFailed, ReadExisting, WriteRow, StampRow,
                    CountFailures, MarkFailed, Recorded, MovesTo, Forced
<1> QED
  BY <1>2, <1>3

\* What the night does outside a measurement leaves the counters as they are.
LEMMA NightLeavesCounters ==
  ASSUME SweepTypeOK, NEW c \in Cells,
         \/ NightFires \/ DayPasses \/ NightFails \/ scheduled_decision \/ CheckExpiry
         \/ sweep_is_complete \/ Finish \/ Classify \/ box_is_busy
  PROVE  /\ row'[c].failures = row[c].failures /\ row'[c].dormant = row[c].dormant
         /\ struck'[c] = struck[c]
         /\ at'[Night] \notin {"count", "mark"} \/ (at' = at /\ work' = work)
<1> USE NightIsApart
<1>1. at \in [Measurers -> NightAt \cup ForceAt \cup Recording] /\ row \in [Cells -> Row]
      /\ row[c] \in Row
  BY DEF SweepTypeOK
<1>2. ASSUME NEW place, MovesTo(Night, place)
      PROVE  at'[Night] = place
  BY <1>1, <1>2 DEF MovesTo
<1>3. CASE NightFires \/ DayPasses \/ NightFails
  BY <1>2, <1>3 DEF NightFires, DayPasses, NightFails, NightOver, ghosts
<1>4. CASE scheduled_decision
  <2>1. start_sweep => row'[c].failures = row[c].failures /\ row'[c].dormant = row[c].dormant
    <3>1. SUFFICES ASSUME start_sweep
                   PROVE  row'[c].failures = row[c].failures /\ row'[c].dormant = row[c].dormant
      OBVIOUS
    <3>2. row'[c] = [row[c] EXCEPT !.accuracy = Aged(@), !.measured_at = Aged(@)]
      BY <3>1 DEF start_sweep
    <3> QED
      BY <3>2, <1>1 DEF Row
  <2> QED
    BY <1>2, <1>4, <2>1 DEF scheduled_decision, NightOver, NightGoesOn
<1>5. CASE CheckExpiry \/ sweep_is_complete \/ Finish \/ box_is_busy
  BY <1>2, <1>5 DEF CheckExpiry, sweep_is_complete, Finish, box_is_busy, NightOver, NightGoesOn
<1>6. CASE Classify
  <2>1. at'[Night] \in {"off", "busy"}
    BY <1>2, <1>6, ClassifyTries DEF NightOver, Tries
  <2> QED
    BY <1>6, <2>1 DEF Classify
<1> QED
  BY <1>3, <1>4, <1>5, <1>6

LEMMA CountedStep ==
  ASSUME SweepTypeOK, NightInv, NEW c \in Cells, Counted(c), Measure(Night)
  PROVE  Counted(c)'
<1> DEFINE d == work[Night].cell
<1> USE NightIsApart
<1>1. /\ at \in [Measurers -> NightAt \cup ForceAt \cup Recording] /\ row \in [Cells -> Row]
      /\ work \in [Measurers -> Work] /\ struck \in [Cells -> 0..Threshold]
      /\ row[c] \in Row /\ work[Night] \in Work /\ Threshold \in Nat \ {0}
  BY PeriodsArePositive DEF SweepTypeOK
<1>2. ASSUME NEW place, MovesTo(Night, place)
      PROVE  at'[Night] = place
  BY <1>1, <1>2 DEF MovesTo
<1>3. d \in Cells
  BY DEF NightInv, Holding, Recording, Measure, MeasuredOk, MeasuredFailed, ReadExisting,
         WriteRow, StampRow, CountFailures, MarkFailed
<1>4. CASE MeasuredOk(Night) \/ ReadExisting(Night)
  BY <1>2, <1>4 DEF MeasuredOk, ReadExisting, Counted, ghosts
<1>5. CASE MeasuredFailed(Night)
  <2>1. struck' = [struck EXCEPT ![d] = Lesser(@ + 1, Threshold)] /\ row' = row /\ work' = work
    BY <1>5 DEF MeasuredFailed, NightInv
  <2>2. at'[Night] = "count"
    BY <1>2, <1>5 DEF MeasuredFailed
  <2>3. CASE c = d
    <3>1. struck'[c] = Lesser(struck[c] + 1, Threshold)
      BY <2>1, <2>3, <1>1
    <3>2. row[c].failures \in 0..Threshold /\ struck[c] \in 0..Threshold
          /\ row[c].failures <= struck[c]
      BY <1>1 DEF Row, Counted
    <3>3. row[c].failures <= struck'[c] /\ Lesser(row[c].failures + 1, Threshold) <= struck'[c]
      BY <3>1, <3>2, <1>1 DEF Lesser
    <3> QED
      BY <2>1, <2>2, <3>3 DEF Counted
  <2>4. CASE c # d
    BY <2>1, <2>2, <2>4, <1>1 DEF Counted
  <2> QED
    BY <2>3, <2>4
<1>6. CASE WriteRow(Night)
  <2>1. row'[c].failures = row[c].failures /\ struck' = struck
    BY <1>6, <1>1, <1>3 DEF WriteRow, delegation_row_set, Row, ghosts
  <2>2. at'[Night] = "stamp"
    BY <1>2, <1>6 DEF WriteRow
  <2> QED
    BY <2>1, <2>2 DEF Counted
<1>7. CASE StampRow(Night)
  <2>1. at'[Night] = "expiry"
    BY <1>2, <1>7 DEF StampRow, Recorded
  <2>2. /\ row' = [row EXCEPT ![d].measured_at = work[Night].time, ![d].failures = 0,
                              ![d].dormant = FALSE]
        /\ struck' = [struck EXCEPT ![d] = 0]
    BY <1>7 DEF StampRow, Unstruck
  <2>3. row'[c].failures <= struck'[c]
    BY <2>2, <1>1, <1>3 DEF Counted, Row
  <2> QED
    BY <2>1, <2>3 DEF Counted
<1>8. CASE CountFailures(Night)
  <2>1. at'[Night] = "mark" /\ at[Night] = "count"
    BY <1>2, <1>8 DEF CountFailures
  <2>2. row' = row /\ struck' = struck
        /\ work' = [work EXCEPT ![Night].failures = Lesser(row[d].failures + 1, Threshold)]
    BY <1>8 DEF CountFailures, ghosts
  <2>3. work'[Night].cell = d /\ work'[Night].failures = Lesser(row[d].failures + 1, Threshold)
    BY <2>2, <1>1 DEF Work
  <2> QED
    BY <2>1, <2>2, <2>3 DEF Counted
<1>9. CASE MarkFailed(Night)
  <2>1. at'[Night] = "expiry" /\ at[Night] = "mark"
    BY <1>2, <1>9 DEF MarkFailed, Recorded
  <2>2. struck' = struck
        /\ row' = [row EXCEPT ![d].failures = work[Night].failures,
                              ![d].dormant = work[Night].failures >= Threshold]
    BY <1>9 DEF MarkFailed, ghosts
  <2>3. row'[c].failures = IF c = d THEN work[Night].failures ELSE row[c].failures
    BY <2>2, <1>1, <1>3 DEF Row
  <2> QED
    BY <2>1, <2>2, <2>3 DEF Counted
<1> QED
  BY <1>4, <1>5, <1>6, <1>7, <1>8, <1>9 DEF Measure

LEMMA CountsInvStep ==
  ASSUME SweepTypeOK, NightInv, ForcesInv, CountsInv, [SweepNext]_sweepVars
  PROVE  CountsInv'
<1> SUFFICES ASSUME NEW c \in Cells, ~ Forced(c)'
             PROVE  Counted(c)'
  BY DEF CountsInv
<1>1. ~ Forced(c) /\ Counted(c)
  BY ForcedStays DEF CountsInv
<1>2. CASE UNCHANGED sweepVars
  BY <1>1, <1>2 DEF sweepVars, Counted
<1>3. CASE \/ NightFires \/ DayPasses \/ NightFails \/ scheduled_decision \/ CheckExpiry
           \/ sweep_is_complete \/ Finish \/ Classify \/ box_is_busy
  BY <1>1, <1>3, NightLeavesCounters DEF Counted
<1>4. CASE Measure(Night)
  BY <1>1, <1>4, CountedStep
<1>5. ASSUME NEW f \in Forces, ForceStep(f) \/ ForceFails(f) \/ Measure(f)
      PROVE  Counted(c)'
  <2>1. CellOf[f] # c
    BY <1>5, StepForces
  <2>2. Untouched(c) /\ struck'[c] = struck[c]
    BY <1>5, <2>1, OnlyForcesTouch
  <2>3. at'[Night] = at[Night] /\ work'[Night] = work[Night]
    BY <1>5, ForcesAside, NightIsApart
  <2> QED
    BY <1>1, <2>2, <2>3 DEF Counted, Untouched
<1>6. ASSUME NEW e \in Edits, EditRead(e) \/ EditWrite(e)
      PROVE  Counted(c)'
  <2>1. Untouched(c) /\ struck'[c] = struck[c]
    BY <1>6, OnlyForcesTouch
  <2>2. at' = at /\ work' = work
    BY <1>6 DEF EditRead, EditWrite
  <2> QED
    BY <1>1, <2>1, <2>2 DEF Counted, Untouched
<1> QED
  BY <1>2, <1>3, <1>4, <1>5, <1>6 DEF SweepNext, NightStep

LEMMA DormantInvStep ==
  ASSUME SweepTypeOK, NightInv, ForcesInv, DormantInv, [SweepNext]_sweepVars
  PROVE  DormantInv'
<1> SUFFICES ASSUME NEW c \in Cells
             PROVE  row'[c].dormant => row'[c].failures >= Threshold
  BY DEF DormantInv
<1>1. /\ row[c].dormant => row[c].failures >= Threshold
      /\ RowTypes /\ row[c] \in Row
  BY DEF DormantInv, SweepTypeOK, RowTypes
<1>2. ASSUME row'[c].failures = row[c].failures, row'[c].dormant = row[c].dormant
      PROVE  row'[c].dormant => row'[c].failures >= Threshold
  BY <1>1, <1>2
<1>3. ASSUME NEW d \in Cells,
             row' = [row EXCEPT ![d].failures = 0, ![d].dormant = FALSE]
      PROVE  row'[c].dormant => row'[c].failures >= Threshold
  <2>1. CASE c = d
    <3>1. row'[c].dormant = FALSE
      BY <1>1, <1>3, <2>1 DEF RowTypes, Row
    <3> QED
      BY <3>1
  <2> QED
    BY <1>1, <1>2, <1>3, <2>1 DEF RowTypes
<1>4. CASE UNCHANGED sweepVars
  BY <1>2, <1>4 DEF sweepVars
<1>5. CASE \/ NightFires \/ DayPasses \/ NightFails \/ scheduled_decision \/ CheckExpiry
           \/ sweep_is_complete \/ Finish \/ Classify \/ box_is_busy
  BY <1>2, <1>5, NightLeavesCounters
<1>6. ASSUME NEW p \in Measurers, Measure(p)
      PROVE  row'[c].dormant => row'[c].failures >= Threshold
  <2> DEFINE d == work[p].cell
  <2>1. at[p] \in {"run"} \cup Recording
    BY <1>6 DEF Measure, MeasuredOk, MeasuredFailed, ReadExisting, WriteRow, StampRow,
                CountFailures, MarkFailed, Recording
  <2>2. d \in Cells /\ work[p].failures \in 0..Threshold
    BY <2>1, HandTypes
  <2>3. CASE MeasuredOk(p) \/ MeasuredFailed(p) \/ ReadExisting(p) \/ CountFailures(p)
    BY <1>2, <2>3 DEF MeasuredOk, MeasuredFailed, ReadExisting, CountFailures
  <2>4. CASE WriteRow(p)
    BY <1>1, <1>2, <2>2, <2>4 DEF WriteRow, delegation_row_set, RowTypes, Row
  <2>5. CASE StampRow(p)
    <3>1. row'[c].dormant = IF c = d THEN FALSE ELSE row[c].dormant
      BY <1>1, <2>2, <2>5 DEF StampRow, RowTypes, Row
    <3>2. c # d => row'[c] = row[c]
      BY <1>1, <2>2, <2>5 DEF StampRow, RowTypes
    <3> QED
      BY <3>1, <3>2, <1>1
  <2>6. CASE MarkFailed(p)
    <3>1. c # d => row'[c] = row[c]
      BY <1>1, <2>2, <2>6 DEF MarkFailed, RowTypes
    <3>2. CASE c = d
      <4>1. row'[c].dormant = (work[p].failures >= Threshold)
        BY <1>1, <2>2, <2>6, <3>2 DEF MarkFailed, RowTypes, Row
      <4>2. row'[c].failures = work[p].failures
        BY <1>1, <2>2, <2>6, <3>2 DEF MarkFailed, RowTypes, Row
      <4> QED
        BY <4>1, <4>2
    <3> QED
      BY <3>1, <3>2, <1>1
  <2> QED
    BY <1>6, <2>3, <2>4, <2>5, <2>6 DEF Measure
<1>7. ASSUME NEW f \in Forces, ForceStep(f) \/ ForceFails(f)
      PROVE  row'[c].dormant => row'[c].failures >= Threshold
  <2>1. CASE ClearDormancy(f)
    BY <1>3, <2>1, NightIsApart DEF ClearDormancy
  <2> QED
    BY <1>2, <1>7, <2>1 DEF ForceStep, Press, CommandLine, MarkInFlight, ForceEnds, ForceFails
<1>8. ASSUME NEW e \in Edits, EditRead(e) \/ EditWrite(e)
      PROVE  row'[c].dormant => row'[c].failures >= Threshold
  BY <1>2, <1>8, OnlyForcesTouch DEF Untouched
<1> QED
  BY <1>4, <1>5, <1>6, <1>7, <1>8, NightIsApart DEF SweepNext, NightStep

LEMMA ClosingInvStep ==
  ASSUME SweepTypeOK, NightInv, ForcesInv, ClosingInv, [SweepNext]_sweepVars
  PROVE  ClosingInv'
<1> SUFFICES ASSUME at'[Night] = "finish",
                    NEW c \in Cells, c \in Pending', ~ Forced(c)'
             PROVE  FALSE
  BY DEF ClosingInv, Pending
<1> USE NightIsApart
<1>1. ~ Forced(c)
  BY ForcedStays
<1>2. at \in [Measurers -> NightAt \cup ForceAt \cup Recording]
  BY DEF SweepTypeOK
<1>3. at[Night] # "finish" \/ c \notin Pending
  BY <1>1 DEF ClosingInv
<1>4. ASSUME NEW place, MovesTo(Night, place)
      PROVE  place = "finish"
  BY <1>2, <1>4 DEF MovesTo
<1>5. ASSUME at'[Night] = at[Night], Untouched(c)
      PROVE  FALSE
  BY <1>3, <1>5 DEF Untouched, Pending
<1>6. ASSUME row' = row, at' = at
      PROVE  FALSE
  BY <1>6, <1>5 DEF Untouched
<1>7. ~ NightOver
  BY <1>4 DEF NightOver
<1>8. CASE UNCHANGED sweepVars \/ DayPasses
  BY <1>6, <1>8 DEF sweepVars, DayPasses
<1>9. CASE NightFires \/ NightFails \/ scheduled_decision \/ CheckExpiry \/ Finish \/ box_is_busy
  BY <1>4, <1>7, <1>9
     DEF NightFires, NightFails, scheduled_decision, CheckExpiry, Finish, box_is_busy, NightGoesOn
<1>10. CASE Classify
  BY <1>4, <1>7, <1>10, ClassifyTries DEF Tries
<1>11. CASE sweep_is_complete
  <2>1. Pending = {}
    BY <1>4, <1>11 DEF sweep_is_complete, NightGoesOn
  <2>2. Pending' = Pending
    BY <1>11 DEF sweep_is_complete, Pending
  <2> QED
    BY <2>1, <2>2
<1>12. CASE Measure(Night)
  BY <1>4, <1>12 DEF Measure, MeasuredOk, MeasuredFailed, ReadExisting, WriteRow, StampRow,
                     CountFailures, MarkFailed, Recorded
<1>13. ASSUME NEW f \in Forces, ForceStep(f) \/ ForceFails(f) \/ Measure(f)
       PROVE  FALSE
  <2>1. CellOf[f] # c
    BY <1>13, StepForces
  <2> QED
    BY <1>5, <1>13, <2>1, OnlyForcesTouch, ForcesAside
<1>14. ASSUME NEW e \in Edits, EditRead(e) \/ EditWrite(e)
       PROVE  FALSE
  <2>1. at' = at
    BY <1>14 DEF EditRead, EditWrite
  <2> QED
    BY <1>5, <1>14, <2>1, OnlyForcesTouch
<1> QED
  BY <1>8, <1>9, <1>10, <1>11, <1>12, <1>13, <1>14 DEF SweepNext, NightStep

-----------------------------------------------------------------------------
(* The theorems. *)

LEMMA InitInv ==
  SweepInit => SweepInv
<1> SUFFICES ASSUME SweepInit
             PROVE  SweepInv
  OBVIOUS
<1> USE NightIsApart
<1>1. SweepTypeOK
  BY InitTypes
<1>2. at[Night] = "off" /\ (\A f \in Forces : at[f] = "idle") /\ attempted = {} /\ failing = {}
  BY DEF SweepInit
<1>3. NightInv /\ ForcesInv /\ ClosingInv
  BY <1>2 DEF NightInv, ForcesInv, ClosingInv, Holding, Recording
<1>4. \A c \in Cells : row[c].failures = 0 /\ struck[c] = 0 /\ row[c].dormant = FALSE
  BY DEF SweepInit
<1>5. CountsInv /\ DormantInv
  BY <1>2, <1>4 DEF CountsInv, DormantInv, Counted
<1> QED
  BY <1>1, <1>3, <1>5 DEF SweepInv

LEMMA NextInv ==
  SweepInv /\ [SweepNext]_sweepVars => SweepInv'
BY SweepTypeStep, NightInvStep, ForcesInvStep, CountsInvStep, DormantInvStep, ClosingInvStep DEF SweepInv

THEOREM InvHolds ==
  SweepSpec => []SweepInv
BY InitInv, NextInv, PTL DEF SweepSpec

\* A cell that no force has touched is dormant only after failures on as many
\* nights as the threshold says, whatever crashed, was retried or was edited on
\* the way (benchmark_sweep.record_failure, record_success, run_night).
THEOREM DormancyIsEarned ==
  SweepSpec => []DormantAfterNights
<1>1. SweepInv => DormantAfterNights
  <2> SUFFICES ASSUME SweepInv, NEW c \in Cells, row[c].dormant, ~ Forced(c)
               PROVE  struck[c] >= Threshold
    BY DEF DormantAfterNights, SweepInv
  <2>1. row[c].failures >= Threshold /\ row[c].failures <= struck[c]
    BY DEF SweepInv, DormantInv, CountsInv, Counted
  <2>2. row[c].failures \in Nat /\ struck[c] \in Nat /\ Threshold \in Nat
    BY PeriodsArePositive DEF SweepInv, SweepTypeOK, Row
  <2> QED
    BY <2>1, <2>2
<1> QED
  BY <1>1, InvHolds, PTL

\* Only the night closes a sweep, and nothing but a force makes a cell pending
\* between its last look at the table and its write (sweep_is_complete, finish).
LEMMA OnlyFinishIsDone ==
  ASSUME SweepInv, [SweepNext]_sweepVars, run.status = "running", run'.status = "done"
  PROVE  at[Night] = "finish"
<1>1. run \in Run
  BY DEF SweepInv, SweepTypeOK
<1>2. run' # run /\ ~ Older
  BY <1>1, RunStep
<1>3. CASE UNCHANGED sweepVars
  BY <1>2, <1>3 DEF sweepVars
<1>4. CASE NightFires \/ DayPasses \/ NightFails \/ sweep_is_complete \/ Classify \/ box_is_busy
  BY <1>2, <1>4 DEF NightFires, DayPasses, NightFails, sweep_is_complete, Classify, box_is_busy
<1>5. CASE scheduled_decision
  <2>1. ASSUME start_sweep
        PROVE  run'.status = "running"
    <3>1. run' = [status |-> "running", age |-> 0, cooling |-> 0]
      BY <2>1 DEF start_sweep
    <3> QED
      BY <3>1
  <2> QED
    BY <1>2, <1>5, <2>1 DEF scheduled_decision
<1>6. CASE CheckExpiry
  <2>1. run' = [run EXCEPT !.status = "expired"] => run'.status = "expired"
    BY <1>1 DEF Run
  <2> QED
    BY <1>2, <1>6, <2>1 DEF CheckExpiry
<1>7. CASE Finish
  BY <1>7 DEF Finish
<1>8. ASSUME NEW p \in Measurers, Measure(p)
      PROVE  run' = run
  BY <1>8 DEF Measure, MeasuredOk, MeasuredFailed, ReadExisting, WriteRow, StampRow,
              CountFailures, MarkFailed
<1>9. ASSUME NEW f \in Forces, ForceStep(f) \/ ForceFails(f)
      PROVE  run' = run
  BY <1>9 DEF ForceStep, Press, CommandLine, MarkInFlight, ClearDormancy, ForceEnds, ForceFails
<1>10. ASSUME NEW e \in Edits, EditRead(e) \/ EditWrite(e)
       PROVE  run' = run
  BY <1>10 DEF EditRead, EditWrite
<1> QED
  BY <1>2, <1>3, <1>4, <1>5, <1>6, <1>7, <1>8, <1>9, <1>10, NightIsApart DEF SweepNext, NightStep

\* A sweep that is closed as done has measured every cell since it started, but
\* for the dormant ones and those a force was at (run_night, sweep_is_complete).
THEOREM DoneIsMeasured ==
  SweepSpec => DoneMeansMeasured
<1>1. SweepInv /\ [SweepNext]_sweepVars =>
        [run.status = "running" /\ run'.status = "done" =>
           \A c \in Pending : Forced(c)]_sweepVars
  BY OnlyFinishIsDone DEF SweepInv, ClosingInv
<1> QED
  BY <1>1, InvHolds, PTL DEF SweepSpec, DoneMeansMeasured
=============================================================================
