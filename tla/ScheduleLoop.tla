---------------------------- MODULE ScheduleLoop ----------------------------
(***************************************************************************)
(* The engine of one orchestrator run (orchestrator.py): the graph of its  *)
(* tasks, the scheduler loops that execute it, and the requests that stop, *)
(* restart, pause and resume it while they do (routes/orchestrators.py).   *)
(*                                                                         *)
(* One action is the code between two awaits.  A restart can find the loop *)
(* it replaces still awaiting a turn, so there may be several loops over   *)
(* one graph.  The plan is fixed: the planner's turn is over, and its      *)
(* first loop is about to start.                                           *)
(***************************************************************************)
EXTENDS Naturals

CONSTANTS NumTasks,  \* tasks of the plan, numbered in the plan's order
          Plans,     \* the dependencies a plan may have
          Loops,     \* run_schedule_loop coroutines that may live at once
          Planner    \* the loop the planner's task goes on with

Tasks == 1 .. NumTasks

ASSUME PlanAssumption ==
  /\ NumTasks \in Nat \ {0}
  /\ Plans \subseteq [Tasks -> SUBSET Tasks]
  /\ Planner \in Loops

VARIABLES deps,      \* depends_on of each task, unknown ids left out
          status,    \* TaskNode.status
          started,   \* how many turns each task was given
          running,   \* OrchestratorEngine._running
          paused,    \* OrchestratorEngine._paused
          restore,   \* OrchestratorEngine._pre_pause_status
          dbStatus,  \* status column of the orchestrator's row
          degraded,  \* a status could not be written, and was marked
          loop,      \* where each loop is
          req        \* where the user's request is

graph == <<deps, status, started>>
engine == <<running, paused, restore>>
vars == <<graph, engine, dbStatus, degraded, loop, req>>

Statuses == {"pending", "ready", "running", "done", "failed", "blocked"}
RunStatuses == {"idle", "planning", "running", "paused", "done", "error"}

\* A loop, what is left of `ready`, the task it executes and `stopped_early`.
Loop == [pc : {"off", "spawned", "sleep", "model", "turn", "report", "persist",
               "wait", "final", "failed"},
         ready : SUBSET Tasks, tid : Tasks, stoppedEarly : BOOLEAN]

At(pc) == [pc |-> pc, ready |-> {}, tid |-> 1, stoppedEarly |-> FALSE]

Init ==
  /\ deps \in Plans
  /\ status = [t \in Tasks |-> "pending"]
  /\ started = [t \in Tasks |-> 0]
  /\ running = TRUE
  /\ paused = FALSE
  /\ restore = "running"
  /\ dbStatus = "running"
  /\ degraded = FALSE
  /\ loop = [l \in Loops |-> At(IF l = Planner THEN "spawned" ELSE "off")]
  /\ req = [pc |-> "none", seen |-> "idle"]

-----------------------------------------------------------------------------
(* TaskGraph                                                               *)

\* MUTANT: a task that was returned once is returned again.
RunnableAgain ==
  {t \in Tasks : status[t] \in {"pending", "ready"}
                   /\ \A d \in deps[t] : status[d] = "done"}

Runnable ==
  {t \in Tasks : status[t] = "pending" /\ \A d \in deps[t] : status[d] = "done"}

\* MUTANT: any dependency that is not done yet blocks a task.
BlockableWhileUndone ==
  {t \in Tasks : status[t] = "pending" /\ \E d \in deps[t] : status[d] # "done"}

\* A failed dependency blocks a task; a blocked one does not.
Blockable ==
  {t \in Tasks : status[t] = "pending" /\ \E d \in deps[t] : status[d] = "failed"}

get_ready_tasks ==
  [t \in Tasks |-> IF t \in Runnable THEN "ready"
                   ELSE IF t \in Blockable THEN "blocked"
                   ELSE status[t]]

all_done == \A t \in Tasks : status[t] \in {"done", "blocked", "failed"}

any_failed == \E t \in Tasks : status[t] = "failed"

-----------------------------------------------------------------------------
(* run_schedule_loop and _execute_task                                     *)

\* Loop l executes the first task of batch that is ready in st, unless it has
\* been stopped.  A task without a model of its own first looks up a default;
\* any other is running, and its turn begun, in the same step.
StartNext(l, st, batch, run) ==
  LET ready == {t \in batch : st[t] = "ready"} IN
  IF run /\ ready # {}
    THEN \E t \in ready, pc \in {"model", "turn"} :
           /\ \A other \in ready : t <= other
           /\ loop' = [loop EXCEPT ![l] =
                        [At(pc) EXCEPT !.ready = batch \ {t}, !.tid = t]]
           /\ status' = IF pc = "turn" THEN [st EXCEPT ![t] = "running"] ELSE st
           /\ started' = IF pc = "turn" THEN [started EXCEPT ![t] = @ + 1] ELSE started
    ELSE /\ loop' = [loop EXCEPT ![l] = At("persist")]
         /\ status' = st
         /\ UNCHANGED started

\* The head of the loop.  A loop that starts says that the engine runs.
Goes(l) == running \/ loop[l].pc = "spawned"

Turn(l) ==
  /\ loop[l].pc \in {"spawned", "sleep"}
  /\ Goes(l) /\ ~all_done
  /\ running' = TRUE
  /\ StartNext(l, get_ready_tasks, Runnable, TRUE)
  /\ UNCHANGED <<deps, paused, restore, dbStatus, degraded, req>>

\* The loop ends, and with it every other loop of the engine.
Leave(l) ==
  /\ loop[l].pc \in {"spawned", "sleep"}
  /\ ~Goes(l) \/ all_done
  /\ running' = FALSE
  /\ loop' = [loop EXCEPT ![l] = [At("final") EXCEPT !.stoppedEarly = ~all_done]]
  /\ UNCHANGED <<graph, paused, restore, dbStatus, degraded, req>>

\* get_default_model returned.  Whether the loop was stopped is not looked at.
ModelFound(l) ==
  /\ loop[l].pc = "model"
  /\ loop' = [loop EXCEPT ![l].pc = "turn"]
  /\ status' = [status EXCEPT ![loop[l].tid] = "running"]
  /\ started' = [started EXCEPT ![loop[l].tid] = @ + 1]
  /\ UNCHANGED <<deps, engine, dbStatus, degraded, req>>

\* It raised, which nothing but the loop catches: the task stays ready.
ModelRaises(l) ==
  /\ loop[l].pc = "model"
  /\ loop' = [loop EXCEPT ![l] = At("failed")]
  /\ running' = FALSE
  /\ UNCHANGED <<graph, paused, restore, dbStatus, degraded, req>>

\* The turn succeeded, or it raised and was recorded as failed.
TurnEnds(l) ==
  /\ loop[l].pc = "turn"
  /\ \E outcome \in {"done", "failed"} :
       status' = [status EXCEPT ![loop[l].tid] = outcome]
  /\ loop' = [loop EXCEPT ![l].pc = "report"]
  /\ UNCHANGED <<deps, started, engine, dbStatus, degraded, req>>

\* The task's rows are written, or that failed; the next one of the batch.
Reported(l) ==
  /\ loop[l].pc = "report"
  /\ StartNext(l, status, loop[l].ready, running)
  /\ UNCHANGED <<deps, engine, dbStatus, degraded, req>>

\* _persist_progress, then _wait_if_paused, which waits two seconds at most.
Persisted(l) ==
  /\ loop[l].pc = "persist"
  /\ loop' = [loop EXCEPT ![l].pc = IF paused THEN "wait" ELSE "sleep"]
  /\ UNCHANGED <<graph, engine, dbStatus, degraded, req>>

Waited(l) ==
  /\ loop[l].pc = "wait"
  /\ loop' = [loop EXCEPT ![l].pc = "sleep"]
  /\ UNCHANGED <<graph, engine, dbStatus, degraded, req>>

\* MUTANT: the verdict does not ask whether a task failed.
verdict_optimistic(stoppedEarly) == IF stoppedEarly THEN "idle" ELSE "done"

verdict(stoppedEarly) ==
  IF stoppedEarly THEN "idle" ELSE IF any_failed THEN "error" ELSE "done"

\* _set_status: the row is written and an earlier mark taken off it.
Publish(l) ==
  /\ \/ loop[l].pc = "final" /\ dbStatus' = verdict(loop[l].stoppedEarly)
     \/ loop[l].pc = "failed" /\ dbStatus' = "error"
  /\ degraded' = FALSE
  /\ loop' = [loop EXCEPT ![l] = At("off")]
  /\ UNCHANGED <<graph, engine, req>>

\* One of the two fails, so the row may not be written, and is marked degraded.
PublishFails(l) ==
  /\ \/ loop[l].pc = "final" /\ dbStatus' \in {dbStatus, verdict(loop[l].stoppedEarly)}
     \/ loop[l].pc = "failed" /\ dbStatus' \in {dbStatus, "error"}
  /\ degraded' = TRUE
  /\ loop' = [loop EXCEPT ![l] = At("off")]
  /\ UNCHANGED <<graph, engine, req>>

-----------------------------------------------------------------------------
(* The user's requests, one at a time.                                     *)

Request(pc, seen) == req' = [pc |-> pc, seen |-> seen]

\* PUT writes the status it was sent, and only then looks at the engine.
Put(s) ==
  /\ req.pc = "none"
  /\ dbStatus' = s
  /\ Request("put", s)
  /\ UNCHANGED <<graph, engine, degraded, loop>>

PutStarts ==
  /\ req.pc = "put" /\ req.seen = "running"
  /\ IF running THEN UNCHANGED loop
     ELSE \E l \in Loops : /\ loop[l].pc = "off"
                           /\ loop' = [loop EXCEPT ![l] = At("spawned")]
  /\ Request("none", "idle")
  /\ UNCHANGED <<graph, engine, dbStatus, degraded>>

PutStops ==
  /\ req.pc = "put" /\ req.seen \in {"idle", "done", "error"}
  /\ running' = FALSE
  /\ Request("none", "idle")
  /\ UNCHANGED <<graph, paused, restore, dbStatus, degraded, loop>>

PutOther ==
  /\ req.pc = "put" /\ req.seen \in {"planning", "paused"}
  /\ Request("none", "idle")
  /\ UNCHANGED <<graph, engine, dbStatus, degraded, loop>>

\* MUTANT: a run can be paused whatever its status.
AskPauseAnything ==
  /\ req.pc = "none"
  /\ Request("pause", dbStatus)
  /\ UNCHANGED <<graph, engine, dbStatus, degraded, loop>>

\* Pause and resume: the row is read, the engine is asked, the row is written.
AskPause ==
  /\ req.pc = "none" /\ dbStatus \in {"planning", "running"}
  /\ Request("pause", dbStatus)
  /\ UNCHANGED <<graph, engine, dbStatus, degraded, loop>>

pause ==
  /\ req.pc = "pause"
  /\ IF running /\ ~paused
       THEN /\ paused' = TRUE
            /\ restore' = req.seen
            /\ Request("pausing", "paused")
       ELSE /\ Request("none", "idle")
            /\ UNCHANGED <<paused, restore>>
  /\ UNCHANGED <<graph, running, dbStatus, degraded, loop>>

AskResume ==
  /\ req.pc = "none" /\ dbStatus = "paused"
  /\ Request("resume", dbStatus)
  /\ UNCHANGED <<graph, engine, dbStatus, degraded, loop>>

resume ==
  /\ req.pc = "resume"
  /\ paused' = FALSE
  /\ IF paused THEN Request("resuming", restore) ELSE Request("none", "idle")
  /\ UNCHANGED <<graph, running, restore, dbStatus, degraded, loop>>

PauseWritten ==
  /\ req.pc \in {"pausing", "resuming"}
  /\ dbStatus' = req.seen
  /\ Request("none", "idle")
  /\ UNCHANGED <<graph, engine, degraded, loop>>

-----------------------------------------------------------------------------
LoopStep(l) ==
  \/ Turn(l) \/ Leave(l) \/ ModelFound(l) \/ ModelRaises(l)
  \/ TurnEnds(l) \/ Reported(l) \/ Persisted(l) \/ Waited(l)
  \/ Publish(l) \/ PublishFails(l)

RequestStep == PutStarts \/ PutStops \/ PutOther \/ pause \/ resume \/ PauseWritten

Next ==
  \/ \E l \in Loops : LoopStep(l)
  \/ \E s \in RunStatuses : Put(s)
  \/ AskPause \/ AskResume
  \/ RequestStep

Spec == Init /\ [][Next]_vars

\* Turns and database calls return, timers fire.  The user owes nothing.
FairSpec == Spec /\ \A l \in Loops : WF_vars(LoopStep(l))

-----------------------------------------------------------------------------
\* Every variable stays within its type, and a run is only paused from a status
\* that resume can put back.
TypeOK ==
  /\ deps \in Plans
  /\ status \in [Tasks -> Statuses]
  /\ started \in [Tasks -> Nat]
  /\ running \in BOOLEAN /\ paused \in BOOLEAN /\ degraded \in BOOLEAN
  /\ restore \in {"planning", "running"}
  /\ dbStatus \in RunStatuses
  /\ loop \in [Loops -> Loop]
  /\ req \in [pc : {"none", "put", "pause", "pausing", "resume", "resuming"},
              seen : RunStatuses]
  /\ req.pc = "pause" => req.seen \in {"planning", "running"}

\* A task is given one turn at most, however many loops a stop and a restart
\* leave over the graph: a task one loop has taken is ready, and no loop takes
\* a ready task again (get_ready_tasks).
RunOnce == \A t \in Tasks : started[t] <= 1

\* No task is worked on before all it depends on is done, whatever the other
\* loop is doing, and a blocked task never is.
DepsFirst ==
  \A t \in Tasks :
    started[t] > 0 => \A d \in deps[t] : status[d] = "done"

\* However a stop and a restart overlap, the plan is run as it was drawn: each
\* task once, after the tasks it depends on (run_schedule_loop).
OnceInOrder == RunOnce /\ DepsFirst

\* The scheduler turns the row to "done" only for a run all of whose tasks are: not for
\* one that was stopped, or that has failed or blocked tasks.
HonestDone ==
  [][\A l \in Loops : LoopStep(l) /\ dbStatus # "done" /\ dbStatus' = "done"
       => \A t \in Tasks : status[t] = "done"]_vars

\* The plan's tasks can be done in some order.
Acyclic ==
  \A S \in SUBSET Tasks : S # {} => \E t \in S : deps[t] \cap S = {}

Undisturbed == req.pc # "put"

NothingFails ==
  /\ ~any_failed /\ ~degraded
  /\ \A l \in Loops : loop[l].pc # "failed"

\* A run that nobody stops and in which nothing fails ends, and says so: pause
\* and resume delay it but never lose a task.
Completes ==
  Acyclic /\ []Undisturbed /\ []NothingFails
    => <>(dbStatus = "done" /\ \A t \in Tasks : status[t] = "done")

\* The docstring of all_done: a failed task must not keep the loop spinning
\* "with nothing runnable" so that "the orchestrator never reached a final
\* state".  "Finishing unsuccessfully is still finishing".
FailureEndsRun ==
  Acyclic /\ []Undisturbed /\ []~degraded => <>(dbStatus \in {"done", "error"})
=============================================================================
