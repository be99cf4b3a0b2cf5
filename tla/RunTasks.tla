------------------------------ MODULE RunTasks ------------------------------
(***************************************************************************)
(* POST /run: the rows of an approved plan are created one at a time       *)
(* (routes/orchestrators.py), and run_tasks fans them out in dependency    *)
(* order, one chat and one turn at a time, blocks what depends on a        *)
(* failure, and publishes a verdict (orchestrator.py).                     *)
(*                                                                         *)
(* A run works on its own copy of the table, read once at its start.  The  *)
(* scheduler that POST /send starts (module ScheduleLoop) appears here by  *)
(* the rows it writes.  One action is the code around one await that       *)
(* another run could notice: a row read, a row written, a turn.            *)
(***************************************************************************)
EXTENDS Naturals, FiniteSets

CONSTANTS NumTasks,    \* ids of the table, in its order
          EngineTasks, \* those in the namespace of POST /send's scheduler
          Plans,       \* the dependencies a plan may have
          Runs,        \* POST /run requests for one orchestrator
          Engine       \* the scheduler behind POST /send

Tasks == 1 .. NumTasks
Unknown == 0         \* an id that is no row's

ASSUME RunAssumption ==
  /\ NumTasks \in Nat \ {0}
  /\ EngineTasks \subseteq Tasks
  /\ Plans \subseteq [Tasks -> SUBSET Tasks]
  /\ Engine \notin Runs

VARIABLES deps,     \* depends_on of the rows a client sends
          row,      \* orchestrator_tasks
          run,      \* run_tasks, and the request that started it
          engine,   \* where POST /send's scheduler is, and the tasks it is running
          takers,   \* who gave each task a turn
          heard,    \* the results the prompt of each task's last turn carries
          verdict,  \* status of the orchestrator's row
          progress  \* its progress_pct, as a number of tasks

vars == <<deps, row, run, engine, takers, heard, verdict, progress>>

Statuses == {"none", "pending", "running", "done", "failed", "blocked"}

Rows == [status : Statuses,
         deps : SUBSET (Tasks \cup {Unknown}), by : Runs \cup {Engine}]

(***************************************************************************)
(* mem is the status of each task in the run's own dictionary ("none" for  *)
(* an id it did not read) and mine the tasks it settled itself: done,      *)
(* failed and blocked are the parts of mine.                               *)
(***************************************************************************)
RunStates == [pc : {"idle", "create", "read", "scan", "launch", "turn", "verdict",
                    "refused", "over"},
              batch : SUBSET Tasks,
              mem : [Tasks -> Statuses],
              mine : SUBSET Tasks,
              todo : SUBSET Tasks,
              changed : BOOLEAN,
              raised : BOOLEAN]

\* A run that has no dictionary, or has no use for it any more.
Without(pc, raised) ==
  [pc |-> pc, batch |-> {}, mem |-> [t \in Tasks |-> "none"], mine |-> {}, todo |-> {},
   changed |-> FALSE, raised |-> raised]

Init ==
  /\ deps \in Plans
  /\ row = [t \in Tasks |-> [status |-> "none", deps |-> {}, by |-> Engine]]
  /\ run = [r \in Runs |-> Without("idle", FALSE)]
  /\ engine = [pc |-> "idle", busy |-> {}]
  /\ takers = [t \in Tasks |-> {}]
  /\ heard = [t \in Tasks |-> {}]
  /\ verdict = "idle"
  /\ progress = 0

Exists(t) == row[t].status # "none"
First(S, t) == t \in S /\ \A u \in S : t <= u

-----------------------------------------------------------------------------
(* handle_orchestrator_run                                                 *)

_has_cycle(batch) ==
  \E S \in SUBSET batch : S # {} /\ \A t \in S : deps[t] \cap S # {}

\* The plan is refused, or its rows are about to be created.
Request(r, batch) ==
  /\ run[r].pc = "idle" /\ batch # {}
  /\ run' = [run EXCEPT ![r] =
       IF _has_cycle(batch) THEN Without("refused", FALSE)
       ELSE [Without("create", FALSE) EXCEPT !.batch = batch, !.todo = batch]]
  /\ UNCHANGED <<deps, row, engine, takers, heard, verdict, progress>>

\* Only the ids of the batch are namespaced: any other dependency is no row's id.
NewRow(r, t) ==
  [status |-> "pending",
   deps |-> (deps[t] \cap run[r].batch)
              \cup (IF deps[t] \subseteq run[r].batch THEN {} ELSE {Unknown}),
   by |-> r]

\* The rows come in the client's order, whatever it is.  One that exists already
\* refuses the request; those before it stay.
CreateRow(r) ==
  /\ run[r].pc = "create"
  /\ \E t \in run[r].todo :
       IF Exists(t)
         THEN /\ run' = [run EXCEPT ![r] = Without("refused", FALSE)]
              /\ UNCHANGED row
         ELSE /\ row' = [row EXCEPT ![t] = NewRow(r, t)]
              /\ run' = [run EXCEPT ![r].todo = @ \ {t},
                           ![r].pc = IF run[r].todo = {t} THEN "read" ELSE "create"]
  /\ UNCHANGED <<deps, engine, takers, heard, verdict, progress>>

\* So does any other failure of the table.
CreateRaises(r) ==
  /\ run[r].pc = "create"
  /\ run' = [run EXCEPT ![r] = Without("refused", FALSE)]
  /\ UNCHANGED <<deps, row, engine, takers, heard, verdict, progress>>

-----------------------------------------------------------------------------
(* run_tasks                                                               *)

ReadRows(r) ==
  /\ run[r].pc = "read"
  /\ run' = [run EXCEPT ![r] =
       [Without("scan", FALSE) EXCEPT !.mem = [t \in Tasks |-> row[t].status],
                                      !.todo = Tasks]]
  /\ UNCHANGED <<deps, row, engine, takers, heard, verdict, progress>>

\* The table is read before the try statement: no verdict follows.
ReadRaises(r) ==
  /\ run[r].pc = "read"
  /\ run' = [run EXCEPT ![r] = Without("over", TRUE)]
  /\ UNCHANGED <<deps, row, engine, takers, heard, verdict, progress>>

Settled(r, s) == {t \in run[r].mine : run[r].mem[t] = s}

Doomed(r) ==
  {t \in run[r].todo :
     run[r].mem[t] = "pending"
       /\ row[t].deps \cap (Settled(r, "failed") \cup Settled(r, "blocked")) # {}}

Ready(r) ==
  {t \in Tasks : run[r].mem[t] = "pending" /\ row[t].deps \subseteq Settled(r, "done")}

\* The next task that the pass over the dictionary blocks; its row is written.
Block(r) ==
  /\ run[r].pc = "scan"
  /\ \E t \in Doomed(r) :
       /\ First(Doomed(r), t)
       /\ run' = [run EXCEPT ![r].mem[t] = "blocked", ![r].mine = @ \cup {t},
                             ![r].todo = {u \in @ : u > t}, ![r].changed = TRUE]
       /\ row' = [row EXCEPT ![t].status = "blocked"]
  /\ UNCHANGED <<deps, engine, takers, heard, verdict, progress>>

\* MUTANT: `changed` is not reset by the next pass.
PassEndsKeepsChanged(r) ==
  /\ run[r].pc = "scan" /\ Doomed(r) = {}
  /\ run' = [run EXCEPT
       ![r].pc = IF Ready(r) # {} THEN "launch"
                 ELSE IF run[r].changed THEN "scan" ELSE "verdict",
       ![r].todo = IF Ready(r) # {} THEN Ready(r) ELSE Tasks]
  /\ UNCHANGED <<deps, row, engine, takers, heard, verdict, progress>>

\* MUTANT: the run ends when nothing is ready, though blocking still spreads.
PassEndsWhenNoneReady(r) ==
  /\ run[r].pc = "scan" /\ Doomed(r) = {}
  /\ run' = [run EXCEPT ![r].pc = IF Ready(r) # {} THEN "launch" ELSE "verdict",
                        ![r].todo = IF Ready(r) # {} THEN Ready(r) ELSE Tasks,
                        ![r].changed = FALSE]
  /\ UNCHANGED <<deps, row, engine, takers, heard, verdict, progress>>

\* The pass blocks nothing more: launch what is ready, go round again if
\* something was blocked, or leave.
PassEnds(r) ==
  /\ run[r].pc = "scan" /\ Doomed(r) = {}
  /\ run' = [run EXCEPT
       ![r].pc = IF Ready(r) # {} THEN "launch"
                 ELSE IF run[r].changed THEN "scan" ELSE "verdict",
       ![r].todo = IF Ready(r) # {} THEN Ready(r) ELSE Tasks,
       ![r].changed = FALSE]
  /\ UNCHANGED <<deps, row, engine, takers, heard, verdict, progress>>

\* create_task_chat and _prompt_for: the turn of the next ready task begins.
\* The prompt quotes the result of every dependency whose row is done.
Launch(r) ==
  /\ run[r].pc = "launch"
  /\ \E t \in run[r].todo :
       /\ First(run[r].todo, t)
       /\ takers' = [takers EXCEPT ![t] = @ \cup {r}]
       /\ heard' = [heard EXCEPT ![t] = {d \in row[t].deps \ {Unknown} :
                                           row[d].status = "done"}]
  /\ run' = [run EXCEPT ![r].pc = "turn"]
  /\ UNCHANGED <<deps, row, engine, verdict, progress>>

\* The task's turn is over: done with an answer, or failed.  The outcome goes
\* into the dictionary, then into the row.
Outcome(r, t, s) ==
  [run EXCEPT ![r].mem[t] = s, ![r].mine = @ \cup {t}, ![r].todo = @ \ {t}]

AfterTask(r, next) ==
  [next EXCEPT ![r].pc = IF next[r].todo = {} THEN "scan" ELSE "launch",
               ![r].todo = IF next[r].todo = {} THEN Tasks ELSE next[r].todo]

\* MUTANT: the outcome is kept in the dictionary and not written to the row.
RecordNothing(r) ==
  /\ run[r].pc = "turn"
  /\ \E t \in run[r].todo, s \in {"done", "failed"} :
       /\ First(run[r].todo, t)
       /\ run' = AfterTask(r, Outcome(r, t, s))
  /\ UNCHANGED <<deps, row, engine, takers, heard, verdict, progress>>

Record(r) ==
  /\ run[r].pc = "turn"
  /\ \E t \in run[r].todo, s \in {"done", "failed"} :
       /\ First(run[r].todo, t)
       /\ run' = AfterTask(r, Outcome(r, t, s))
       /\ row' = [row EXCEPT ![t].status = s]
  /\ UNCHANGED <<deps, engine, takers, heard, verdict, progress>>

\* Anything awaited raises: the finally clause publishes the verdict all the same.
Raised(r, next) == [next EXCEPT ![r].pc = "verdict", ![r].raised = TRUE]

TurnRaises(r) ==
  /\ run[r].pc \in {"launch", "turn"}
  /\ run' = Raised(r, run)
  /\ UNCHANGED <<deps, row, engine, takers, heard, verdict, progress>>

\* The dictionary has the outcome of the task at hand; its row may not.
WriteRaises(r) ==
  /\ \E t \in Tasks, s \in {"done", "failed", "blocked"} :
       /\ \/ run[r].pc = "scan" /\ First(Doomed(r), t) /\ s = "blocked"
          \/ run[r].pc = "turn" /\ First(run[r].todo, t) /\ s # "blocked"
       /\ run' = Raised(r, Outcome(r, t, s))
       /\ row' \in {row, [row EXCEPT ![t].status = s]}
  /\ UNCHANGED <<deps, engine, takers, heard, verdict, progress>>

\* The run's verdict looks at what the run itself settled, out of all it read.
verdict_of(r) ==
  IF Settled(r, "done") = {t \in Tasks : run[r].mem[t] # "none"} THEN "done"
  ELSE IF Settled(r, "done") = {} THEN "error"
  ELSE "degraded"

\* The finally clause: the row is written, or that raises too.
Publish(r) ==
  /\ run[r].pc = "verdict"
  /\ run' = [run EXCEPT ![r] = Without("over", run[r].raised)]
  /\ verdict' = verdict_of(r)
  /\ progress' = Cardinality(Settled(r, "done"))
  /\ UNCHANGED <<deps, row, engine, takers, heard>>

PublishRaises(r) ==
  /\ run[r].pc = "verdict"
  /\ run' = [run EXCEPT ![r] = Without("over", TRUE)]
  /\ \/ verdict' = verdict_of(r) /\ progress' = Cardinality(Settled(r, "done"))
     \/ UNCHANGED <<verdict, progress>>
  /\ UNCHANGED <<deps, row, engine, takers, heard>>

-----------------------------------------------------------------------------
(* POST /send, as far as the table shows it: module ScheduleLoop has the   *)
(* rest.  The planner's turn ends with rows of its own namespace.          *)

\* _refuse_if_run_path_owns_this
Send ==
  /\ engine.pc = "idle"
  /\ \A t \in Tasks \ EngineTasks : ~Exists(t)
  /\ engine' = [engine EXCEPT !.pc = "planning"]
  /\ UNCHANGED <<deps, row, run, takers, heard, verdict, progress>>

\* A row that cannot be written is marked, and its task runs all the same.
_materialise_plan ==
  /\ engine.pc = "planning"
  /\ engine' = [engine EXCEPT !.pc = "running"]
  /\ \E written \in SUBSET EngineTasks :
       row' = [t \in Tasks |->
                 IF t \in written
                   THEN [status |-> "pending", deps |-> deps[t] \cap EngineTasks,
                         by |-> Engine]
                   ELSE row[t]]
  /\ UNCHANGED <<deps, run, takers, heard, verdict, progress>>

\* orchestrator_task_update, on a row that may not be there.
Update(t, s) == row' = IF Exists(t) THEN [row EXCEPT ![t].status = s] ELSE row

\* _execute_task writes "running" before the turn, and the outcome after it:
\* it looks at its own graph, never at the table.
EngineTakes(t) ==
  /\ engine.pc = "running" /\ t \in EngineTasks /\ Engine \notin takers[t]
  /\ takers' = [takers EXCEPT ![t] = @ \cup {Engine}]
  /\ engine' = [engine EXCEPT !.busy = @ \cup {t}]
  /\ Update(t, "running")
  /\ UNCHANGED <<deps, run, heard, verdict, progress>>

EngineEnds(t) ==
  /\ t \in engine.busy
  /\ engine' = [engine EXCEPT !.busy = @ \ {t}]
  /\ \E s \in {"done", "failed"} : Update(t, s)
  /\ UNCHANGED <<deps, run, takers, heard, verdict, progress>>

-----------------------------------------------------------------------------
RunStep(r) ==
  \/ CreateRow(r) \/ CreateRaises(r) \/ ReadRows(r) \/ ReadRaises(r)
  \/ Block(r) \/ PassEnds(r) \/ Launch(r) \/ Record(r)
  \/ TurnRaises(r) \/ WriteRaises(r) \/ Publish(r) \/ PublishRaises(r)

Next ==
  \/ \E r \in Runs :
       \/ \E batch \in SUBSET (Tasks \ EngineTasks) : Request(r, batch)
       \/ RunStep(r)
  \/ Send \/ _materialise_plan
  \/ \E t \in EngineTasks : EngineTakes(t) \/ EngineEnds(t)

Spec == Init /\ [][Next]_vars

\* Turns end and database calls return, with an answer or with an exception.
FairSpec == Spec /\ \A r \in Runs : WF_vars(RunStep(r))

-----------------------------------------------------------------------------
\* Every variable stays within its type.
TypeOK ==
  /\ deps \in Plans
  /\ row \in [Tasks -> Rows]
  /\ run \in [Runs -> RunStates]
  /\ engine \in [pc : {"idle", "planning", "running"}, busy : SUBSET EngineTasks]
  /\ takers \in [Tasks -> SUBSET (Runs \cup {Engine})]
  /\ heard \in [Tasks -> SUBSET Tasks]
  /\ verdict \in {"idle", "done", "error", "degraded"}
  /\ progress \in 0 .. NumTasks

\* The table holds no row but those of run r.
Sole(r) == \A t \in Tasks : Exists(t) => row[t].by = r

Completed(r) == run[r].pc = "over" /\ ~run[r].raised

Stuck(t) == \E d \in row[t].deps : d # Unknown /\ row[d].status \in {"failed", "blocked"}

\* When a run ends every row says why: a task that had a turn had all it depends
\* on, one is blocked exactly when something it depends on, however far away,
\* failed, and none is left pending but for a dependency that does not exist.
EveryRowSettled ==
  \A r \in Runs : Completed(r) /\ Sole(r) =>
    \A t \in Tasks :
      /\ row[t].status \in {"done", "failed"} =>
           \A d \in row[t].deps : d # Unknown /\ row[d].status = "done"
      /\ row[t].status = "blocked" => Stuck(t)
      /\ row[t].status = "pending" =>
           ~Stuck(t) /\ \E d \in row[t].deps : d = Unknown \/ row[d].status = "pending"

\* The verdict and the progress that a run publishes are those of its rows: done
\* when all are, error when none is.
VerdictMatchesRows ==
  \A r \in Runs : Completed(r) /\ Sole(r) =>
    LET there == {t \in Tasks : Exists(t)}
        done  == {t \in there : row[t].status = "done"} IN
    /\ verdict = "done" <=> done = there
    /\ verdict = "error" <=> done = {}
    /\ progress = Cardinality(done)

\* What a run reports at its end is what its rows say, and they say what ran.
RunsReportTruly == TypeOK /\ EveryRowSettled /\ VerdictMatchesRows

\* A task's prompt carries the result of everything the task depends on: no turn
\* starts before those rows are written (_prompt_for reads the table).
PromptHasResults ==
  \A r \in Runs, t \in Tasks : Sole(r) /\ takers[t] # {} => heard[t] = row[t].deps

\* A run that was asked for ends, whatever fails: blocking spreads through the
\* plan and stops.
RunsEnd ==
  \A r \in Runs : run[r].pc = "create" ~> run[r].pc \in {"over", "refused"}

\* The design document: "the two schedulers can never run over the same
\* `orchestrator_tasks` rows at once."
OneScheduler ==
  \A t \in Tasks : Engine \in takers[t] => takers[t] = {Engine}

\* The design document: "Progress is computed as `done / total`, not tracked
\* separately, so it cannot disagree with the tasks."
ProgressAgrees ==
  engine.pc = "idle" /\ (\E r \in Runs : run[r].pc = "over")
    /\ (\A r \in Runs : Completed(r) \/ run[r].pc \in {"idle", "refused"})
    => progress = Cardinality({t \in Tasks : row[t].status = "done"})
=============================================================================
