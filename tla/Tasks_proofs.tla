--------------------------- MODULE Tasks_proofs -----------------------------
(***************************************************************************)
(* Tasks and who they may be given to. A /run, for any plans and any       *)
(* number of requests: the types, that a run which ends without an         *)
(* exception and had the table to itself leaves rows that say what ran,    *)
(* with a verdict and a progress that are theirs, and that every turn's    *)
(* prompt carried all the results it depends on. The settings of           *)
(* delegation, for any table, pins and requests: their shape, that setting *)
(* ordinary pins aside at boot adds no problem, and that a request which   *)
(* was validated and wrote alone leaves a console that boots. The ladders  *)
(* that a table generates, for any table: that each climbs from the        *)
(* cheapest model to the most accurate one.                                *)
(***************************************************************************)
EXTENDS RunTasks, Delegation, SequenceTheorems,
        FiniteSetTheorems, WellFoundedInduction, TLAPS

-----------------------------------------------------------------------------
(***************************************************************************)
(* Tasks that are run (RunTasks).                                          *)
(***************************************************************************)

Out == {"failed", "blocked"}

Working == {"read", "scan", "launch", "turn", "verdict"}

\* Rows are created outside the scheduler's namespace.
BatchInv ==
    /\ \A r \in Runs : run[r].pc = "create" => run[r].todo \subseteq run[r].batch
                                               /\ run[r].batch \subseteq Tasks \ EngineTasks
    /\ \A t \in Tasks : /\ t \in EngineTasks => row[t].by = Engine
                        /\ ~Exists(t) => row[t].deps = {}

TypeInv == TypeOK /\ BatchInv

\* A run that has got further than its first row has a row of its own, for good.
WitnessInv ==
    \A r \in Runs :
        run[r].pc \in Working \/ (run[r].pc = "create" /\ run[r].todo # run[r].batch)
            => \E t \in Tasks : Exists(t) /\ row[t].by = r

-----------------------------------------------------------------------------
(* What holds of a run, by where it is, while the table has no other rows. *)

\* A dependency of a row is no row's id or that of a row there is.
Known == \A t \in Tasks : \A d \in row[t].deps : d = Unknown \/ Exists(d)

\* The run's dictionary is the table, and what it settled is what is settled.
Mirrors(r) ==
    \A t \in Tasks : /\ run[r].mem[t] = row[t].status
                     /\ row[t].status # "running"
                     /\ t \in run[r].mine <=> row[t].status \in {"done"} \cup Out

AllDone(t) == \A d \in row[t].deps : d # Unknown /\ row[d].status = "done"

\* What has run could run, and what is blocked has to be.
Right ==
    \A t \in Tasks : /\ row[t].status \in {"done", "failed"} => AllDone(t)
                     /\ row[t].status = "blocked" => Stuck(t)

\* Nothing that is pending could run or has to be blocked.
Quiet ==
    \A t \in Tasks : row[t].status = "pending" =>
        ~Stuck(t) /\ \E d \in row[t].deps : d = Unknown \/ row[d].status = "pending"

Report ==
    LET there == {t \in Tasks : Exists(t)}
        done  == {t \in there : row[t].status = "done"}
    IN  /\ verdict = "done" <=> done = there
        /\ verdict = "error" <=> done = {}
        /\ progress = Cardinality(done)

RunInv(r) ==
    Sole(r) =>
        /\ run[r].pc = "idle" => \A t \in Tasks : ~Exists(t)
        /\ run[r].pc = "create" =>
              /\ \A t \in Tasks : row[t].deps \subseteq run[r].batch \cup {Unknown}
              /\ \A t \in run[r].batch \ run[r].todo : Exists(t)
        /\ run[r].pc \in {"create", "read"} => \A t \in Tasks : Exists(t) => row[t].status = "pending"
        /\ run[r].pc = "read" => Known
        /\ run[r].pc \in {"scan", "launch", "turn", "verdict"} /\ ~run[r].raised =>
              Known /\ Mirrors(r) /\ Right
        /\ run[r].pc = "scan" => ~run[r].raised /\ (~run[r].changed => run[r].todo = Tasks)
        /\ run[r].pc \in {"launch", "turn"} =>
              ~run[r].raised /\ \A t \in run[r].todo : row[t].status = "pending" /\ AllDone(t)
        /\ run[r].pc = "verdict" /\ ~run[r].raised => Quiet
        /\ Completed(r) => Right /\ Quiet /\ Report

\* Whoever runs, the prompts of a sole run's tasks carry what these depend on,
\* and no task without a row has heard anything or, unless it is the
\* scheduler's, run.
HeardInv ==
    \A r \in Runs : Sole(r) => \A t \in Tasks :
        /\ takers[t] # {} => heard[t] = row[t].deps
        /\ ~Exists(t) => heard[t] = {} /\ (t \notin EngineTasks => takers[t] = {})

IInv == TypeInv /\ WitnessInv /\ (\A r \in Runs : RunInv(r)) /\ HeardInv

-----------------------------------------------------------------------------
(* Types. *)

LEMMA NothingType ==
  ASSUME NEW pc \in {"idle", "create", "read", "scan", "launch", "turn", "verdict", "refused", "over"},
         NEW raised \in BOOLEAN
  PROVE  /\ Without(pc, raised) \in RunStates
         /\ Without(pc, raised).pc = pc /\ Without(pc, raised).raised = raised
         /\ Without(pc, raised).todo = {}
  BY DEF Without, RunStates, Statuses

LEMMA NewRunType ==
  ASSUME NEW batch \in SUBSET Tasks
  PROVE  LET d == [Without("create", FALSE) EXCEPT !.batch = batch, !.todo = batch]
         IN  /\ d \in RunStates
             /\ d.pc = "create" /\ ~d.raised /\ d.batch = batch /\ d.todo = batch
  BY DEF Without, RunStates, Statuses

LEMMA ReadRunType ==
  ASSUME NEW mem \in [Tasks -> Statuses]
  PROVE  LET d == [Without("scan", FALSE) EXCEPT !.mem = mem, !.todo = Tasks]
         IN  /\ d \in RunStates
             /\ d.pc = "scan" /\ ~d.raised /\ ~d.changed
             /\ d.mem = mem /\ d.mine = {} /\ d.todo = Tasks
  BY DEF Without, RunStates, Statuses

LEMMA RunType ==
  ASSUME TypeInv, NEW r \in Runs
  PROVE  /\ run \in [Runs -> RunStates] /\ run[r] \in RunStates
         /\ run[r].mem \in [Tasks -> Statuses]
         /\ run[r].mine \subseteq Tasks /\ run[r].todo \subseteq Tasks
         /\ row \in [Tasks -> Rows]
  BY DEF TypeInv, TypeOK, RunStates

Others(r) == run' \in [Runs -> RunStates] /\ \A q \in Runs \ {r} : run'[q] = run[q]

\* The whole state of a run is replaced.
LEMMA RunIs ==
  ASSUME TypeInv, NEW r \in Runs, NEW rec \in RunStates, run' = [run EXCEPT ![r] = rec]
  PROVE  Others(r) /\ run'[r] = rec
  BY RunType DEF Others

LEMMA OutcomeIs ==
  ASSUME TypeInv, NEW r \in Runs, NEW t \in Tasks, NEW s \in Statuses
  PROVE  /\ Outcome(r, t, s) \in [Runs -> RunStates]
         /\ \A q \in Runs \ {r} : Outcome(r, t, s)[q] = run[q]
         /\ Outcome(r, t, s)[r].pc = run[r].pc
         /\ Outcome(r, t, s)[r].raised = run[r].raised
         /\ Outcome(r, t, s)[r].mem = [run[r].mem EXCEPT ![t] = s]
         /\ Outcome(r, t, s)[r].mine = run[r].mine \cup {t}
         /\ Outcome(r, t, s)[r].todo = run[r].todo \ {t}
<1> DEFINE mem == [run[r].mem EXCEPT ![t] = s]
           mine == run[r].mine \cup {t}
           todo == run[r].todo \ {t}
           d == [run[r] EXCEPT !.mem = mem, !.mine = mine, !.todo = todo]
<1>1. /\ run \in [Runs -> RunStates] /\ run[r] \in RunStates
      /\ mem \in [Tasks -> Statuses] /\ mine \in SUBSET Tasks /\ todo \in SUBSET Tasks
  BY RunType
<1>2. Outcome(r, t, s) = [run EXCEPT ![r] = d]
  BY DEF Outcome
<1> HIDE DEF mem, mine, todo
<1>3. /\ d \in RunStates /\ d.pc = run[r].pc /\ d.raised = run[r].raised
      /\ d.mem = mem /\ d.mine = mine /\ d.todo = todo
  BY <1>1 DEF RunStates
<1> HIDE DEF d
<1>4. /\ Outcome(r, t, s) \in [Runs -> RunStates] /\ Outcome(r, t, s)[r] = d
      /\ \A q \in Runs \ {r} : Outcome(r, t, s)[q] = run[q]
  BY <1>1, <1>2, <1>3
<1> QED
  BY <1>3, <1>4 DEF mem, mine, todo

\* What Block does to the run.
Blocks(r, t) ==
    run' = [run EXCEPT ![r].mem[t] = "blocked", ![r].mine = @ \cup {t},
                       ![r].todo = {u \in @ : u > t}, ![r].changed = TRUE]

LEMMA BlockIs ==
  ASSUME TypeInv, NEW r \in Runs, NEW t \in Tasks, Blocks(r, t)
  PROVE  /\ Others(r)
         /\ run'[r].pc = run[r].pc /\ run'[r].raised = run[r].raised
         /\ run'[r].mem = [run[r].mem EXCEPT ![t] = "blocked"]
         /\ run'[r].mine = run[r].mine \cup {t}
         /\ run'[r].changed
<1> DEFINE mem == [run[r].mem EXCEPT ![t] = "blocked"]
           mine == run[r].mine \cup {t}
           todo == {u \in run[r].todo : u > t}
           d == [run[r] EXCEPT !.mem = mem, !.mine = mine, !.todo = todo, !.changed = TRUE]
<1>1. /\ run \in [Runs -> RunStates] /\ run[r] \in RunStates
      /\ mem \in [Tasks -> Statuses] /\ mine \in SUBSET Tasks /\ todo \in SUBSET Tasks
  BY RunType DEF Statuses
<1>2. run' = [run EXCEPT ![r] = d]
  BY DEF Blocks
<1> HIDE DEF mem, mine, todo
<1>3. /\ d \in RunStates /\ d.pc = run[r].pc /\ d.raised = run[r].raised
      /\ d.mem = mem /\ d.mine = mine /\ d.changed
  BY <1>1 DEF RunStates
<1> HIDE DEF d
<1>4. Others(r) /\ run'[r] = d
  BY <1>1, <1>2, <1>3 DEF Others
<1> QED
  BY <1>3, <1>4 DEF mem, mine, todo

LEMMA PassIs ==
  ASSUME TypeInv, NEW r \in Runs, PassEnds(r)
  PROVE  /\ Others(r)
         /\ run'[r].pc = IF Ready(r) # {} THEN "launch"
                          ELSE IF run[r].changed THEN "scan" ELSE "verdict"
         /\ run'[r].todo = IF Ready(r) # {} THEN Ready(r) ELSE Tasks
         /\ ~run'[r].changed /\ run'[r].raised = run[r].raised
         /\ run'[r].mem = run[r].mem /\ run'[r].mine = run[r].mine
<1> DEFINE pc == IF Ready(r) # {} THEN "launch" ELSE IF run[r].changed THEN "scan" ELSE "verdict"
           todo == IF Ready(r) # {} THEN Ready(r) ELSE Tasks
           d == [run[r] EXCEPT !.pc = pc, !.todo = todo, !.changed = FALSE]
<1>1. /\ run \in [Runs -> RunStates] /\ run[r] \in RunStates
      /\ pc \in {"launch", "scan", "verdict"} /\ todo \in SUBSET Tasks
  BY RunType DEF Ready
<1>2. run' = [run EXCEPT ![r] = d]
  BY DEF PassEnds
<1> HIDE DEF pc, todo
<1>3. /\ d \in RunStates /\ d.pc = pc /\ d.todo = todo /\ ~d.changed
      /\ d.raised = run[r].raised /\ d.mem = run[r].mem /\ d.mine = run[r].mine
  BY <1>1 DEF RunStates
<1> HIDE DEF d
<1>4. Others(r) /\ run'[r] = d
  BY <1>1, <1>2, <1>3 DEF Others
<1> QED
  BY <1>3, <1>4 DEF pc, todo

LEMMA LaunchIs ==
  ASSUME TypeInv, NEW r \in Runs, run' = [run EXCEPT ![r].pc = "turn"]
  PROVE  /\ Others(r)
         /\ run'[r].pc = "turn" /\ run'[r].todo = run[r].todo /\ run'[r].raised = run[r].raised
         /\ run'[r].mem = run[r].mem /\ run'[r].mine = run[r].mine
<1> DEFINE d == [run[r] EXCEPT !.pc = "turn"]
<1>1. run \in [Runs -> RunStates] /\ run[r] \in RunStates
  BY RunType
<1>2. run' = [run EXCEPT ![r] = d]
  OBVIOUS
<1>3. /\ d \in RunStates /\ d.pc = "turn" /\ d.todo = run[r].todo
      /\ d.raised = run[r].raised /\ d.mem = run[r].mem /\ d.mine = run[r].mine
  BY <1>1 DEF RunStates
<1> HIDE DEF d
<1> QED
  BY <1>1, <1>2, <1>3 DEF Others

\* The end of a task's turn, and an exception, on top of another change.
LEMMA AfterTaskIs ==
  ASSUME NEW r \in Runs, NEW next \in [Runs -> RunStates], run' = AfterTask(r, next),
         \A q \in Runs \ {r} : next[q] = run[q]
  PROVE  /\ Others(r)
         /\ run'[r].pc = IF next[r].todo = {} THEN "scan" ELSE "launch"
         /\ run'[r].todo = IF next[r].todo = {} THEN Tasks ELSE next[r].todo
         /\ run'[r].raised = next[r].raised
         /\ run'[r].mem = next[r].mem /\ run'[r].mine = next[r].mine
<1> DEFINE pc == IF next[r].todo = {} THEN "scan" ELSE "launch"
           todo == IF next[r].todo = {} THEN Tasks ELSE next[r].todo
           d == [next[r] EXCEPT !.pc = pc, !.todo = todo]
<1>1. next[r] \in RunStates /\ pc \in {"scan", "launch"} /\ todo \in SUBSET Tasks
  BY DEF RunStates
<1>2. run' = [next EXCEPT ![r] = d]
  BY DEF AfterTask
<1> HIDE DEF pc, todo
<1>3. /\ d \in RunStates /\ d.pc = pc /\ d.todo = todo
      /\ d.raised = next[r].raised /\ d.mem = next[r].mem /\ d.mine = next[r].mine
  BY <1>1 DEF RunStates
<1> HIDE DEF d
<1>4. Others(r) /\ run'[r] = d
  BY <1>1, <1>2, <1>3 DEF Others
<1> QED
  BY <1>3, <1>4 DEF pc, todo

LEMMA RaisedIs ==
  ASSUME NEW r \in Runs, NEW next \in [Runs -> RunStates], run' = Raised(r, next),
         \A q \in Runs \ {r} : next[q] = run[q]
  PROVE  Others(r) /\ run'[r].pc = "verdict" /\ run'[r].raised
<1> DEFINE d == [next[r] EXCEPT !.pc = "verdict", !.raised = TRUE]
<1>1. next[r] \in RunStates
  OBVIOUS
<1>2. run' = [next EXCEPT ![r] = d]
  BY DEF Raised
<1>3. d \in RunStates /\ d.pc = "verdict" /\ d.raised
  BY <1>1 DEF RunStates
<1> HIDE DEF d
<1>4. Others(r) /\ run'[r] = d
  BY <1>1, <1>2, <1>3 DEF Others
<1> QED
  BY <1>3, <1>4

LEMMA CreatedIs ==
  ASSUME TypeInv, NEW r \in Runs, NEW t \in Tasks,
         run' = [run EXCEPT ![r].todo = @ \ {t},
                            ![r].pc = IF run[r].todo = {t} THEN "read" ELSE "create"]
  PROVE  /\ Others(r)
         /\ run'[r].pc = IF run[r].todo = {t} THEN "read" ELSE "create"
         /\ run'[r].todo = run[r].todo \ {t} /\ run'[r].batch = run[r].batch
         /\ run'[r].raised = run[r].raised
<1> DEFINE pc == IF run[r].todo = {t} THEN "read" ELSE "create"
           todo == run[r].todo \ {t}
           d == [run[r] EXCEPT !.pc = pc, !.todo = todo]
<1>1. /\ run \in [Runs -> RunStates] /\ run[r] \in RunStates
      /\ pc \in {"read", "create"} /\ todo \in SUBSET Tasks
  BY RunType
<1>2. run' = [run EXCEPT ![r] = d]
  OBVIOUS
<1> HIDE DEF pc, todo
<1>3. /\ d \in RunStates /\ d.pc = pc /\ d.todo = todo
      /\ d.raised = run[r].raised /\ d.batch = run[r].batch
  BY <1>1 DEF RunStates
<1> HIDE DEF d
<1>4. Others(r) /\ run'[r] = d
  BY <1>1, <1>2, <1>3 DEF Others
<1> QED
  BY <1>3, <1>4 DEF pc, todo

\* A row's status is written; the rest of the table stays.
LEMMA StatusIs ==
  ASSUME TypeInv, NEW t \in Tasks, NEW s \in Statuses, row' = [row EXCEPT ![t].status = s]
  PROVE  /\ row' \in [Tasks -> Rows]
         /\ row'[t].status = s
         /\ \A u \in Tasks : row'[u].deps = row[u].deps /\ row'[u].by = row[u].by
         /\ \A u \in Tasks \ {t} : row'[u] = row[u]
<1> DEFINE d == [row[t] EXCEPT !.status = s]
<1>1. row \in [Tasks -> Rows] /\ row[t] \in Rows
  BY DEF TypeInv, TypeOK
<1>2. row' = [row EXCEPT ![t] = d]
  OBVIOUS
<1>3. d \in Rows /\ d.status = s /\ d.deps = row[t].deps /\ d.by = row[t].by
  BY <1>1 DEF Rows
<1> HIDE DEF d
<1> QED
  BY <1>1, <1>2, <1>3

-----------------------------------------------------------------------------
(* What every step does to the runs and to the table. *)

RunOK(r) ==
    /\ Others(r)
    /\ run'[r].pc = "create" => run'[r].todo \subseteq run'[r].batch
                                /\ run'[r].batch \subseteq Tasks \ EngineTasks
    /\ run'[r].pc \in Working \/ (run'[r].pc = "create" /\ run'[r].todo # run'[r].batch)
          => \/ run[r].pc \in Working
             \/ \E t \in Tasks : Exists(t)' /\ row'[t].by = r

RowOK ==
    /\ row' \in [Tasks -> Rows]
    /\ \A t \in Tasks : /\ t \in EngineTasks => row'[t].by = Engine
                        /\ ~Exists(t)' => row'[t].deps = {}
                        /\ Exists(t) => Exists(t)' /\ row'[t].by = row[t].by

LEMMA SameRows ==
  ASSUME TypeInv, UNCHANGED row
  PROVE  RowOK
  BY DEF TypeInv, TypeOK, BatchInv, RowOK, Exists

LEMMA StatusOK ==
  ASSUME TypeInv, NEW t \in Tasks, NEW s \in Statuses \ {"none"}, row' = [row EXCEPT ![t].status = s]
  PROVE  RowOK
<1>1. /\ row' \in [Tasks -> Rows]
      /\ row'[t].status = s
      /\ \A u \in Tasks : row'[u].deps = row[u].deps /\ row'[u].by = row[u].by
      /\ \A u \in Tasks \ {t} : row'[u] = row[u]
  BY StatusIs
<1> QED
  BY <1>1 DEF TypeInv, BatchInv, RowOK, Exists

LEMMA RequestOK ==
  ASSUME TypeInv, NEW r \in Runs, NEW batch \in SUBSET (Tasks \ EngineTasks), Request(r, batch)
  PROVE  /\ RunOK(r) /\ run[r].pc = "idle"
         /\ \/ run'[r].pc = "refused"
            \/ run'[r].pc = "create" /\ run'[r].batch = batch /\ run'[r].todo = batch
         /\ UNCHANGED <<deps, row, engine, takers, heard, verdict, progress>>
<1>1. /\ run[r].pc = "idle"
      /\ UNCHANGED <<deps, row, engine, takers, heard, verdict, progress>>
  BY DEF Request
<1>2. CASE _has_cycle(batch)
  <2>1. run' = [run EXCEPT ![r] = Without("refused", FALSE)]
    BY <1>2 DEF Request
  <2>2. Others(r) /\ run'[r] = Without("refused", FALSE)
    BY <2>1, RunIs, NothingType
  <2>3. run'[r].pc = "refused"
    BY <2>2, NothingType
  <2> QED
    BY <1>1, <2>2, <2>3 DEF RunOK, Working
<1>3. CASE ~_has_cycle(batch)
  <2> DEFINE d == [Without("create", FALSE) EXCEPT !.batch = batch, !.todo = batch]
  <2>1. run' = [run EXCEPT ![r] = d]
    BY <1>3 DEF Request
  <2>2. d \in RunStates /\ d.pc = "create" /\ d.batch = batch /\ d.todo = batch
    BY NewRunType
  <2> HIDE DEF d
  <2>3. Others(r) /\ run'[r] = d
    BY <2>1, <2>2, RunIs
  <2> QED
    BY <1>1, <2>2, <2>3 DEF RunOK, Working
<1> QED
  BY <1>2, <1>3

LEMMA CreateRowOK ==
  ASSUME TypeInv, NEW r \in Runs, CreateRow(r)
  PROVE  /\ RunOK(r) /\ RowOK /\ run[r].pc = "create"
         /\ UNCHANGED <<deps, engine, takers, heard, verdict, progress>>
         /\ \/ run'[r].pc = "refused" /\ UNCHANGED row
            \/ \E t \in run[r].todo :
                  /\ ~Exists(t) /\ row' = [row EXCEPT ![t] = NewRow(r, t)]
                  /\ Exists(t)' /\ row'[t].by = r /\ row'[t].status = "pending"
                  /\ row'[t].deps \subseteq run[r].batch \cup {Unknown}
                  /\ \A u \in Tasks \ {t} : row'[u] = row[u]
                  /\ run'[r].pc = IF run[r].todo = {t} THEN "read" ELSE "create"
                  /\ run'[r].todo = run[r].todo \ {t} /\ run'[r].batch = run[r].batch
<1>1. /\ run[r].pc = "create"
      /\ UNCHANGED <<deps, engine, takers, heard, verdict, progress>>
  BY DEF CreateRow
<1>2. run[r].todo \subseteq run[r].batch /\ run[r].batch \subseteq Tasks \ EngineTasks
  BY <1>1 DEF TypeInv, BatchInv
<1>3. PICK t \in run[r].todo :
       IF Exists(t)
         THEN /\ run' = [run EXCEPT ![r] = Without("refused", FALSE)]
              /\ UNCHANGED row
         ELSE /\ row' = [row EXCEPT ![t] = NewRow(r, t)]
              /\ run' = [run EXCEPT ![r].todo = @ \ {t},
                           ![r].pc = IF run[r].todo = {t} THEN "read" ELSE "create"]
  BY DEF CreateRow
<1>4. t \in Tasks /\ t \notin EngineTasks
  BY <1>2
<1>5. CASE Exists(t)
  <2>1. Others(r) /\ run'[r] = Without("refused", FALSE) /\ UNCHANGED row
    BY <1>3, <1>5, RunIs, NothingType
  <2>2. run'[r].pc = "refused"
    BY <2>1, NothingType
  <2> QED
    BY <1>1, <2>1, <2>2, SameRows DEF RunOK, Working
<1>6. CASE ~Exists(t)
  <2>1. /\ row' = [row EXCEPT ![t] = NewRow(r, t)]
        /\ run' = [run EXCEPT ![r].todo = @ \ {t},
                           ![r].pc = IF run[r].todo = {t} THEN "read" ELSE "create"]
    BY <1>3, <1>6
  <2>2. /\ Others(r)
        /\ run'[r].pc = IF run[r].todo = {t} THEN "read" ELSE "create"
        /\ run'[r].todo = run[r].todo \ {t} /\ run'[r].batch = run[r].batch
    BY <1>4, <2>1, CreatedIs
  <2>3. /\ NewRow(r, t) \in Rows /\ NewRow(r, t).by = r /\ NewRow(r, t).status = "pending"
        /\ NewRow(r, t).deps \subseteq run[r].batch \cup {Unknown}
    BY <1>2 DEF NewRow, Rows, Statuses
  <2>4. row \in [Tasks -> Rows]
    BY RunType
  <2>5. row' \in [Tasks -> Rows] /\ row'[t] = NewRow(r, t) /\ \A u \in Tasks \ {t} : row'[u] = row[u]
    BY <1>4, <2>1, <2>3, <2>4
  <2>6. Exists(t)' /\ row'[t].by = r /\ row'[t].status = "pending"
    BY <2>3, <2>5 DEF Exists
  <2>7. RowOK
    BY <1>4, <1>6, <2>5, <2>6 DEF RowOK, Exists, TypeInv, BatchInv
  <2>8. RunOK(r)
    BY <1>2, <1>4, <2>2, <2>6 DEF RunOK
  <2> QED
    BY <1>1, <1>6, <2>1, <2>2, <2>3, <2>5, <2>6, <2>7, <2>8
<1> QED
  BY <1>5, <1>6

\* The steps that put a run somewhere else and leave the rows.
LEMMA WithoutOK ==
  ASSUME TypeInv, NEW r \in Runs, NEW pc \in {"refused", "over"}, NEW raised \in BOOLEAN,
         run' = [run EXCEPT ![r] = Without(pc, raised)]
  PROVE  RunOK(r) /\ run'[r].pc = pc /\ run'[r].raised = raised
<1>1. /\ Without(pc, raised) \in RunStates
      /\ Without(pc, raised).pc = pc /\ Without(pc, raised).raised = raised
  BY NothingType
<1> DEFINE d == Without(pc, raised)
<1> HIDE DEF d
<1>2. Others(r) /\ run'[r] = d
  BY <1>1, RunIs DEF d
<1> QED
  BY <1>1, <1>2 DEF RunOK, Working, d

LEMMA ReadRowsOK ==
  ASSUME TypeInv, NEW r \in Runs, ReadRows(r)
  PROVE  /\ RunOK(r) /\ run[r].pc = "read"
         /\ UNCHANGED <<deps, row, engine, takers, heard, verdict, progress>>
         /\ run'[r].pc = "scan" /\ ~run'[r].raised /\ run'[r].mine = {} /\ run'[r].todo = Tasks
         /\ \A t \in Tasks : run'[r].mem[t] = row[t].status
<1> DEFINE mem == [t \in Tasks |-> row[t].status]
           d == [Without("scan", FALSE) EXCEPT !.mem = mem, !.todo = Tasks]
<1>1. mem \in [Tasks -> Statuses] /\ \A t \in Tasks : mem[t] = row[t].status
  BY RunType DEF Rows
<1>2. /\ run' = [run EXCEPT ![r] = d] /\ run[r].pc = "read"
      /\ UNCHANGED <<deps, row, engine, takers, heard, verdict, progress>>
  BY DEF ReadRows
<1> HIDE DEF mem
<1>3. d \in RunStates /\ d.pc = "scan" /\ ~d.raised /\ d.mem = mem /\ d.mine = {} /\ d.todo = Tasks
  BY <1>1, ReadRunType
<1> HIDE DEF d
<1>4. Others(r) /\ run'[r] = d
  BY <1>2, <1>3, RunIs
<1> QED
  BY <1>1, <1>2, <1>3, <1>4 DEF RunOK, Working

LEMMA BlockOK ==
  ASSUME TypeInv, NEW r \in Runs, Block(r)
  PROVE  /\ RunOK(r) /\ RowOK /\ run[r].pc = "scan"
         /\ UNCHANGED <<deps, engine, takers, heard, verdict, progress>>
         /\ run'[r].pc = "scan" /\ run'[r].raised = run[r].raised /\ run'[r].changed
         /\ \E t \in Doomed(r) :
               /\ run'[r].mem = [run[r].mem EXCEPT ![t] = "blocked"]
               /\ run'[r].mine = run[r].mine \cup {t}
               /\ row' = [row EXCEPT ![t].status = "blocked"]
<1>1. PICK t \in Doomed(r) : Blocks(r, t) /\ row' = [row EXCEPT ![t].status = "blocked"]
  BY DEF Block, Blocks
<1>2. t \in Tasks /\ "blocked" \in Statuses \ {"none"}
  BY RunType DEF Doomed, Statuses
<1>3. run[r].pc = "scan" /\ UNCHANGED <<deps, engine, takers, heard, verdict, progress>>
  BY DEF Block
<1>4. /\ Others(r)
      /\ run'[r].pc = run[r].pc /\ run'[r].raised = run[r].raised
      /\ run'[r].mem = [run[r].mem EXCEPT ![t] = "blocked"]
      /\ run'[r].mine = run[r].mine \cup {t}
      /\ run'[r].changed
  BY <1>1, <1>2, BlockIs
<1>5. RowOK
  BY <1>1, <1>2, StatusOK
<1>6. RunOK(r)
  BY <1>3, <1>4 DEF RunOK, Working
<1> QED
  BY <1>1, <1>3, <1>4, <1>5, <1>6

LEMMA PassOK ==
  ASSUME TypeInv, NEW r \in Runs, PassEnds(r)
  PROVE  /\ RunOK(r) /\ run[r].pc = "scan" /\ Doomed(r) = {}
         /\ UNCHANGED <<deps, row, engine, takers, heard, verdict, progress>>
<1>1. /\ run[r].pc = "scan" /\ Doomed(r) = {}
      /\ UNCHANGED <<deps, row, engine, takers, heard, verdict, progress>>
  BY DEF PassEnds
<1>2. Others(r)
  BY PassIs
<1>3. run'[r].pc \in {"launch", "scan", "verdict"}
  BY PassIs
<1> QED
  BY <1>1, <1>2, <1>3 DEF RunOK, Working

LEMMA LaunchOK ==
  ASSUME TypeInv, NEW r \in Runs, Launch(r)
  PROVE  /\ RunOK(r) /\ run[r].pc = "launch"
         /\ UNCHANGED <<deps, row, engine, verdict, progress>>
         /\ run'[r].pc = "turn" /\ run'[r].todo = run[r].todo /\ run'[r].raised = run[r].raised
         /\ run'[r].mem = run[r].mem /\ run'[r].mine = run[r].mine
         /\ \E t \in run[r].todo :
               /\ takers' = [takers EXCEPT ![t] = @ \cup {r}]
               /\ heard' = [heard EXCEPT ![t] = {d \in row[t].deps \ {Unknown} :
                                                   row[d].status = "done"}]
<1>1. /\ run' = [run EXCEPT ![r].pc = "turn"] /\ run[r].pc = "launch"
      /\ UNCHANGED <<deps, row, engine, verdict, progress>>
  BY DEF Launch
<1>2. \E t \in run[r].todo :
        /\ takers' = [takers EXCEPT ![t] = @ \cup {r}]
        /\ heard' = [heard EXCEPT ![t] = {d \in row[t].deps \ {Unknown} : row[d].status = "done"}]
  BY DEF Launch
<1>3. /\ Others(r)
      /\ run'[r].pc = "turn" /\ run'[r].todo = run[r].todo /\ run'[r].raised = run[r].raised
      /\ run'[r].mem = run[r].mem /\ run'[r].mine = run[r].mine
  BY <1>1, LaunchIs
<1>4. RunOK(r)
  BY <1>1, <1>3 DEF RunOK, Working
<1> QED
  BY <1>1, <1>2, <1>3, <1>4

LEMMA RecordOK ==
  ASSUME TypeInv, NEW r \in Runs, Record(r)
  PROVE  /\ RunOK(r) /\ RowOK /\ run[r].pc = "turn"
         /\ UNCHANGED <<deps, engine, takers, heard, verdict, progress>>
         /\ run'[r].raised = run[r].raised
         /\ \E t \in run[r].todo, s \in {"done", "failed"} :
               /\ run'[r].mem = [run[r].mem EXCEPT ![t] = s]
               /\ run'[r].mine = run[r].mine \cup {t}
               /\ row' = [row EXCEPT ![t].status = s]
               /\ \/ run'[r].pc = "scan" /\ run'[r].todo = Tasks
                  \/ run'[r].pc = "launch" /\ run'[r].todo = run[r].todo \ {t}
<1>1. PICK t \in run[r].todo, s \in {"done", "failed"} :
        run' = AfterTask(r, Outcome(r, t, s)) /\ row' = [row EXCEPT ![t].status = s]
  BY DEF Record
<1>2. t \in Tasks /\ s \in Statuses \ {"none"}
  BY RunType DEF Statuses
<1>3. run[r].pc = "turn" /\ UNCHANGED <<deps, engine, takers, heard, verdict, progress>>
  BY DEF Record
<1> DEFINE next == Outcome(r, t, s)
<1>4. /\ next \in [Runs -> RunStates]
      /\ \A q \in Runs \ {r} : next[q] = run[q]
      /\ next[r].raised = run[r].raised
      /\ next[r].mem = [run[r].mem EXCEPT ![t] = s]
      /\ next[r].mine = run[r].mine \cup {t}
      /\ next[r].todo = run[r].todo \ {t}
  BY <1>2, OutcomeIs
<1>5. run' = AfterTask(r, next)
  BY <1>1
<1> HIDE DEF next
<1>6. /\ Others(r)
      /\ run'[r].pc = IF next[r].todo = {} THEN "scan" ELSE "launch"
      /\ run'[r].todo = IF next[r].todo = {} THEN Tasks ELSE next[r].todo
      /\ run'[r].raised = next[r].raised
      /\ run'[r].mem = next[r].mem /\ run'[r].mine = next[r].mine
  BY <1>4, <1>5, AfterTaskIs
<1>7. RowOK
  BY <1>1, <1>2, StatusOK
<1>8. RunOK(r)
  BY <1>3, <1>6 DEF RunOK, Working
<1> QED
  BY <1>1, <1>3, <1>4, <1>6, <1>7, <1>8

LEMMA TurnRaisesOK ==
  ASSUME TypeInv, NEW r \in Runs, TurnRaises(r)
  PROVE  /\ RunOK(r) /\ run[r].pc \in {"launch", "turn"} /\ run'[r].pc = "verdict" /\ run'[r].raised
         /\ UNCHANGED <<deps, row, engine, takers, heard, verdict, progress>>
<1>1. /\ run[r].pc \in {"launch", "turn"} /\ run' = Raised(r, run)
      /\ UNCHANGED <<deps, row, engine, takers, heard, verdict, progress>>
  BY DEF TurnRaises
<1>2. Others(r) /\ run'[r].pc = "verdict" /\ run'[r].raised
  BY <1>1, RunType, RaisedIs
<1> QED
  BY <1>1, <1>2 DEF RunOK, Working

LEMMA WriteRaisesOK ==
  ASSUME TypeInv, NEW r \in Runs, WriteRaises(r)
  PROVE  /\ RunOK(r) /\ RowOK /\ run[r].pc \in {"scan", "turn"}
         /\ run'[r].pc = "verdict" /\ run'[r].raised
         /\ UNCHANGED <<deps, engine, takers, heard, verdict, progress>>
         /\ \A t \in Tasks : row'[t].deps = row[t].deps
<1>1. PICK t \in Tasks, s \in {"done", "failed", "blocked"} :
       /\ \/ run[r].pc = "scan" /\ First(Doomed(r), t) /\ s = "blocked"
          \/ run[r].pc = "turn" /\ First(run[r].todo, t) /\ s # "blocked"
       /\ run' = Raised(r, Outcome(r, t, s))
       /\ row' \in {row, [row EXCEPT ![t].status = s]}
  BY DEF WriteRaises
<1>2. UNCHANGED <<deps, engine, takers, heard, verdict, progress>>
  BY DEF WriteRaises
<1>3. s \in Statuses \ {"none"} /\ s \in Statuses
  BY DEF Statuses
<1> DEFINE next == Outcome(r, t, s)
<1>4. next \in [Runs -> RunStates] /\ \A q \in Runs \ {r} : next[q] = run[q]
  <2>1. t \in Tasks /\ s \in Statuses
    BY <1>3
  <2>2. /\ next \in [Runs -> RunStates]
        /\ \A q \in Runs \ {r} : next[q] = run[q]
        /\ next[r].pc = run[r].pc
        /\ next[r].raised = run[r].raised
        /\ next[r].mem = [run[r].mem EXCEPT ![t] = s]
        /\ next[r].mine = run[r].mine \cup {t}
        /\ next[r].todo = run[r].todo \ {t}
    BY <2>1, OutcomeIs
  <2> QED
    BY <2>2
<1>5. run' = Raised(r, next)
  BY <1>1
<1> HIDE DEF next
<1>6. Others(r) /\ run'[r].pc = "verdict" /\ run'[r].raised
  BY <1>4, <1>5, RaisedIs
<1>7. RowOK /\ \A u \in Tasks : row'[u].deps = row[u].deps
  BY <1>1, <1>3, StatusOK, StatusIs, SameRows
<1> QED
  BY <1>1, <1>2, <1>6, <1>7 DEF RunOK, Working

LEMMA PublishOK ==
  ASSUME TypeInv, NEW r \in Runs, Publish(r)
  PROVE  /\ RunOK(r) /\ run[r].pc = "verdict" /\ run'[r].pc = "over"
         /\ run'[r].raised = run[r].raised
         /\ verdict' = verdict_of(r) /\ progress' = Cardinality(Settled(r, "done"))
         /\ UNCHANGED <<deps, row, engine, takers, heard>>
<1>1. /\ run[r].pc = "verdict" /\ run' = [run EXCEPT ![r] = Without("over", run[r].raised)]
      /\ verdict' = verdict_of(r) /\ progress' = Cardinality(Settled(r, "done"))
      /\ UNCHANGED <<deps, row, engine, takers, heard>>
  BY DEF Publish
<1>2. run[r].raised \in BOOLEAN
  BY RunType DEF RunStates
<1> QED
  BY <1>1, <1>2, WithoutOK

LEMMA PublishRaisesOK ==
  ASSUME TypeInv, NEW r \in Runs, PublishRaises(r)
  PROVE  /\ RunOK(r) /\ run[r].pc = "verdict" /\ run'[r].pc = "over" /\ run'[r].raised
         /\ \/ verdict' = verdict_of(r) /\ progress' = Cardinality(Settled(r, "done"))
            \/ UNCHANGED <<verdict, progress>>
         /\ UNCHANGED <<deps, row, engine, takers, heard>>
<1>1. /\ run[r].pc = "verdict" /\ run' = [run EXCEPT ![r] = Without("over", TRUE)]
      /\ \/ verdict' = verdict_of(r) /\ progress' = Cardinality(Settled(r, "done"))
         \/ UNCHANGED <<verdict, progress>>
      /\ UNCHANGED <<deps, row, engine, takers, heard>>
  BY DEF PublishRaises
<1> QED
  BY <1>1, WithoutOK

-----------------------------------------------------------------------------
(* POST /send. *)

\* The scheduler writes rows of its own namespace, and those of others not at all.
EngineRows ==
    /\ RowOK /\ UNCHANGED <<deps, run, heard, verdict, progress>>
    /\ \A t \in Tasks \ EngineTasks : row'[t] = row[t]
    /\ \A t \in EngineTasks : ~Exists(t)' => row'[t] = row[t]
    /\ \A t \in Tasks : takers'[t] = takers[t] \/ (t \in EngineTasks /\ takers'[t] # {})

LEMMA UpdateIs ==
  ASSUME TypeInv, NEW t \in EngineTasks, NEW s \in Statuses \ {"none"}, Update(t, s)
  PROVE  /\ RowOK
         /\ \A u \in Tasks \ EngineTasks : row'[u] = row[u]
         /\ \A u \in EngineTasks : ~Exists(u)' => row'[u] = row[u]
<1>1. t \in Tasks
  BY RunAssumption DEF RunAssumption
<1>2. CASE ~Exists(t)
  <2>1. row' = row
    BY <1>2 DEF Update
  <2> QED
    BY <2>1, SameRows
<1>3. CASE Exists(t)
  <2>1. row' = [row EXCEPT ![t].status = s]
    BY <1>3 DEF Update
  <2>2. /\ row'[t].status = s
        /\ \A u \in Tasks \ {t} : row'[u] = row[u]
    BY <1>1, <2>1, StatusIs
  <2> QED
    BY <1>1, <2>1, <2>2, StatusOK, RunAssumption DEF RunAssumption, Exists
<1> QED
  BY <1>2, <1>3

LEMMA EngineStep ==
  ASSUME TypeInv,
         \/ Send \/ _materialise_plan
         \/ \E t \in EngineTasks : EngineTakes(t) \/ EngineEnds(t)
  PROVE  /\ EngineRows
         /\ takers' \in [Tasks -> SUBSET (Runs \cup {Engine})]
         /\ engine' \in [pc : {"idle", "planning", "running"}, busy : SUBSET EngineTasks]
<1>t. /\ engine \in [pc : {"idle", "planning", "running"}, busy : SUBSET EngineTasks]
      /\ takers \in [Tasks -> SUBSET (Runs \cup {Engine})]
      /\ row \in [Tasks -> Rows] /\ EngineTasks \subseteq Tasks
  BY RunAssumption DEF RunAssumption, TypeInv, TypeOK
<1>1. CASE Send
  <2>1. /\ UNCHANGED <<deps, row, run, takers, heard, verdict, progress>>
        /\ engine' = [engine EXCEPT !.pc = "planning"]
    BY <1>1 DEF Send
  <2> QED
    BY <1>t, <2>1, SameRows DEF EngineRows
<1>2. CASE _materialise_plan
  <2>1. /\ UNCHANGED <<deps, run, takers, heard, verdict, progress>>
        /\ engine' = [engine EXCEPT !.pc = "running"]
    BY <1>2 DEF _materialise_plan
  <2>2. PICK written \in SUBSET EngineTasks :
          row' = [t \in Tasks |->
                 IF t \in written
                   THEN [status |-> "pending", deps |-> deps[t] \cap EngineTasks, by |-> Engine]
                   ELSE row[t]]
    BY <1>2 DEF _materialise_plan
  <2>3. \A t \in Tasks : [status |-> "pending", deps |-> deps[t] \cap EngineTasks, by |-> Engine] \in Rows
    BY <1>t DEF Rows, Statuses
  <2>4. row' \in [Tasks -> Rows]
    BY <1>t, <2>2, <2>3
  <2>5. \A t \in Tasks : /\ t \in written => row'[t].by = Engine /\ row'[t].status = "pending"
                         /\ t \notin written => row'[t] = row[t]
    BY <2>2
  <2>6. RowOK
    BY <1>t, <2>4, <2>5 DEF RowOK, Exists, TypeInv, BatchInv
  <2> QED
    BY <1>t, <2>1, <2>5, <2>6 DEF EngineRows, Exists
<1>3. ASSUME NEW t \in EngineTasks, EngineTakes(t)
      PROVE  /\ EngineRows
             /\ takers' \in [Tasks -> SUBSET (Runs \cup {Engine})]
             /\ engine' \in [pc : {"idle", "planning", "running"}, busy : SUBSET EngineTasks]
  <2>1. /\ takers' = [takers EXCEPT ![t] = @ \cup {Engine}]
        /\ engine' = [engine EXCEPT !.busy = @ \cup {t}]
        /\ Update(t, "running")
        /\ UNCHANGED <<deps, run, heard, verdict, progress>>
    BY <1>3 DEF EngineTakes
  <2>2. "running" \in Statuses \ {"none"}
    BY DEF Statuses
  <2>3. \A u \in Tasks : takers'[u] = takers[u] \/ (u \in EngineTasks /\ takers'[u] # {})
    BY <1>t, <2>1
  <2>4. takers' \in [Tasks -> SUBSET (Runs \cup {Engine})]
    BY <1>t, <2>1
  <2>5. engine' \in [pc : {"idle", "planning", "running"}, busy : SUBSET EngineTasks]
    BY <1>t, <2>1
  <2> QED
    BY <2>1, <2>2, <2>3, <2>4, <2>5, UpdateIs DEF EngineRows
<1>4. ASSUME NEW t \in EngineTasks, EngineEnds(t)
      PROVE  /\ EngineRows
             /\ takers' \in [Tasks -> SUBSET (Runs \cup {Engine})]
             /\ engine' \in [pc : {"idle", "planning", "running"}, busy : SUBSET EngineTasks]
  <2>1. PICK s \in {"done", "failed"} : Update(t, s)
    BY <1>4 DEF EngineEnds
  <2>2. /\ UNCHANGED <<deps, run, takers, heard, verdict, progress>>
        /\ engine' = [engine EXCEPT !.busy = @ \ {t}]
    BY <1>4 DEF EngineEnds
  <2>3. s \in Statuses \ {"none"}
    BY DEF Statuses
  <2>4. engine' \in [pc : {"idle", "planning", "running"}, busy : SUBSET EngineTasks]
    BY <1>t, <2>2
  <2> QED
    BY <1>t, <2>1, <2>2, <2>3, <2>4, UpdateIs DEF EngineRows
<1> QED
  BY <1>1, <1>2, <1>3, <1>4

-----------------------------------------------------------------------------
LEMMA TypeInit == Init => TypeInv
<1> SUFFICES ASSUME Init PROVE TypeInv
  OBVIOUS
<1>1. \A t \in Tasks : row[t] = [status |-> "none", deps |-> {}, by |-> Engine]
  BY DEF Init
<1>2. [status |-> "none", deps |-> {}, by |-> Engine] \in Rows
  BY DEF Rows, Statuses
<1>3. row \in [Tasks -> Rows]
  BY <1>2 DEF Init
<1>4. run \in [Runs -> RunStates] /\ \A r \in Runs : run[r].pc = "idle"
  <2>1. Without("idle", FALSE) \in RunStates /\ Without("idle", FALSE).pc = "idle"
    BY NothingType
  <2> QED
    BY <2>1 DEF Init
<1>5. BatchInv
  BY <1>1, <1>4 DEF BatchInv
<1>6. /\ engine \in [pc : {"idle", "planning", "running"}, busy : SUBSET EngineTasks]
      /\ takers \in [Tasks -> SUBSET (Runs \cup {Engine})]
      /\ heard \in [Tasks -> SUBSET Tasks]
      /\ verdict = "idle" /\ progress = 0 /\ deps \in Plans
  BY DEF Init
<1> QED
  BY <1>3, <1>4, <1>5, <1>6, RunAssumption DEF RunAssumption, TypeInv, TypeOK

\* The number of done tasks is a progress.
LEMMA ProgressType ==
  ASSUME TypeInv, NEW r \in Runs
  PROVE  Cardinality(Settled(r, "done")) \in 0..NumTasks
<1>1. IsFiniteSet(Tasks) /\ Cardinality(Tasks) = NumTasks
  BY FS_Interval, RunAssumption DEF RunAssumption, Tasks
<1>2. Settled(r, "done") \subseteq Tasks
  BY RunType DEF Settled
<1>3. Cardinality(Settled(r, "done")) <= NumTasks /\ IsFiniteSet(Settled(r, "done"))
  BY <1>1, <1>2, FS_Subset
<1>4. Cardinality(Settled(r, "done")) \in Nat
  BY <1>3, FS_CardinalityType
<1> QED
  BY <1>3, <1>4, RunAssumption DEF RunAssumption

LEMMA TypeFrame ==
  ASSUME TypeInv, UNCHANGED deps, RowOK, UNCHANGED run \/ \E r \in Runs : RunOK(r),
         engine' \in [pc : {"idle", "planning", "running"}, busy : SUBSET EngineTasks],
         takers' \in [Tasks -> SUBSET (Runs \cup {Engine})],
         heard' \in [Tasks -> SUBSET Tasks],
         verdict' \in {"idle", "done", "error", "degraded"}, progress' \in 0 .. NumTasks
  PROVE  TypeInv'
<1>1. run' \in [Runs -> RunStates]
  BY DEF RunOK, Others, TypeInv, TypeOK
<1>2. TypeOK'
  BY <1>1 DEF TypeInv, TypeOK, RowOK
<1>3. \A r \in Runs : run'[r].pc = "create" => run'[r].todo \subseteq run'[r].batch
                                                /\ run'[r].batch \subseteq Tasks \ EngineTasks
  BY DEF RunOK, Others, TypeInv, BatchInv
<1> QED
  BY <1>2, <1>3 DEF TypeInv, BatchInv, RowOK

\* In every step some run moves, or the scheduler writes its rows.
LEMMA StepOK ==
  ASSUME TypeInv, [Next]_vars
  PROVE  RowOK /\ UNCHANGED deps /\ (UNCHANGED run \/ \E r \in Runs : RunOK(r))
<1>1. CASE UNCHANGED vars
  BY <1>1, SameRows DEF vars
<1>2. CASE \/ Send \/ _materialise_plan
           \/ \E t \in EngineTasks : EngineTakes(t) \/ EngineEnds(t)
  BY <1>2, EngineStep DEF EngineRows
<1>3. ASSUME NEW r \in Runs, NEW batch \in SUBSET (Tasks \ EngineTasks), Request(r, batch)
      PROVE  RowOK /\ UNCHANGED deps /\ RunOK(r)
  BY <1>3, RequestOK, SameRows
<1>4. ASSUME NEW r \in Runs, RunStep(r)
      PROVE  RowOK /\ UNCHANGED deps /\ RunOK(r)
  <2>1. CASE CreateRow(r)
    BY <2>1, CreateRowOK
  <2>2. CASE CreateRaises(r) \/ ReadRaises(r)
    <3>1. /\ UNCHANGED <<deps, row>>
          /\ run' = [run EXCEPT ![r] = Without("refused", FALSE)]
                \/ run' = [run EXCEPT ![r] = Without("over", TRUE)]
      BY <2>2 DEF CreateRaises, ReadRaises
    <3> QED
      BY <3>1, WithoutOK, SameRows
  <2>3. CASE ReadRows(r)
    BY <2>3, ReadRowsOK, SameRows
  <2>4. CASE Block(r)
    BY <2>4, BlockOK
  <2>5. CASE PassEnds(r)
    BY <2>5, PassOK, SameRows
  <2>6. CASE Launch(r)
    BY <2>6, LaunchOK, SameRows
  <2>7. CASE Record(r)
    BY <2>7, RecordOK
  <2>8. CASE TurnRaises(r)
    BY <2>8, TurnRaisesOK, SameRows
  <2>9. CASE WriteRaises(r)
    BY <2>9, WriteRaisesOK
  <2>10. CASE Publish(r)
    BY <2>10, PublishOK, SameRows
  <2>11. CASE PublishRaises(r)
    BY <2>11, PublishRaisesOK, SameRows
  <2> QED
    BY <1>4, <2>1, <2>2, <2>3, <2>4, <2>5, <2>6, <2>7, <2>8, <2>9, <2>10, <2>11 DEF RunStep
<1> QED
  BY <1>1, <1>2, <1>3, <1>4 DEF Next

LEMMA TypeStep == TypeInv /\ [Next]_vars => TypeInv'
<1> SUFFICES ASSUME TypeInv, [Next]_vars PROVE TypeInv'
  OBVIOUS
<1>1. RowOK /\ UNCHANGED deps /\ (UNCHANGED run \/ \E r \in Runs : RunOK(r))
  BY StepOK
<1>t. /\ engine \in [pc : {"idle", "planning", "running"}, busy : SUBSET EngineTasks]
      /\ takers \in [Tasks -> SUBSET (Runs \cup {Engine})]
      /\ heard \in [Tasks -> SUBSET Tasks]
      /\ verdict \in {"idle", "done", "error", "degraded"} /\ progress \in 0 .. NumTasks
  BY DEF TypeInv, TypeOK
<1>2. ASSUME UNCHANGED <<engine, takers, heard, verdict, progress>> PROVE TypeInv'
  <2> USE <1>2
  <2>1. /\ engine' \in [pc : {"idle", "planning", "running"}, busy : SUBSET EngineTasks]
        /\ takers' \in [Tasks -> SUBSET (Runs \cup {Engine})]
        /\ heard' \in [Tasks -> SUBSET Tasks]
        /\ verdict' \in {"idle", "done", "error", "degraded"} /\ progress' \in 0 .. NumTasks
    BY <1>t
  <2> QED
    BY <1>1, <2>1, TypeFrame
<1>3. CASE \/ Send \/ _materialise_plan
           \/ \E t \in EngineTasks : EngineTakes(t) \/ EngineEnds(t)
  <2>1. /\ engine' \in [pc : {"idle", "planning", "running"}, busy : SUBSET EngineTasks]
        /\ takers' \in [Tasks -> SUBSET (Runs \cup {Engine})]
        /\ UNCHANGED <<heard, verdict, progress>>
    BY <1>3, EngineStep DEF EngineRows
  <2> QED
    BY <1>1, <1>t, <2>1, TypeFrame
<1>4. ASSUME NEW r \in Runs, Launch(r) PROVE TypeInv'
  <2>1. UNCHANGED <<engine, verdict, progress>>
    BY <1>4, LaunchOK
  <2>2. PICK t \in run[r].todo :
          /\ takers' = [takers EXCEPT ![t] = @ \cup {r}]
          /\ heard' = [heard EXCEPT ![t] = {d \in row[t].deps \ {Unknown} : row[d].status = "done"}]
    BY <1>4, LaunchOK
  <2>3. t \in Tasks
    BY RunType
  <2>4. {d \in row[t].deps \ {Unknown} : row[d].status = "done"} \subseteq Tasks
    BY <2>3, RunType DEF Rows
  <2>5. takers' \in [Tasks -> SUBSET (Runs \cup {Engine})] /\ heard' \in [Tasks -> SUBSET Tasks]
    BY <1>t, <2>2, <2>3, <2>4
  <2> QED
    BY <1>1, <1>t, <2>1, <2>5, TypeFrame
<1>5. ASSUME NEW r \in Runs, Publish(r) \/ PublishRaises(r) PROVE TypeInv'
  <2>1. /\ UNCHANGED <<engine, takers, heard>>
        /\ \/ verdict' = verdict_of(r) /\ progress' = Cardinality(Settled(r, "done"))
           \/ UNCHANGED <<verdict, progress>>
    BY <1>5, PublishOK, PublishRaisesOK
  <2>2. verdict_of(r) \in {"idle", "done", "error", "degraded"}
    BY DEF verdict_of
  <2>3. verdict' \in {"idle", "done", "error", "degraded"} /\ progress' \in 0 .. NumTasks
    BY <1>t, <2>1, <2>2, ProgressType
  <2> QED
    BY <1>1, <1>t, <2>1, <2>3, TypeFrame
<1>6. ASSUME NEW r \in Runs,
             \/ \E batch \in SUBSET (Tasks \ EngineTasks) : Request(r, batch)
             \/ CreateRow(r) \/ CreateRaises(r) \/ ReadRows(r) \/ ReadRaises(r)
             \/ Block(r) \/ PassEnds(r) \/ Record(r) \/ TurnRaises(r) \/ WriteRaises(r)
      PROVE  TypeInv'
  BY <1>2, <1>6 DEF Request, CreateRow, CreateRaises, ReadRows, ReadRaises, Block, PassEnds, Record,
     TurnRaises, WriteRaises
<1>7. CASE UNCHANGED vars
  BY <1>2, <1>7 DEF vars
<1> QED
  BY <1>3, <1>4, <1>5, <1>6, <1>7 DEF Next, RunStep

LEMMA WitnessStep == TypeInv /\ WitnessInv /\ [Next]_vars => WitnessInv'
<1> SUFFICES ASSUME TypeInv, WitnessInv, [Next]_vars, NEW r \in Runs,
                    \/ run'[r].pc \in Working
                    \/ run'[r].pc = "create" /\ run'[r].todo # run'[r].batch
             PROVE  \E t \in Tasks : Exists(t)' /\ row'[t].by = r
  BY DEF WitnessInv
<1>1. RowOK /\ (UNCHANGED run \/ \E q \in Runs : RunOK(q))
  BY StepOK
<1>2. (\E t \in Tasks : Exists(t) /\ row[t].by = r)
      \/ \E t \in Tasks : Exists(t)' /\ row'[t].by = r
  BY <1>1 DEF RunOK, Others, WitnessInv
<1> QED
  BY <1>1, <1>2 DEF RowOK

-----------------------------------------------------------------------------
(* While the table is a run's alone, nobody else disturbs it. *)

LEMMA SoleBack ==
  ASSUME TypeInv, RowOK, NEW r \in Runs, Sole(r)'
  PROVE  Sole(r)
  BY DEF RowOK, Sole

Foreign(r) ==
    /\ run'[r] = run[r] /\ UNCHANGED <<row, verdict, progress, heard>>
    /\ \A t \in Tasks : takers'[t] = takers[t] \/ (t \in EngineTasks /\ ~Exists(t))

LEMMA StrangerStep ==
  ASSUME TypeInv, WitnessInv, NEW r \in Runs, Sole(r), Sole(r)', NEW q \in Runs \ {r},
         RunStep(q) \/ \E batch \in SUBSET (Tasks \ EngineTasks) : Request(q, batch)
  PROVE  Foreign(r)
<1>1. run[q].pc \notin Working
  BY DEF WitnessInv, Sole
<1>2. ASSUME NEW batch \in SUBSET (Tasks \ EngineTasks), Request(q, batch) PROVE Foreign(r)
  BY <1>2, RequestOK DEF RunOK, Others, Foreign
<1>3. CASE CreateRow(q)
  <2>1. /\ Others(q) /\ UNCHANGED <<takers, heard, verdict, progress>>
        /\ UNCHANGED row \/ \E t \in run[q].todo : Exists(t)' /\ row'[t].by = q
    BY <1>3, CreateRowOK DEF RunOK
  <2>2. run[q].todo \subseteq Tasks
    BY RunType
  <2> QED
    BY <2>1, <2>2 DEF Sole, Foreign, Others
<1>4. CASE CreateRaises(q)
  <2>1. /\ UNCHANGED <<row, takers, heard, verdict, progress>>
        /\ run' = [run EXCEPT ![q] = Without("refused", FALSE)]
    BY <1>4 DEF CreateRaises
  <2>2. Others(q)
    BY <2>1, WithoutOK DEF RunOK
  <2> QED
    BY <2>1, <2>2 DEF Others, Foreign
<1>5. CASE \/ ReadRows(q) \/ ReadRaises(q) \/ Block(q) \/ PassEnds(q) \/ Launch(q) \/ Record(q)
           \/ TurnRaises(q) \/ WriteRaises(q) \/ Publish(q) \/ PublishRaises(q)
  BY <1>1, <1>5 DEF ReadRows, ReadRaises, Block, PassEnds, Launch, Record, TurnRaises, WriteRaises,
     Publish, PublishRaises, Working
<1> QED
  BY <1>2, <1>3, <1>4, <1>5 DEF RunStep

LEMMA EngineForeign ==
  ASSUME TypeInv, EngineRows, NEW r \in Runs, Sole(r)'
  PROVE  Foreign(r)
<1>1. \A t \in EngineTasks : t \in Tasks /\ ~Exists(t)'
  BY RunAssumption DEF RunAssumption, EngineRows, RowOK, Sole
<1>2. \A t \in Tasks : row'[t] = row[t]
  BY <1>1 DEF EngineRows
<1>3. row \in [Tasks -> Rows] /\ row' \in [Tasks -> Rows]
  BY RunType DEF EngineRows, RowOK
<1>4. row' = row
  BY <1>2, <1>3
<1> QED
  BY <1>1, <1>4 DEF EngineRows, Foreign, Exists

LEMMA ForeignKeeps ==
  ASSUME NEW r \in Runs, RunInv(r), Foreign(r)
  PROVE  RunInv(r)'
<1>1. row' = row /\ run'[r] = run[r] /\ verdict' = verdict /\ progress' = progress
  BY DEF Foreign
<1>2. /\ Sole(r)' <=> Sole(r)
      /\ Known' <=> Known
      /\ Right' <=> Right
      /\ Quiet' <=> Quiet
      /\ Report' <=> Report
  BY <1>1 DEF Sole, Exists, Known, Right, AllDone, Stuck, Quiet, Report
<1>3. /\ Mirrors(r)' <=> Mirrors(r)
      /\ Completed(r)' <=> Completed(r)
      /\ \A t : (Exists(t)' <=> Exists(t)) /\ (AllDone(t)' <=> AllDone(t))
  BY <1>1 DEF Mirrors, Completed, Exists, AllDone
<1> QED
  BY <1>1, <1>2, <1>3 DEF RunInv

-----------------------------------------------------------------------------
(* The steps of the run itself. *)

LEMMA DepsType ==
  ASSUME TypeInv, NEW t \in Tasks
  PROVE  row[t] \in Rows /\ row[t].deps \subseteq Tasks \cup {Unknown}
<1>1. row[t] \in Rows
  BY DEF TypeInv, TypeOK
<1> QED
  BY <1>1 DEF Rows

\* Where the rows are the same, so is what there is to be said of them.
LEMMA RowsSame ==
  ASSUME UNCHANGED row
  PROVE  /\ Known' <=> Known
         /\ Right' <=> Right
         /\ Quiet' <=> Quiet
         /\ \A t : (Exists(t)' <=> Exists(t)) /\ (AllDone(t)' <=> AllDone(t))
         /\ \A r : Sole(r)' <=> Sole(r)
  BY DEF Sole, Exists, Known, Right, AllDone, Stuck, Quiet

\* A pending row gets its outcome.
LEMMA StatusKeeps ==
  ASSUME TypeInv, NEW t \in Tasks, row[t].status = "pending",
         NEW s \in Statuses \ {"none"}, row' = [row EXCEPT ![t].status = s]
  PROVE  /\ \A u \in Tasks : (AllDone(u) => AllDone(u)') /\ (Stuck(u) => Stuck(u)')
         /\ Known => Known'
         /\ \A u \in Tasks \ {t} : row'[u] = row[u]
         /\ row'[t].status = s
         /\ \A u \in Tasks : row'[u].deps = row[u].deps
<1>1. /\ row'[t].status = s
      /\ \A u \in Tasks : row'[u].deps = row[u].deps /\ row'[u].by = row[u].by
      /\ \A u \in Tasks \ {t} : row'[u] = row[u]
  BY StatusIs
<1>2. \A u \in Tasks : \A d \in row[u].deps : d # Unknown => d \in Tasks
  BY DepsType
<1>3. ASSUME NEW u \in Tasks, AllDone(u) PROVE AllDone(u)'
  BY <1>1, <1>2, <1>3 DEF AllDone
<1>4. ASSUME NEW u \in Tasks, Stuck(u) PROVE Stuck(u)'
  BY <1>1, <1>2, <1>4 DEF Stuck
<1>5. ASSUME Known PROVE Known'
  BY <1>1, <1>2, <1>5 DEF Known, Exists
<1> QED
  BY <1>1, <1>3, <1>4, <1>5

\* So does the dictionary, and the run counts it as settled.
LEMMA MirrorKeeps ==
  ASSUME TypeInv, NEW r \in Runs, Mirrors(r), NEW t \in Tasks,
         NEW s \in {"done"} \cup Out, row' = [row EXCEPT ![t].status = s],
         run'[r].mem = [run[r].mem EXCEPT ![t] = s], run'[r].mine = run[r].mine \cup {t}
  PROVE  Mirrors(r)'
<1>1. s \in Statuses /\ s # "running"
  BY DEF Statuses, Out
<1>2. row'[t].status = s /\ \A u \in Tasks \ {t} : row'[u] = row[u]
  BY <1>1, StatusIs
<1>3. run'[r].mem[t] = s /\ \A u \in Tasks \ {t} : run'[r].mem[u] = run[r].mem[u]
  BY RunType
<1> QED
  BY <1>1, <1>2, <1>3 DEF Mirrors

\* What the run settled is what the rows say is settled.
LEMMA SettledIs ==
  ASSUME NEW r \in Runs, TypeInv, Mirrors(r), NEW s \in {"done"} \cup Out
  PROVE  Settled(r, s) = {t \in Tasks : row[t].status = s}
  BY RunType DEF Settled, Mirrors

LEMMA RequestKeeps ==
  ASSUME TypeInv, NEW r \in Runs, RunInv(r), Sole(r),
         NEW batch \in SUBSET (Tasks \ EngineTasks), Request(r, batch)
  PROVE  RunInv(r)'
<1>1. /\ run[r].pc = "idle" /\ UNCHANGED row
      /\ \/ run'[r].pc = "refused"
         \/ run'[r].pc = "create" /\ run'[r].batch = batch /\ run'[r].todo = batch
  BY RequestOK
<1>2. \A t \in Tasks : ~Exists(t)' /\ row'[t].deps = {}
  BY <1>1, RowsSame DEF RunInv, TypeInv, BatchInv
<1> QED
  BY <1>1, <1>2 DEF RunInv, Completed

LEMMA CreateKeeps ==
  ASSUME TypeInv, NEW r \in Runs, RunInv(r), Sole(r), CreateRow(r)
  PROVE  RunInv(r)'
<1>1. run[r].pc = "create"
  BY CreateRowOK
<1>2. CASE run'[r].pc = "refused"
  BY <1>2 DEF RunInv, Completed
<1>3. ASSUME NEW t \in run[r].todo,
             Exists(t)', row'[t].status = "pending",
             row'[t].deps \subseteq run[r].batch \cup {Unknown},
             \A u \in Tasks \ {t} : row'[u] = row[u],
             run'[r].pc = IF run[r].todo = {t} THEN "read" ELSE "create",
             run'[r].todo = run[r].todo \ {t}, run'[r].batch = run[r].batch
      PROVE  RunInv(r)'
  <2>1. t \in Tasks /\ run[r].batch \subseteq Tasks
    BY <1>1 DEF TypeInv, BatchInv
  <2>2. \A u \in Tasks : row'[u].deps \subseteq run'[r].batch \cup {Unknown}
    BY <1>1, <1>3, <2>1 DEF RunInv
  <2>3. \A u \in run'[r].batch \ run'[r].todo : Exists(u)'
    BY <1>1, <1>3, <2>1 DEF RunInv, Exists
  <2>4. \A u \in Tasks : Exists(u)' => row'[u].status = "pending"
    BY <1>1, <1>3, <2>1 DEF RunInv, Exists
  <2>5. CASE run[r].todo = {t}
    <3>1. run'[r].pc = "read" /\ run'[r].todo = {}
      BY <1>3, <2>5
    <3>2. Known'
      BY <2>2, <2>3, <3>1 DEF Known
    <3> QED
      BY <2>4, <3>1, <3>2 DEF RunInv, Completed
  <2>6. CASE run[r].todo # {t}
    <3>1. run'[r].pc = "create"
      BY <1>3, <2>6
    <3> QED
      BY <2>2, <2>3, <2>4, <3>1 DEF RunInv, Completed
  <2> QED
    BY <2>5, <2>6
<1> QED
  BY <1>2, <1>3, CreateRowOK

LEMMA ReadKeeps ==
  ASSUME TypeInv, NEW r \in Runs, RunInv(r), Sole(r), ReadRows(r)
  PROVE  RunInv(r)'
<1>1. /\ run[r].pc = "read" /\ UNCHANGED row
      /\ run'[r].pc = "scan" /\ ~run'[r].raised /\ run'[r].mine = {} /\ run'[r].todo = Tasks
      /\ \A t \in Tasks : run'[r].mem[t] = row[t].status
  BY ReadRowsOK
<1>2. Known' /\ \A t \in Tasks : row'[t].status \in {"none", "pending"}
  BY <1>1, RowsSame DEF RunInv, Exists
<1>3. Mirrors(r)' /\ Right'
  BY <1>1, <1>2 DEF Mirrors, Right, Out
<1> QED
  BY <1>1, <1>2, <1>3 DEF RunInv, Completed

\* A task that the pass blocks is pending, and something it depends on is failed
\* or blocked.
LEMMA DoomedIs ==
  ASSUME TypeInv, NEW r \in Runs, Mirrors(r)
  PROVE  Doomed(r) = {t \in run[r].todo : row[t].status = "pending" /\ Stuck(t)}
<1>1. ASSUME NEW t \in run[r].todo
      PROVE  row[t].deps \cap (Settled(r, "failed") \cup Settled(r, "blocked")) # {} <=> Stuck(t)
  <2>1. t \in Tasks /\ \A d \in row[t].deps : d # Unknown <=> d \in Tasks
    BY RunType, DepsType DEF Unknown, Tasks
  <2>2. Settled(r, "failed") \cup Settled(r, "blocked") = {d \in Tasks : row[d].status \in Out}
    BY SettledIs DEF Out
  <2> QED
    BY <2>1, <2>2 DEF Stuck, Out
<1> QED
  BY <1>1, RunType DEF Doomed, Mirrors

LEMMA ReadyIs ==
  ASSUME TypeInv, NEW r \in Runs, Mirrors(r)
  PROVE  Ready(r) = {t \in Tasks : row[t].status = "pending" /\ AllDone(t)}
<1>1. ASSUME NEW t \in Tasks
      PROVE  row[t].deps \subseteq Settled(r, "done") <=> AllDone(t)
  <2>1. \A d \in row[t].deps : d # Unknown <=> d \in Tasks
    BY DepsType DEF Unknown, Tasks
  <2>2. Settled(r, "done") = {d \in Tasks : row[d].status = "done"}
    BY SettledIs
  <2> QED
    BY <2>1, <2>2 DEF AllDone
<1> QED
  BY <1>1 DEF Ready, Mirrors

LEMMA BlockKeeps ==
  ASSUME TypeInv, NEW r \in Runs, RunInv(r), Sole(r), Block(r)
  PROVE  RunInv(r)'
<1>1. /\ run[r].pc = "scan" /\ run'[r].pc = "scan" /\ run'[r].raised = run[r].raised /\ run'[r].changed
  BY BlockOK
<1>2. ~run[r].raised /\ Known /\ Mirrors(r) /\ Right
  BY <1>1 DEF RunInv
<1>3. PICK t \in Doomed(r) :
        /\ run'[r].mem = [run[r].mem EXCEPT ![t] = "blocked"]
        /\ run'[r].mine = run[r].mine \cup {t}
        /\ row' = [row EXCEPT ![t].status = "blocked"]
  BY BlockOK
<1>4. t \in Tasks /\ row[t].status = "pending" /\ Stuck(t)
  BY <1>2, DoomedIs, RunType
<1>5. "blocked" \in Statuses \ {"none"} /\ "blocked" \in {"done"} \cup Out
  BY DEF Statuses, Out
<1>6. /\ \A u \in Tasks : (AllDone(u) => AllDone(u)') /\ (Stuck(u) => Stuck(u)')
      /\ Known' /\ row'[t].status = "blocked"
      /\ \A u \in Tasks \ {t} : row'[u] = row[u]
  BY <1>2, <1>3, <1>4, <1>5, StatusKeeps
<1>7. Mirrors(r)'
  BY <1>2, <1>3, <1>4, <1>5, MirrorKeeps
<1>8. Right'
  BY <1>2, <1>4, <1>6 DEF Right
<1> QED
  BY <1>1, <1>2, <1>6, <1>7, <1>8 DEF RunInv, Completed

LEMMA PassKeeps ==
  ASSUME TypeInv, NEW r \in Runs, RunInv(r), Sole(r), PassEnds(r)
  PROVE  RunInv(r)'
<1>1. /\ run[r].pc = "scan" /\ Doomed(r) = {} /\ UNCHANGED row
  BY PassOK
<1>2. /\ ~run[r].raised /\ Known /\ Mirrors(r) /\ Right
      /\ ~run[r].changed => run[r].todo = Tasks
  BY <1>1 DEF RunInv
<1>3. /\ run'[r].pc = IF Ready(r) # {} THEN "launch"
                      ELSE IF run[r].changed THEN "scan" ELSE "verdict"
      /\ run'[r].todo = IF Ready(r) # {} THEN Ready(r) ELSE Tasks
      /\ ~run'[r].changed /\ run'[r].raised = run[r].raised
      /\ run'[r].mem = run[r].mem /\ run'[r].mine = run[r].mine
  BY PassIs
<1>4. Known' /\ Right' /\ Mirrors(r)'
  BY <1>1, <1>2, <1>3, RowsSame DEF Mirrors
<1>5. CASE Ready(r) # {}
  <2>1. run'[r].pc = "launch" /\ run'[r].todo = Ready(r)
    BY <1>3, <1>5
  <2>2. \A t \in run'[r].todo : row'[t].status = "pending" /\ AllDone(t)'
    BY <1>1, <1>2, <2>1, ReadyIs, RowsSame
  <2> QED
    BY <1>2, <1>3, <1>4, <2>1, <2>2 DEF RunInv, Completed
<1>6. CASE Ready(r) = {} /\ run[r].changed
  <2>1. run'[r].pc = "scan" /\ run'[r].todo = Tasks
    BY <1>3, <1>6
  <2> QED
    BY <1>2, <1>3, <1>4, <2>1 DEF RunInv, Completed
<1>7. CASE Ready(r) = {} /\ ~run[r].changed
  <2>1. run'[r].pc = "verdict"
    BY <1>3, <1>7
  <2>2. ASSUME NEW t \in Tasks, row[t].status = "pending"
        PROVE  ~Stuck(t) /\ \E d \in row[t].deps : d = Unknown \/ row[d].status = "pending"
    <3>1. ~Stuck(t) /\ ~AllDone(t)
      BY <1>1, <1>2, <1>7, <2>2, DoomedIs, ReadyIs
    <3>2. PICK d \in row[t].deps : d = Unknown \/ row[d].status # "done"
      BY <3>1 DEF AllDone
    <3>3. CASE d # Unknown
      <4>1. d \in Tasks /\ Exists(d) /\ row[d].status \in Statuses
        BY <1>2, <3>3, DepsType DEF Known, Rows
      <4>2. row[d].status \notin {"none", "running", "done", "failed", "blocked"}
        BY <1>2, <3>1, <3>2, <3>3, <4>1 DEF Exists, Mirrors, Stuck
      <4> QED
        BY <3>1, <4>1, <4>2 DEF Statuses
    <3> QED
      BY <3>1, <3>3
  <2>3. Quiet'
    BY <1>1, <2>2, RowsSame DEF Quiet
  <2> QED
    BY <1>2, <1>3, <1>4, <2>1, <2>3 DEF RunInv, Completed
<1> QED
  BY <1>5, <1>6, <1>7

LEMMA LaunchKeeps ==
  ASSUME TypeInv, NEW r \in Runs, RunInv(r), Sole(r), Launch(r)
  PROVE  RunInv(r)'
<1>1. /\ run[r].pc = "launch" /\ UNCHANGED row
      /\ run'[r].pc = "turn" /\ run'[r].todo = run[r].todo /\ run'[r].raised = run[r].raised
      /\ run'[r].mem = run[r].mem /\ run'[r].mine = run[r].mine
  BY LaunchOK
<1>2. /\ ~run[r].raised /\ Known /\ Mirrors(r) /\ Right
      /\ \A t \in run[r].todo : row[t].status = "pending" /\ AllDone(t)
  BY <1>1 DEF RunInv
<1>3. Known' /\ Right' /\ Mirrors(r)'
  BY <1>1, <1>2, RowsSame DEF Mirrors
<1>4. \A t \in run'[r].todo : row'[t].status = "pending" /\ AllDone(t)'
  BY <1>1, <1>2, RowsSame
<1> QED
  BY <1>1, <1>2, <1>3, <1>4 DEF RunInv, Completed

LEMMA RecordKeeps ==
  ASSUME TypeInv, NEW r \in Runs, RunInv(r), Sole(r), Record(r)
  PROVE  RunInv(r)'
<1>1. run[r].pc = "turn" /\ run'[r].raised = run[r].raised
  BY RecordOK
<1>2. /\ ~run[r].raised /\ Known /\ Mirrors(r) /\ Right
      /\ \A t \in run[r].todo : row[t].status = "pending" /\ AllDone(t)
  BY <1>1 DEF RunInv
<1>3. PICK t \in run[r].todo, s \in {"done", "failed"} :
        /\ run'[r].mem = [run[r].mem EXCEPT ![t] = s]
        /\ run'[r].mine = run[r].mine \cup {t}
        /\ row' = [row EXCEPT ![t].status = s]
        /\ \/ run'[r].pc = "scan" /\ run'[r].todo = Tasks
           \/ run'[r].pc = "launch" /\ run'[r].todo = run[r].todo \ {t}
  BY RecordOK
<1>4. t \in Tasks /\ row[t].status = "pending" /\ AllDone(t)
  BY <1>2, RunType
<1>5. s \in Statuses \ {"none"} /\ s \in {"done"} \cup Out
  BY DEF Statuses, Out
<1>6. /\ \A u \in Tasks : (AllDone(u) => AllDone(u)') /\ (Stuck(u) => Stuck(u)')
      /\ Known' /\ row'[t].status = s
      /\ \A u \in Tasks \ {t} : row'[u] = row[u]
  BY <1>2, <1>3, <1>4, <1>5, StatusKeeps
<1>7. Mirrors(r)'
  BY <1>2, <1>3, <1>4, <1>5, MirrorKeeps
<1>8. Right'
  BY <1>2, <1>4, <1>6 DEF Right
<1>9. CASE run'[r].pc = "scan" /\ run'[r].todo = Tasks
  BY <1>1, <1>2, <1>6, <1>7, <1>8, <1>9 DEF RunInv, Completed
<1>10. CASE run'[r].pc = "launch" /\ run'[r].todo = run[r].todo \ {t}
  <2>1. \A u \in run'[r].todo : row'[u].status = "pending" /\ AllDone(u)'
    BY <1>2, <1>6, <1>10, RunType
  <2> QED
    BY <1>1, <1>2, <1>6, <1>7, <1>8, <1>10, <2>1 DEF RunInv, Completed
<1> QED
  BY <1>3, <1>9, <1>10

\* The rows of which a report speaks are there.
LEMMA PublishKeeps ==
  ASSUME TypeInv, WitnessInv, NEW r \in Runs, RunInv(r), Sole(r), Publish(r)
  PROVE  RunInv(r)'
<1>1. /\ run[r].pc = "verdict" /\ run'[r].pc = "over" /\ run'[r].raised = run[r].raised
      /\ verdict' = verdict_of(r) /\ progress' = Cardinality(Settled(r, "done"))
      /\ UNCHANGED row
  BY PublishOK
<1>2. CASE run[r].raised
  BY <1>1, <1>2 DEF RunInv, Completed
<1>3. CASE ~run[r].raised
  <2>1. Known /\ Mirrors(r) /\ Right /\ Quiet
    BY <1>1, <1>3 DEF RunInv
  <2> DEFINE there == {t \in Tasks : Exists(t)}
             done == {t \in there : row[t].status = "done"}
  <2>2. Settled(r, "done") = done
    <3>1. Settled(r, "done") = {t \in Tasks : row[t].status = "done"}
      BY <2>1, SettledIs
    <3> QED
      BY <3>1 DEF Exists
  <2>3. {t \in Tasks : run[r].mem[t] # "none"} = there
    BY <2>1 DEF Mirrors, Exists
  <2>4. there # {}
    BY <1>1 DEF WitnessInv, Working
  <2>5. /\ verdict' = "done" <=> done = there
        /\ verdict' = "error" <=> done = {}
        /\ progress' = Cardinality(done)
    <3> HIDE DEF there, done
    <3> QED
      BY <1>1, <2>2, <2>3, <2>4 DEF verdict_of
  <2>6. Report'
    <3>1. there' = there /\ done' = done
      BY <1>1 DEF Exists
    <3> QED
      BY <2>5, <3>1 DEF Report
  <2>7. Right' /\ Quiet'
    BY <1>1, <2>1, RowsSame
  <2> QED
    BY <1>1, <2>6, <2>7 DEF RunInv, Completed
<1> QED
  BY <1>2, <1>3

LEMMA RunKeeps ==
  ASSUME TypeInv, WitnessInv, NEW r \in Runs, RunInv(r), Sole(r), RunStep(r)
  PROVE  RunInv(r)'
<1>1. CASE CreateRaises(r) \/ ReadRaises(r) \/ TurnRaises(r) \/ WriteRaises(r) \/ PublishRaises(r)
  <2>1. \/ run'[r].pc = "refused"
        \/ run'[r].pc \in {"verdict", "over"} /\ run'[r].raised
    BY <1>1, TurnRaisesOK, WriteRaisesOK, PublishRaisesOK, WithoutOK DEF CreateRaises, ReadRaises
  <2> QED
    BY <2>1 DEF RunInv, Completed
<1> QED
  BY <1>1, CreateKeeps, ReadKeeps, BlockKeeps, PassKeeps, LaunchKeeps, RecordKeeps, PublishKeeps
     DEF RunStep

-----------------------------------------------------------------------------
\* Every step, as a run that has the table to itself sees it.
LEMMA StepsSeen ==
  ASSUME TypeInv, WitnessInv, [Next]_vars, NEW r \in Runs, Sole(r)'
  PROVE  /\ Sole(r)
         /\ \/ Foreign(r)
            \/ RunStep(r)
            \/ \E batch \in SUBSET (Tasks \ EngineTasks) : Request(r, batch)
<1>1. RowOK
  BY StepOK
<1>2. Sole(r)
  BY <1>1, SoleBack
<1>3. CASE UNCHANGED vars
  BY <1>2, <1>3 DEF vars, Foreign
<1>4. CASE \/ Send \/ _materialise_plan
           \/ \E t \in EngineTasks : EngineTakes(t) \/ EngineEnds(t)
  BY <1>2, <1>4, EngineStep, EngineForeign
<1>5. ASSUME NEW q \in Runs,
             RunStep(q) \/ \E batch \in SUBSET (Tasks \ EngineTasks) : Request(q, batch)
      PROVE  \/ Foreign(r)
             \/ RunStep(r)
             \/ \E batch \in SUBSET (Tasks \ EngineTasks) : Request(r, batch)
  BY <1>2, <1>5, StrangerStep
<1> QED
  BY <1>2, <1>3, <1>4, <1>5 DEF Next

LEMMA RunInvStep ==
  ASSUME TypeInv, WitnessInv, [Next]_vars, NEW r \in Runs, RunInv(r)
  PROVE  RunInv(r)'
<1>1. CASE Sole(r)'
  BY <1>1, StepsSeen, ForeignKeeps, RunKeeps, RequestKeeps
<1>2. CASE ~Sole(r)'
  BY <1>2 DEF RunInv
<1> QED
  BY <1>1, <1>2

LEMMA HeardStep ==
  ASSUME TypeInv, WitnessInv, \A r \in Runs : RunInv(r), HeardInv, [Next]_vars
  PROVE  HeardInv'
<1> SUFFICES ASSUME NEW r \in Runs, Sole(r)', NEW t \in Tasks
             PROVE  /\ takers'[t] # {} => heard'[t] = row'[t].deps
                    /\ ~Exists(t)' => heard'[t] = {} /\ (t \notin EngineTasks => takers'[t] = {})
  BY DEF HeardInv
<1>1. /\ Sole(r)
      /\ takers[t] # {} => heard[t] = row[t].deps
      /\ ~Exists(t) => heard[t] = {} /\ (t \notin EngineTasks => takers[t] = {}) /\ row[t].deps = {}
      /\ RowOK
  BY StepsSeen, StepOK DEF HeardInv, TypeInv, BatchInv
<1>2. CASE Foreign(r)
  BY <1>1, <1>2 DEF Foreign, Exists
<1>3. CASE \E batch \in SUBSET (Tasks \ EngineTasks) : Request(r, batch)
  BY <1>1, <1>3 DEF Request, Exists
<1>4. CASE Launch(r)
  <2>1. run[r].pc = "launch" /\ UNCHANGED row
    BY <1>4, LaunchOK
  <2>2. PICK u \in run[r].todo :
          /\ takers' = [takers EXCEPT ![u] = @ \cup {r}]
          /\ heard' = [heard EXCEPT ![u] = {d \in row[u].deps \ {Unknown} : row[d].status = "done"}]
    BY <1>4, LaunchOK
  <2>3. takers \in [Tasks -> SUBSET (Runs \cup {Engine})] /\ heard \in [Tasks -> SUBSET Tasks]
    BY DEF TypeInv, TypeOK
  <2>4. u \in Tasks /\ row[u].status = "pending" /\ AllDone(u)
    BY <1>1, <2>1, RunType DEF RunInv
  <2>5. CASE t = u
    <3>1. heard'[t] = row[t].deps
      BY <2>2, <2>3, <2>4, <2>5 DEF AllDone
    <3> QED
      BY <2>1, <2>4, <2>5, <3>1 DEF Exists
  <2>6. CASE t # u
    <3>1. heard'[t] = heard[t] /\ takers'[t] = takers[t]
      BY <2>2, <2>3, <2>6
    <3> QED
      BY <1>1, <2>1, <3>1 DEF Exists
  <2> QED
    BY <2>5, <2>6
<1>5. CASE CreateRow(r)
  <2>1. UNCHANGED <<takers, heard>>
    BY <1>5, CreateRowOK
  <2>2. CASE UNCHANGED row
    BY <1>1, <2>1, <2>2 DEF Exists
  <2>3. ASSUME NEW u \in run[r].todo, ~Exists(u), Exists(u)', \A v \in Tasks \ {u} : row'[v] = row[v]
        PROVE  /\ takers'[t] # {} => heard'[t] = row'[t].deps
               /\ ~Exists(t)' => heard'[t] = {} /\ (t \notin EngineTasks => takers'[t] = {})
    <3>1. u \in Tasks \ EngineTasks
      BY <1>5, CreateRowOK DEF TypeInv, BatchInv
    <3>2. CASE t = u
      BY <1>1, <2>1, <2>3, <3>1, <3>2
    <3>3. CASE t # u
      BY <1>1, <2>1, <2>3, <3>3 DEF Exists
    <3> QED
      BY <3>2, <3>3
  <2> QED
    BY <1>5, <2>2, <2>3, CreateRowOK
<1>6. CASE \/ CreateRaises(r) \/ ReadRows(r) \/ ReadRaises(r) \/ PassEnds(r) \/ TurnRaises(r)
           \/ Publish(r) \/ PublishRaises(r)
  BY <1>1, <1>6 DEF CreateRaises, ReadRows, ReadRaises, PassEnds, TurnRaises, Publish, PublishRaises, Exists
<1>7. CASE Block(r) \/ Record(r) \/ WriteRaises(r)
  <2>1. UNCHANGED <<takers, heard>>
    BY <1>7, BlockOK, RecordOK, WriteRaisesOK
  <2>2. row'[t].deps = row[t].deps
    <3>1. CASE Block(r)
      <4>1. PICK u \in Doomed(r) : row' = [row EXCEPT ![u].status = "blocked"]
        BY <3>1, BlockOK
      <4>2. u \in Tasks /\ "blocked" \in Statuses
        BY RunType DEF Doomed, Statuses
      <4> QED
        BY <4>1, <4>2, StatusIs
    <3>2. CASE Record(r)
      <4>1. PICK u \in run[r].todo, s \in {"done", "failed"} : row' = [row EXCEPT ![u].status = s]
        BY <3>2 DEF Record
      <4>2. u \in Tasks /\ s \in Statuses
        BY RunType DEF Statuses
      <4> QED
        BY <4>1, <4>2, StatusIs
    <3> QED
      BY <1>7, <3>1, <3>2, WriteRaisesOK
  <2> QED
    BY <1>1, <2>1, <2>2 DEF RowOK
<1> QED
  BY <1>2, <1>3, <1>4, <1>5, <1>6, <1>7, StepsSeen DEF RunStep

-----------------------------------------------------------------------------
LEMMA InvInit == Init => IInv
<1> SUFFICES ASSUME Init PROVE IInv
  OBVIOUS
<1>1. TypeInv
  BY TypeInit
<1>2. \A r \in Runs : run[r].pc = "idle"
  BY NothingType DEF Init
<1>3. \A t \in Tasks : ~Exists(t) /\ heard[t] = {} /\ takers[t] = {}
  BY DEF Init, Exists
<1>4. WitnessInv
  BY <1>2 DEF WitnessInv, Working
<1>5. \A r \in Runs : RunInv(r)
  BY <1>2, <1>3 DEF RunInv, Completed
<1> QED
  BY <1>1, <1>3, <1>4, <1>5 DEF IInv, HeardInv

\* The invariant that the theorems below rest on is inductive.
LEMMA Invariant == Spec => []IInv
<1>1. Init => IInv
  BY InvInit
<1>2. IInv /\ [Next]_vars => IInv'
  BY TypeStep, WitnessStep, RunInvStep, HeardStep DEF IInv
<1> QED
  BY <1>1, <1>2, PTL DEF Spec

\* What the rows, the verdict and the progress say when run_tasks ends without
\* an exception, having had the table to itself: a task that had a turn had all
\* it depends on, one is blocked exactly when something it depends on failed or
\* is blocked, and the verdict and the progress are those of the rows.
THEOREM ReportsAreTrue == Spec => []RunsReportTruly
<1>1. IInv => RunsReportTruly
  <2> SUFFICES ASSUME IInv PROVE RunsReportTruly
    OBVIOUS
  <2>1. \A r \in Runs : Completed(r) /\ Sole(r) => Right /\ Quiet /\ Report
    BY DEF IInv, RunInv
  <2>2. EveryRowSettled
    BY <2>1 DEF EveryRowSettled, Right, AllDone, Quiet
  <2>3. VerdictMatchesRows
    BY <2>1 DEF VerdictMatchesRows, Report
  <2> QED
    BY <2>2, <2>3 DEF IInv, TypeInv, RunsReportTruly
<1> QED
  BY <1>1, Invariant, PTL

\* No turn of a run that has the table to itself starts before the rows of all
\* that its task depends on are done: its prompt quotes every one (_prompt_for).
THEOREM PromptsAreComplete == Spec => []PromptHasResults
<1>1. IInv => PromptHasResults
  BY DEF IInv, HeardInv, PromptHasResults
<1> QED
  BY <1>1, Invariant, PTL

-----------------------------------------------------------------------------
(***************************************************************************)
(* The settings of delegation (Delegation).                                *)
(***************************************************************************)

\* The pins without t's.
PinsWithout(pins, t) == [u \in DOMAIN pins \ {t} |-> pins[u]]

LEMMA TableFields ==
  ASSUME NEW R, NEW O, NEW P
  PROVE  /\ CapabilityTable(R, O, P).rows = R
         /\ CapabilityTable(R, O, P).operational = O
         /\ CapabilityTable(R, O, P).pins = P
         /\ CapabilityTable(R, O, P).generated = [t \in Types |-> generated_ladder(R, t)]
         /\ CapabilityTable(R, O, P).candidates = [g \in GateTypes |-> gate_candidates(R, g)]
BY DEF CapabilityTable

LEMMA UnpinnedTable ==
  ASSUME NEW R, NEW O, NEW P, NEW t
  PROVE  Unpinned(CapabilityTable(R, O, P), t) = CapabilityTable(R, O, PinsWithout(P, t))
<1> DEFINE Q == PinsWithout(P, t)
           made == [u \in Types |-> generated_ladder(R, u)]
           able == [g \in GateTypes |-> gate_candidates(R, g)]
           A == [rows |-> R, operational |-> O, pins |-> P, generated |-> made, candidates |-> able]
           B == [rows |-> R, operational |-> O, pins |-> Q, generated |-> made, candidates |-> able]
<1>1. CapabilityTable(R, O, P) = A /\ CapabilityTable(R, O, Q) = B
  BY DEF CapabilityTable
<1>2. Unpinned(A, t) = [A EXCEPT !.pins = Q]
  BY DEF Unpinned, PinsWithout
<1> HIDE DEF Q, made, able
<1>3. [A EXCEPT !.pins = Q] = B
  OBVIOUS
<1> QED
  BY <1>1, <1>2, <1>3 DEF Q

\* What is wrong with a type depends on the rows, on the ladders of the type and
\* of the gates it runs on, and on whether these are operational.
SamePaths(R, O1, P1, O2, P2, t) ==
    /\ \A u \in gates_of(t) \cup {t} :
          ladder(CapabilityTable(R, O1, P1), u) = ladder(CapabilityTable(R, O2, P2), u)
    /\ gates_of(t) \ O1 = gates_of(t) \ O2

LEMMA ProblemsDependOn ==
  ASSUME NEW R, NEW O1, NEW P1, NEW O2, NEW P2, NEW t, NEW k, NEW c, NEW b,
         SamePaths(R, O1, P1, O2, P2, t)
  PROVE  type_problems(CapabilityTable(R, O1, P1), t, k, c, b)
            = type_problems(CapabilityTable(R, O2, P2), t, k, c, b)
<1> DEFINE A == CapabilityTable(R, O1, P1)
           B == CapabilityTable(R, O2, P2)
<1>1. /\ A.rows = R /\ B.rows = R /\ A.candidates = B.candidates
      /\ A.operational = O1 /\ B.operational = O2
      /\ ladder(A, t) = ladder(B, t) /\ \A g \in gates_of(t) : ladder(A, g) = ladder(B, g)
  <2>1. /\ A.rows = R /\ A.operational = O1
        /\ A.candidates = [g \in GateTypes |-> gate_candidates(R, g)]
    BY DEF CapabilityTable
  <2>2. /\ B.rows = R /\ B.operational = O2
        /\ B.candidates = [g \in GateTypes |-> gate_candidates(R, g)]
    BY DEF CapabilityTable
  <2> HIDE DEF A, B
  <2>3. ladder(A, t) = ladder(B, t) /\ \A g \in gates_of(t) : ladder(A, g) = ladder(B, g)
    BY DEF A, B, SamePaths
  <2> QED
    BY <2>1, <2>2, <2>3
<1> HIDE DEF A, B
<1>2. \A u, m : Latency(A, u, m) = Latency(B, u, m) /\ Rate(A, u, m) = Rate(B, u, m)
  BY <1>1 DEF Latency, Rate
<1>3. latency_reference_s(A, t) = latency_reference_s(B, t)
  <2>1. {Latency(A, t, m) : m \in ladder_eligible(R, t)}
          = {Latency(B, t, m) : m \in ladder_eligible(R, t)}
    BY <1>2
  <2> QED
    BY <1>1, <2>1 DEF latency_reference_s
<1>4. \A g \in gates_of(t) : gate_latency_s(A, t, g) = gate_latency_s(B, t, g)
  <2>1. \A g \in gates_of(t) : gate_rung0(A, g) = gate_rung0(B, g)
    BY <1>1 DEF gate_rung0
  <2> QED
    BY <1>2, <2>1 DEF gate_latency_s
<1>5. \A g : gate_climb_latency_s(A, g) = gate_climb_latency_s(B, g)
  BY <1>1, <1>2 DEF gate_climb_latency_s, climbs
<1>6. PathUnknown(A, t) = PathUnknown(B, t)
  <2>1. {m \in ToSet(ladder(A, t)) : Latency(A, t, m) = None}
          = {m \in ToSet(ladder(B, t)) : Latency(B, t, m) = None}
    BY <1>1, <1>2
  <2>2. {h \in gates_of(t) : gate_latency_s(A, t, h) = None}
          = {h \in gates_of(t) : gate_latency_s(B, t, h) = None}
    BY <1>4
  <2>3. {h \in gates_of(t) : gate_climb_latency_s(A, h) = None}
          = {h \in gates_of(t) : gate_climb_latency_s(B, h) = None}
    BY <1>5
  <2> QED
    BY <1>1, <1>3, <2>1, <2>2, <2>3 DEF PathUnknown
<1>7. worst_case(A, t) = worst_case(B, t)
  <2>1. [m \in ToSet(ladder(A, t)) |-> Latency(A, t, m)]
          = [m \in ToSet(ladder(B, t)) |-> Latency(B, t, m)]
    BY <1>1, <1>2
  <2>2. [g \in gates_of(t) |-> GateCalls[g] * (MaxAttempts * gate_latency_s(A, t, g)
                                               + gate_climb_latency_s(A, g))]
          = [g \in gates_of(t) |-> GateCalls[g] * (MaxAttempts * gate_latency_s(B, t, g)
                                                   + gate_climb_latency_s(B, g))]
    BY <1>4, <1>5
  <2> QED
    BY <1>3, <2>1, <2>2 DEF worst_case
<1>8. ceiling_breach(A, t) = ceiling_breach(B, t)
  BY <1>1, <1>6, <1>7 DEF ceiling_breach
<1>9. CostUnknown(A, t) = CostUnknown(B, t)
  <2>1. {k_ \in ToSet(ladder(A, t)) : Rate(A, t, k_) = None}
          = {k_ \in ToSet(ladder(B, t)) : Rate(B, t, k_) = None}
    BY <1>1, <1>2
  <2> QED
    BY <2>1 DEF CostUnknown
<1>10. budget_breach(A, t) = budget_breach(B, t)
  <2>1. \A i : rung_cost_usd(A, t, i) = rung_cost_usd(B, t, i)
    BY <1>1, <1>2 DEF rung_cost_usd
  <2>2. tree_cost(A, t) = tree_cost(B, t)
    <3>1. [i \in DOMAIN ladder(A, t) |-> rung_cost_usd(A, t, i)]
            = [i \in DOMAIN ladder(B, t) |-> rung_cost_usd(B, t, i)]
      BY <1>1, <2>1
    <3> QED
      BY <3>1 DEF tree_cost
  <2>3. {i \in DOMAIN ladder(A, t) : \A j \in DOMAIN ladder(A, t) :
                rung_cost_usd(A, t, j) <= rung_cost_usd(A, t, i)}
          = {i \in DOMAIN ladder(B, t) : \A j \in DOMAIN ladder(B, t) :
                rung_cost_usd(B, t, j) <= rung_cost_usd(B, t, i)}
    BY <1>1, <2>1
  <2> QED
    BY <1>1, <1>9, <2>2, <2>3 DEF budget_breach
<1>11. resolution_problems(A, t, k) = resolution_problems(B, t, k)
  BY <1>1 DEF resolution_problems
<1> QED
  BY <1>1, <1>6, <1>8, <1>9, <1>10, <1>11 DEF type_problems, A, B, SamePaths

----------------------------------------------------------------------------
\* Setting pins aside, one type after another.
LEMMA LeastOf ==
  ASSUME NEW S \in SUBSET Nat, S # {}
  PROVE  \E n \in S : \A m \in S : n <= m
<1>1. PICK n \in S : \A m \in S : ~ (<<m, n>> \in OpToRel(<, Nat))
  BY NatLessThanWellFounded, WFMin
<1>2. ASSUME NEW m \in S
      PROVE  n <= m
  <2>1. n \in Nat /\ m \in Nat
    OBVIOUS
  <2>2. ~ (m < n)
    BY <2>1, <1>1 DEF OpToRel
  <2> QED
    BY <2>1, <2>2
<1> QED
  BY <1>2

LEMMA NextPlace ==
  ASSUME NEW n \in Nat, NEW i \in 0..n, i # n
  PROVE  i \in Nat /\ i + 1 \in 1..n /\ (i + 1) - 1 = i
OBVIOUS

LEMMA TablesTriedExist ==
  ASSUME NEW tb, NEW n \in Nat
  PROVE  \E f : f = [i \in 0..n |->
                        IF i = 0 THEN tb ELSE without_unusable_pin(f[i - 1], TypeOrder[i])]
<1> DEFINE step(f, i) == IF i = 0 THEN tb ELSE without_unusable_pin(f[i - 1], TypeOrder[i])
           Bad == {m \in Nat : ~ \E f : f = [i \in 0..m |-> step(f, i)]}
<1>1. SUFFICES ASSUME Bad # {}
               PROVE  FALSE
  OBVIOUS
<1>2. PICK m \in Bad : \A b \in Bad : m <= b
  BY <1>1, LeastOf
<1>3. m # 0
  <2>1. [i \in 0..0 |-> tb] = [i \in 0..0 |-> step([j \in 0..0 |-> tb], i)]
    OBVIOUS
  <2> QED
    BY <2>1
<1>4. m - 1 \in Nat /\ m - 1 \notin Bad
  <2>1. m \in Nat
    OBVIOUS
  <2>2. m - 1 \in Nat /\ ~ (m <= m - 1)
    BY <1>3, <2>1
  <2> HIDE DEF Bad
  <2> QED
    BY <1>2, <2>2
<1>5. PICK f : f = [i \in 0..m - 1 |-> step(f, i)]
  BY <1>4
<1> DEFINE g == [i \in 0..m |-> IF i = m THEN step(f, m) ELSE f[i]]
<1>6. ASSUME NEW i \in 0..m
      PROVE  g[i] = step(g, i)
  <2>1. CASE i = m
    <3>1. g[i - 1] = f[i - 1]
      BY <1>3, <1>4, <2>1
    <3> QED
      BY <1>3, <2>1, <3>1
  <2>2. CASE i # m
    <3>1. i \in 0..m - 1 /\ g[i] = f[i]
      BY <2>2
    <3>2. i # 0 => g[i - 1] = f[i - 1]
      BY <3>1
    <3>3. f[i] = step(f, i)
      BY <1>5, <3>1
    <3> QED
      BY <3>1, <3>2, <3>3
  <2> QED
    BY <2>1, <2>2
<1>7. g = [i \in 0..m |-> step(g, i)]
  BY <1>6
<1> QED
  BY <1>7

LEMMA TablesTriedSteps ==
  ASSUME NEW tb
  PROVE  /\ Len(TypeOrder) \in Nat /\ TablesTried(tb)[0] = tb
         /\ \A i \in 1..Len(TypeOrder) :
              TablesTried(tb)[i] = without_unusable_pin(TablesTried(tb)[i - 1], TypeOrder[i])
<1> DEFINE n == Len(TypeOrder)
           f == TablesTried(tb)
<1>1. n \in Nat
  BY TypesAreOrdered
<1>2. f = [i \in 0..n |-> IF i = 0 THEN tb ELSE without_unusable_pin(f[i - 1], TypeOrder[i])]
  BY <1>1, TablesTriedExist DEF TablesTried
<1> HIDE DEF f, n
<1> QED
  BY <1>1, <1>2 DEF f, n

\* Whether t is as well off with its pin as without it.
Usable(R, O, P, t) ==
    t \in O => type_problems(CapabilityTable(R, O, P), t, None, TRUE, TRUE)
                 \subseteq type_problems(CapabilityTable(R, O, <<>>), t, None, TRUE, TRUE)

\* The pins that are left once the first n types have been looked at.
Kept(R, O, P, n) ==
    [u \in {v \in DOMAIN P : \A j \in 1..n : TypeOrder[j] = v => Usable(R, O, P, v)} |-> P[u]]

Generated(R) == [t \in Types |-> generated_ladder(R, t)]

LEMMA LadderOf ==
  ASSUME NEW R, NEW O, NEW P, NEW t
  PROVE  ladder(CapabilityTable(R, O, P), t)
            = IF t \in DOMAIN P THEN P[t] ELSE Generated(R)[t]
BY DEF ladder, CapabilityTable, Generated

LEMMA GatesOf ==
  ASSUME NEW t
  PROVE  gates_of(t) \subseteq GateTypes
BY DEF gates_of

\* Looking at one type, when no gate is pinned: what becomes of its pin does
\* not depend on the others'.
LEMMA OnePin ==
  ASSUME NEW R, NEW O, NEW P, NEW n \in Nat, n + 1 \in DOMAIN TypeOrder,
         DOMAIN P \cap GateTypes = {}
  PROVE  without_unusable_pin(CapabilityTable(R, O, Kept(R, O, P, n)), TypeOrder[n + 1])
            = CapabilityTable(R, O, Kept(R, O, P, n + 1))
<1> DEFINE t == TypeOrder[n + 1]
           Q == Kept(R, O, P, n)
           tb == CapabilityTable(R, O, Q)
<1>1. PinsWithout(Q, t) = [u \in DOMAIN Q \ {t} |-> P[u]]
  BY DEF PinsWithout, Kept
<1>2. DOMAIN Q \subseteq DOMAIN P /\ \A u \in DOMAIN Q : Q[u] = P[u]
  BY DEF Kept
<1>3. \A v : (\A j \in 1..n + 1 : TypeOrder[j] = v => Usable(R, O, P, v))
               <=> /\ \A j \in 1..n : TypeOrder[j] = v => Usable(R, O, P, v)
                   /\ t = v => Usable(R, O, P, v)
  <2>1. 1..n + 1 = 1..n \cup {n + 1}
    OBVIOUS
  <2> QED
    BY <2>1
<1>4. DOMAIN Kept(R, O, P, n + 1) = IF Usable(R, O, P, t) THEN DOMAIN Q ELSE DOMAIN Q \ {t}
  BY <1>3 DEF Kept
<1>5. Kept(R, O, P, n + 1) = IF Usable(R, O, P, t) THEN Q ELSE PinsWithout(Q, t)
  <2>1. Kept(R, O, P, n + 1) = [u \in DOMAIN Kept(R, O, P, n + 1) |-> P[u]]
    BY DEF Kept
  <2>2. Q = [u \in DOMAIN Q |-> P[u]]
    BY DEF Kept
  <2> HIDE DEF Q, t
  <2>3. CASE Usable(R, O, P, t)
    BY <1>4, <2>1, <2>2, <2>3
  <2>4. CASE ~ Usable(R, O, P, t)
    BY <1>4, <1>1, <2>1, <2>4
  <2> QED
    BY <2>3, <2>4
<1>6. tb.operational = O /\ tb.pins = Q
  BY DEF CapabilityTable
<1>7. CASE t \in DOMAIN Q
  <2>1. t \in DOMAIN P /\ t \notin GateTypes /\ Q[t] = P[t]
    BY <1>2, <1>7
  <2>2. PinsWithout(Q, t) = [u \in DOMAIN PinsWithout(Q, t) |-> P[u]]
        /\ DOMAIN PinsWithout(Q, t) \subseteq DOMAIN P /\ t \notin DOMAIN PinsWithout(Q, t)
    BY <1>1, <1>2
  <2>3. gates_of(t) \subseteq GateTypes /\ DOMAIN P \cap GateTypes = {} /\ DOMAIN <<>> = {}
    BY GatesOf
  <2>4. tb = CapabilityTable(R, O, Q) /\ Unpinned(tb, t) = CapabilityTable(R, O, PinsWithout(Q, t))
    BY UnpinnedTable
  <2> HIDE DEF tb, t, Q
  <2>5. type_problems(tb, t, None, TRUE, TRUE)
          = type_problems(CapabilityTable(R, O, P), t, None, TRUE, TRUE)
    <3>1. SamePaths(R, O, Q, O, P, t)
      BY <1>2, <1>7, <2>1, <2>3, LadderOf DEF SamePaths
    <3>2. \A c, b : type_problems(CapabilityTable(R, O, Q), t, None, c, b)
                      = type_problems(CapabilityTable(R, O, P), t, None, c, b)
      BY <3>1, ProblemsDependOn
    <3> QED
      BY <2>4, <3>2
  <2>6. type_problems(Unpinned(tb, t), t, None, TRUE, TRUE)
          = type_problems(CapabilityTable(R, O, <<>>), t, None, TRUE, TRUE)
    <3>1. SamePaths(R, O, PinsWithout(Q, t), O, <<>>, t)
      BY <2>2, <2>3, LadderOf DEF SamePaths
    <3>2. \A c, b : type_problems(CapabilityTable(R, O, PinsWithout(Q, t)), t, None, c, b)
                      = type_problems(CapabilityTable(R, O, <<>>), t, None, c, b)
      BY <3>1, ProblemsDependOn
    <3> QED
      BY <2>4, <3>2
  <2>7. Unpinned(tb, t).operational = O
    BY <2>4 DEF CapabilityTable
  <2>8. Troubles(tb, t) \subseteq Troubles(Unpinned(tb, t), t) <=> Usable(R, O, P, t)
    BY <1>6, <2>5, <2>6, <2>7 DEF Troubles, Usable
  <2>9. without_unusable_pin(tb, t) = IF Usable(R, O, P, t) THEN tb ELSE Unpinned(tb, t)
    BY <1>6, <1>7, <2>8 DEF without_unusable_pin
  <2>10. without_unusable_pin(tb, t) = CapabilityTable(R, O, Kept(R, O, P, n + 1))
    BY <1>5, <2>4, <2>9
  <2> QED
    BY <2>10 DEF tb, t, Q
<1>8. CASE t \notin DOMAIN Q
  <2>1. without_unusable_pin(tb, t) = tb
    BY <1>6, <1>8 DEF without_unusable_pin
  <2>2. PinsWithout(Q, t) = Q
    <3>1. Q = [u \in DOMAIN Q |-> P[u]] /\ DOMAIN Q \ {t} = DOMAIN Q
      BY <1>8 DEF Kept
    <3> HIDE DEF Q, t
    <3> QED
      BY <1>1, <3>1
  <2> QED
    BY <1>5, <2>1, <2>2
<1> QED
  BY <1>7, <1>8

\* What setting pins aside comes to, when no gate is pinned.
LEMMA PinsSetAside ==
  ASSUME NEW R, NEW O, NEW P, DOMAIN P \cap GateTypes = {}, P = [u \in DOMAIN P |-> P[u]]
  PROVE  without_unusable_pins(CapabilityTable(R, O, P))
            = CapabilityTable(R, O, Kept(R, O, P, Len(TypeOrder)))
<1> DEFINE tb == CapabilityTable(R, O, P)
           N == Len(TypeOrder)
           Holds(i) == TablesTried(tb)[i] = CapabilityTable(R, O, Kept(R, O, P, i))
           Bad == {i \in 0..N : ~ Holds(i)}
<1>1. N \in Nat /\ DOMAIN TypeOrder = 1..N
  BY TypesAreOrdered
<1>2. Holds(0)
  <2>1. Kept(R, O, P, 0) = [u \in DOMAIN P |-> P[u]]
    BY DEF Kept
  <2> QED
    BY <2>1, TablesTriedSteps
<1>3. ASSUME NEW i \in 0..N, Holds(i), i # N
      PROVE  Holds(i + 1)
  <2>1. i \in Nat /\ i + 1 \in 1..N /\ (i + 1) - 1 = i
    BY <1>1, <1>3
  <2>2. TablesTried(tb)[i + 1] = without_unusable_pin(TablesTried(tb)[i], TypeOrder[i + 1])
    BY <2>1, TablesTriedSteps
  <2> QED
    BY <1>1, <1>3, <2>1, <2>2, OnePin
<1> HIDE DEF Holds
<1>4. Bad = {}
  <2>1. SUFFICES ASSUME Bad # {}
                 PROVE  FALSE
    OBVIOUS
  <2>2. Bad \subseteq Nat
    BY <1>1
  <2>3. PICK m \in Bad : \A b \in Bad : m <= b
    BY <2>1, <2>2, LeastOf
  <2>4. m \in 0..N /\ ~ Holds(m) /\ m # 0
    BY <1>2, <2>3
  <2>5. m - 1 \in 0..N /\ m - 1 # N /\ ~ (m <= m - 1) /\ (m - 1) + 1 = m
    BY <1>1, <2>4
  <2>6. Holds(m - 1)
    BY <2>3, <2>5
  <2> QED
    BY <1>3, <2>4, <2>5, <2>6
<1>5. Holds(N)
  BY <1>1, <1>4
<1> QED
  BY <1>5 DEF Holds, without_unusable_pins


----------------------------------------------------------------------------
\* The problems of a type, by kind: those of its shape come from the rows, the
\* rungs and the gates; the rest from one operator each.
Shape(A, t) ==
       {<<t, "blank", m>> : m \in {k \in ladder_eligible(A.rows, t) :
                                      None \in {A.rows[<<k, t>>].latency, A.rows[<<k, t>>].window}}}
  \cup (IF ladder(A, t) = <<>> THEN {<<t, "empty", None>>} ELSE {})
  \cup {<<t, "no row", m>> : m \in ToSet(ladder(A, t)) \ rows_for(A.rows, t)}
  \cup {<<t, "gate off", g>> : g \in gates_of(t) \ A.operational}
  \cup PathUnknown(A, t)
  \cup CostUnknown(A, t)

OfKind(S, kind) == \A p \in S : p[2] = kind

NotOfKind(S, kinds) == \A p \in S : p[2] \notin kinds
OtherKinds == {"unresolved", "ceiling", "budget"}

LEMMA ProblemsByKind ==
  ASSUME NEW A, NEW t
  PROVE  /\ \A k, c, b : type_problems(A, t, k, c, b)
                = Shape(A, t) \cup resolution_problems(A, t, k)
                  \cup (IF c THEN ceiling_breach(A, t) ELSE {})
                  \cup (IF b THEN budget_breach(A, t) ELSE {})
         /\ NotOfKind(Shape(A, t), OtherKinds)
         /\ \A k : OfKind(resolution_problems(A, t, k), "unresolved")
         /\ OfKind(ceiling_breach(A, t), "ceiling")
         /\ OfKind(budget_breach(A, t), "budget")
<1>1. \A k, c, b : type_problems(A, t, k, c, b)
                = Shape(A, t) \cup resolution_problems(A, t, k)
                  \cup (IF c THEN ceiling_breach(A, t) ELSE {})
                  \cup (IF b THEN budget_breach(A, t) ELSE {})
  BY DEF type_problems, Shape
<1>2. NotOfKind(PathUnknown(A, t), OtherKinds)
  <2>1. \A g : <<t, "no gate entry", g>>[2] \notin OtherKinds
               /\ <<t, "no gate climb", g>>[2] \notin OtherKinds
               /\ <<t, "no latency", g>>[2] \notin OtherKinds
               /\ <<t, "no reference", g>>[2] \notin OtherKinds
    BY DEF OtherKinds
  <2> QED
    BY <2>1 DEF PathUnknown, NotOfKind
<1>3. NotOfKind(CostUnknown(A, t), OtherKinds)
  <2>1. \A m : <<t, "no cost", m>>[2] \notin OtherKinds
    BY DEF OtherKinds
  <2> QED
    BY <2>1 DEF CostUnknown, NotOfKind
<1>4. NotOfKind(Shape(A, t), OtherKinds)
  <2>1. \A m : <<t, "blank", m>>[2] \notin OtherKinds
               /\ <<t, "empty", m>>[2] \notin OtherKinds
               /\ <<t, "no row", m>>[2] \notin OtherKinds
               /\ <<t, "gate off", m>>[2] \notin OtherKinds
    BY DEF OtherKinds
  <2> QED
    BY <1>2, <1>3, <2>1 DEF Shape, NotOfKind
<1>5. \A k : OfKind(resolution_problems(A, t, k), "unresolved")
  BY DEF resolution_problems, OfKind
<1>6. OfKind(ceiling_breach(A, t), "ceiling")
  BY DEF ceiling_breach, OfKind
<1>7. OfKind(budget_breach(A, t), "budget")
  BY DEF budget_breach, OfKind
<1> QED
  BY <1>1, <1>4, <1>5, <1>6, <1>7

\* A type that has no problem more with one table than with another when both
\* knobs are on and the models served are not known, has none more whatever
\* the knobs, nor when they are known and serve its ladder.
LEMMA NoneMore ==
  ASSUME NEW A, NEW B, NEW t, NEW k, NEW c \in BOOLEAN, NEW b \in BOOLEAN,
         type_problems(A, t, None, TRUE, TRUE) \subseteq type_problems(B, t, None, TRUE, TRUE),
         k # None => ToSet(ladder(A, t)) \subseteq k
  PROVE  type_problems(A, t, k, c, b) \subseteq type_problems(B, t, k, c, b)
<1>1. \A X \in {A, B} : type_problems(X, t, None, TRUE, TRUE)
                = Shape(X, t) \cup resolution_problems(X, t, None)
                  \cup ceiling_breach(X, t) \cup budget_breach(X, t)
  <2>1. \A X, x, y : type_problems(X, t, None, x, y)
                = Shape(X, t) \cup resolution_problems(X, t, None)
                  \cup (IF x THEN ceiling_breach(X, t) ELSE {})
                  \cup (IF y THEN budget_breach(X, t) ELSE {})
    BY ProblemsByKind
  <2> QED
    BY <2>1
<1>2. Shape(A, t) \subseteq Shape(B, t)
      /\ resolution_problems(A, t, None) \subseteq resolution_problems(B, t, None)
      /\ ceiling_breach(A, t) \subseteq ceiling_breach(B, t)
      /\ budget_breach(A, t) \subseteq budget_breach(B, t)
  <2>1. \A X \in {A, B} : /\ NotOfKind(Shape(X, t), OtherKinds)
                          /\ OfKind(resolution_problems(X, t, None), "unresolved")
                          /\ OfKind(ceiling_breach(X, t), "ceiling")
                          /\ OfKind(budget_breach(X, t), "budget")
    BY ProblemsByKind
  <2>2. Shape(A, t) \subseteq Shape(B, t)
    BY <1>1, <2>1 DEF OfKind, NotOfKind, OtherKinds
  <2>3. resolution_problems(A, t, None) \subseteq resolution_problems(B, t, None)
    BY <1>1, <2>1 DEF OfKind, NotOfKind, OtherKinds
  <2>4. ceiling_breach(A, t) \subseteq ceiling_breach(B, t)
    BY <1>1, <2>1 DEF OfKind, NotOfKind, OtherKinds
  <2>5. budget_breach(A, t) \subseteq budget_breach(B, t)
    BY <1>1, <2>1 DEF OfKind, NotOfKind, OtherKinds
  <2> QED
    BY <2>2, <2>3, <2>4, <2>5
<1>3. resolution_problems(A, t, k) \subseteq resolution_problems(B, t, k)
  BY <1>2 DEF resolution_problems
<1>4. \A X \in {A, B} : type_problems(X, t, k, c, b)
                = Shape(X, t) \cup resolution_problems(X, t, k)
                  \cup (IF c THEN ceiling_breach(X, t) ELSE {})
                  \cup (IF b THEN budget_breach(X, t) ELSE {})
  BY ProblemsByKind
<1> QED
  BY <1>2, <1>3, <1>4

\* The pins a boot goes by.
Pins(R, O, P) == Kept(R, O, P, Len(TypeOrder))

LEMMA PinsOf ==
  ASSUME NEW R, NEW O \in SUBSET Types, NEW P
  PROVE  /\ DOMAIN Pins(R, O, P) \subseteq DOMAIN P
         /\ \A u \in DOMAIN Pins(R, O, P) : Pins(R, O, P)[u] = P[u]
         /\ \A u \in O : u \in DOMAIN Pins(R, O, P) <=> u \in DOMAIN P /\ Usable(R, O, P, u)
<1>1. Types = {TypeOrder[j] : j \in 1..Len(TypeOrder)}
  BY TypesAreOrdered DEF Types
<1>2. \A u \in Types : \E j \in 1..Len(TypeOrder) : TypeOrder[j] = u
  BY <1>1
<1> QED
  BY <1>2 DEF Pins, Kept

\* Windows are the rows' business.
LEMMA WindowsOf ==
  ASSUME NEW R, NEW O, NEW P, NEW Q
  PROVE  max_context_problems(CapabilityTable(R, O, P)) = max_context_problems(CapabilityTable(R, O, Q))
<1>1. /\ CapabilityTable(R, O, P).rows = CapabilityTable(R, O, Q).rows
      /\ CapabilityTable(R, O, P).operational = CapabilityTable(R, O, Q).operational
  BY DEF CapabilityTable
<1>2. \A m : windows(CapabilityTable(R, O, P), m) = windows(CapabilityTable(R, O, Q), m)
  BY <1>1 DEF windows
<1> QED
  BY <1>2 DEF max_context_problems

OrdinaryAt(P, k) ==
    /\ P = [u \in DOMAIN P |-> P[u]]
    /\ DOMAIN P \cap GateTypes = {}
    /\ k # None => \A t \in DOMAIN P : ToSet(P[t]) \subseteq k

\* Setting pins aside leaves no problem that having none would not.
LEMMA OrdinaryPinsOnlyRemove ==
  ASSUME NEW R, NEW O \in SUBSET Types, NEW P, NEW k, NEW c \in BOOLEAN, NEW b \in BOOLEAN,
         OrdinaryAt(P, k)
  PROVE  validate(without_unusable_pins(CapabilityTable(R, O, P)), k, c, b)
            \subseteq validate(CapabilityTable(R, O, <<>>), k, c, b)
<1> DEFINE Q == Pins(R, O, P)
           A == CapabilityTable(R, O, Q)
           N == CapabilityTable(R, O, <<>>)
<1>1. without_unusable_pins(CapabilityTable(R, O, P)) = A
  BY PinsSetAside DEF OrdinaryAt, Pins
<1>2. /\ DOMAIN Q \subseteq DOMAIN P
      /\ \A u \in DOMAIN Q : Q[u] = P[u]
      /\ \A u \in O : u \in DOMAIN Q <=> u \in DOMAIN P /\ Usable(R, O, P, u)
  BY PinsOf
<1>3. A.operational = O /\ N.operational = O
  BY DEF CapabilityTable
<1>4. DOMAIN P \cap GateTypes = {} /\ DOMAIN <<>> = {}
  BY DEF OrdinaryAt
<1> HIDE DEF Q
<1>5. ASSUME NEW t \in O
      PROVE  type_problems(A, t, k, c, b) \subseteq type_problems(N, t, k, c, b)
  <2>1. CASE t \notin DOMAIN Q
    <3>1. SamePaths(R, O, Q, O, <<>>, t)
      BY <1>2, <1>4, <2>1, GatesOf, LadderOf DEF SamePaths
    <3>2. type_problems(A, t, k, c, b) = type_problems(N, t, k, c, b)
      BY <3>1, ProblemsDependOn
    <3> QED
      BY <3>2
  <2>2. CASE t \in DOMAIN Q
    <3>1. SamePaths(R, O, Q, O, P, t)
      BY <1>2, <1>4, <2>2, GatesOf, LadderOf DEF SamePaths
    <3>2. \A x, y : type_problems(A, t, None, x, y)
                      = type_problems(CapabilityTable(R, O, P), t, None, x, y)
      BY <3>1, ProblemsDependOn
    <3>3. type_problems(CapabilityTable(R, O, P), t, None, TRUE, TRUE)
             \subseteq type_problems(N, t, None, TRUE, TRUE)
      BY <1>2, <2>2 DEF Usable
    <3>4. type_problems(A, t, None, TRUE, TRUE) \subseteq type_problems(N, t, None, TRUE, TRUE)
      BY <3>2, <3>3
    <3>5. k # None => ToSet(ladder(A, t)) \subseteq k
      BY <1>2, <2>2, LadderOf DEF OrdinaryAt
    <3> HIDE DEF A, N
    <3> QED
      BY <3>4, <3>5, NoneMore
  <2> QED
    BY <2>1, <2>2
<1>6. max_context_problems(A) = max_context_problems(N)
  BY WindowsOf
<1> HIDE DEF A, N
<1>7. validate(A, k, c, b) \subseteq validate(N, k, c, b)
  BY <1>3, <1>5, <1>6 DEF validate
<1> QED
  BY <1>1, <1>7 DEF N

----------------------------------------------------------------------------
\* What a boot makes of the settings.
StoredOK(s) ==
    /\ s = [rows |-> s.rows, operational |-> s.operational, pins |-> s.pins,
            ceiling |-> s.ceiling, budget |-> s.budget, enabled |-> s.enabled]
    /\ s.operational \subseteq Types
    /\ s.ceiling \in BOOLEAN /\ s.budget \in BOOLEAN /\ s.enabled \in BOOLEAN
    /\ s.pins = [u \in DOMAIN s.pins |-> s.pins[u]]

\* Whatever is pinned, setting pins aside leaves the rows and the types.
LEMMA OnlyPinsGo ==
  ASSUME NEW R, NEW O, NEW P
  PROVE  \E Q : without_unusable_pins(CapabilityTable(R, O, P)) = CapabilityTable(R, O, Q)
<1> DEFINE tb == CapabilityTable(R, O, P)
           N == Len(TypeOrder)
           Holds(i) == \E Q : TablesTried(tb)[i] = CapabilityTable(R, O, Q)
           Bad == {i \in 0..N : ~ Holds(i)}
<1>1. N \in Nat /\ DOMAIN TypeOrder = 1..N
  BY TypesAreOrdered
<1>6. \A i \in 0..N : i # N => i \in Nat /\ i + 1 \in 1..N /\ (i + 1) - 1 = i
  BY <1>1, NextPlace
<1>2. Holds(0)
  BY TablesTriedSteps
<1>3. ASSUME NEW i \in 0..N, Holds(i), i # N
      PROVE  Holds(i + 1)
  <2>1. i \in Nat /\ i + 1 \in 1..N /\ (i + 1) - 1 = i
    BY <1>3, <1>6
  <2>2. TablesTried(tb)[i + 1] = without_unusable_pin(TablesTried(tb)[i], TypeOrder[i + 1])
    BY <2>1, TablesTriedSteps
  <2>3. PICK Q : TablesTried(tb)[i] = CapabilityTable(R, O, Q)
    BY <1>3
  <2>4. TablesTried(tb)[i + 1] \in {CapabilityTable(R, O, Q), CapabilityTable(R, O, PinsWithout(Q, TypeOrder[i + 1]))}
    BY <2>2, <2>3, UnpinnedTable DEF without_unusable_pin
  <2> QED
    BY <2>4
<1> HIDE DEF Holds
<1>4. Bad = {}
  <2>1. SUFFICES ASSUME Bad # {}
                 PROVE  FALSE
    OBVIOUS
  <2>2. Bad \subseteq Nat
    BY <1>1
  <2>3. PICK m \in Bad : \A b \in Bad : m <= b
    BY <2>1, <2>2, LeastOf
  <2>4. m \in 0..N /\ ~ Holds(m) /\ m # 0
    BY <1>2, <2>3
  <2>5. m - 1 \in 0..N /\ m - 1 # N /\ ~ (m <= m - 1) /\ (m - 1) + 1 = m
    BY <1>1, <2>4
  <2>6. Holds(m - 1)
    BY <2>3, <2>5
  <2> QED
    BY <1>3, <2>4, <2>5, <2>6
<1>5. Holds(N)
  BY <1>1, <1>4
<1> QED
  BY <1>5 DEF Holds, without_unusable_pins

LEMMA NothingToValidate ==
  ASSUME NEW R, NEW P, NEW k, NEW c, NEW b
  PROVE  validate(CapabilityTable(R, {}, P), k, c, b) = {}
<1> DEFINE tb == CapabilityTable(R, {}, P)
<1>1. tb.operational = {}
  BY DEF CapabilityTable
<1> HIDE DEF tb
<1>2. max_context_problems(tb) = {}
  <2>1. \A m : windows(tb, m) = {}
    BY <1>1 DEF windows
  <2>2. Cardinality({}) = 0
    BY FS_EmptySet
  <2> QED
    BY <2>1, <2>2 DEF max_context_problems
<1>3. UNION {type_problems(tb, t, k, c, b) : t \in tb.operational} = {}
  BY <1>1
<1> QED
  BY <1>2, <1>3 DEF validate, tb

\* A row.
LEMMA RowBoots ==
  ASSUME NEW s, NEW k, NEW w, StoredOK(s), w.kind = "row", row_refusals(s, k, w) = {}
  PROVE  Boots(Store(s, w), k)
<1> DEFINE z == Store(s, w)
<1>1. z = [s EXCEPT !.rows = Put(s.rows, w.key, w.row)]
  BY DEF Store
<1>2. /\ z.operational = s.operational /\ z.ceiling = s.ceiling
      /\ z.budget = s.budget /\ z.enabled = s.enabled
  BY <1>1 DEF StoredOK
<1> HIDE DEF z
<1>3. CASE s.operational = {}
  <2>1. PICK Q : boot_shaped_table(z) = CapabilityTable(z.rows, {}, Q)
    BY <1>2, <1>3, OnlyPinsGo DEF boot_shaped_table, Table
  <2>2. problems_with(boot_shaped_table(z), z, k) = {}
    BY <2>1, NothingToValidate DEF problems_with
  <2> QED
    BY <2>2 DEF Boots, boot_problems, z
<1>4. CASE s.operational # {}
  <2>1. problems_with(boot_shaped_table(z), s, k) = {}
    BY <1>4 DEF row_refusals, z
  <2>2. problems_with(boot_shaped_table(z), z, k) = {}
    BY <1>2, <2>1 DEF problems_with
  <2> QED
    BY <2>2 DEF Boots, boot_problems, z
<1> QED
  BY <1>3, <1>4

LEMMA NoProblem ==
  ASSUME NEW A, NEW k, NEW c, NEW b
  PROVE  validate(A, k, c, b) = {}
            <=> /\ max_context_problems(A) = {}
                /\ \A t \in A.operational : type_problems(A, t, k, c, b) = {}
BY DEF validate

\* Both knobs are validated one at a time.
LEMMA KnobByKnob ==
  ASSUME NEW A, NEW k, NEW c \in BOOLEAN, NEW b \in BOOLEAN, NEW c1 \in BOOLEAN, NEW b1 \in BOOLEAN,
         NEW c2 \in BOOLEAN, NEW b2 \in BOOLEAN,
         validate(A, k, c1, b1) = {}, validate(A, k, c2, b2) = {},
         c => c1 \/ c2, b => b1 \/ b2
  PROVE  validate(A, k, c, b) = {}
<1>1. max_context_problems(A) = {}
  BY NoProblem
<1>2. ASSUME NEW t \in A.operational
      PROVE  type_problems(A, t, k, c, b) = {}
  <2>1. type_problems(A, t, k, c1, b1) = {} /\ type_problems(A, t, k, c2, b2) = {}
    BY NoProblem
  <2>2. \A x, y : type_problems(A, t, k, x, y)
                = Shape(A, t) \cup resolution_problems(A, t, k)
                  \cup (IF x THEN ceiling_breach(A, t) ELSE {})
                  \cup (IF y THEN budget_breach(A, t) ELSE {})
    BY ProblemsByKind
  <2> QED
    BY <2>1, <2>2
<1> QED
  BY <1>1, <1>2, NoProblem

\* A knob.
LEMMA KnobBoots ==
  ASSUME NEW s, NEW k, NEW w, StoredOK(s), w.kind \in {"ceiling", "budget"}, w.on \in BOOLEAN,
         Refusals(s, k, w) = {}, Boots(s, k)
  PROVE  Boots(Store(s, w), k)
<1> DEFINE z == Store(s, w)
           A == boot_shaped_table(s)
<1>1. z = [s EXCEPT ![w.kind] = w.on]
  BY DEF Store
<1>2. /\ z.rows = s.rows /\ z.operational = s.operational /\ z.pins = s.pins
      /\ z.enabled = s.enabled
      /\ z.ceiling = (IF w.kind = "ceiling" THEN w.on ELSE s.ceiling)
      /\ z.budget = (IF w.kind = "budget" THEN w.on ELSE s.budget)
  BY <1>1 DEF StoredOK
<1> HIDE DEF z
<1>3. boot_shaped_table(z) = A
  BY <1>2 DEF boot_shaped_table, Table
<1> HIDE DEF A
<1>4. CASE ~ s.enabled
  BY <1>2, <1>4 DEF Boots, boot_problems, z
<1>5. CASE s.enabled
  <2>1. validate(A, k, s.ceiling, s.budget) = {}
    BY <1>5 DEF Boots, boot_problems, problems_with, A
  <2>2. s.ceiling \in BOOLEAN /\ s.budget \in BOOLEAN
    BY DEF StoredOK
  <2>3. \E c, b \in BOOLEAN : /\ validate(A, k, c, b) = {}
                              /\ z.ceiling => c \/ s.ceiling
                              /\ z.budget => b \/ s.budget
    <3>1. CASE w.kind = "ceiling" /\ w.on = TRUE
      <4>1. validate(A, k, TRUE, FALSE) = {}
        BY <3>1 DEF Refusals, ceiling_refusals, A
      <4> QED
        BY <1>2, <3>1, <4>1
    <3>2. CASE w.kind = "budget" /\ w.on = TRUE
      <4>1. validate(A, k, FALSE, TRUE) = {}
        BY <3>2 DEF Refusals, budget_refusals, A
      <4> QED
        BY <1>2, <3>2, <4>1
    <3>3. CASE w.on = FALSE
      BY <1>2, <2>1, <2>2, <3>3
    <3> QED
      BY <3>1, <3>2, <3>3
  <2>4. z.ceiling \in BOOLEAN /\ z.budget \in BOOLEAN
    BY <1>2, <2>2
  <2>5. validate(A, k, z.ceiling, z.budget) = {}
    BY <2>1, <2>2, <2>3, <2>4, KnobByKnob
  <2> QED
    BY <1>3, <2>5 DEF Boots, boot_problems, problems_with, z
<1> QED
  BY <1>4, <1>5

\* The switch of the whole.
LEMMA EnabledBoots ==
  ASSUME NEW s, NEW k, NEW w, StoredOK(s), w.kind = "enabled", w.on \in BOOLEAN,
         OrdinaryAt(s.pins, k), Refusals(s, k, w) = {}
  PROVE  Boots(Store(s, w), k)
<1> DEFINE z == Store(s, w)
<1>1. z = [s EXCEPT ![w.kind] = w.on]
  BY DEF Store
<1>2. /\ z.rows = s.rows /\ z.operational = s.operational /\ z.pins = s.pins
      /\ z.ceiling = s.ceiling /\ z.budget = s.budget /\ z.enabled = w.on
  BY <1>1 DEF StoredOK
<1> HIDE DEF z
<1>3. CASE ~ w.on
  BY <1>2, <1>3 DEF Boots, boot_problems, z
<1>4. CASE w.on
  <2>1. validate(CapabilityTable(s.rows, s.operational, <<>>), k, s.ceiling, s.budget) = {}
    BY <1>4 DEF Refusals, enabled_refusals, problems_with, WithoutPins
  <2>2. validate(without_unusable_pins(CapabilityTable(s.rows, s.operational, s.pins)), k,
                 s.ceiling, s.budget)
           \subseteq validate(CapabilityTable(s.rows, s.operational, <<>>), k, s.ceiling, s.budget)
    BY OrdinaryPinsOnlyRemove DEF StoredOK
  <2>3. validate(boot_shaped_table(z), k, z.ceiling, z.budget) = {}
    BY <1>2, <2>1, <2>2 DEF boot_shaped_table, Table
  <2> QED
    BY <2>3 DEF Boots, boot_problems, problems_with, z
<1> QED
  BY <1>3, <1>4

\* A type that is turned on.
LEMMA TypeOnBoots ==
  ASSUME NEW s, NEW k, NEW w, StoredOK(s), w.kind = "operational", w.type \in Types, w.on = TRUE,
         OrdinaryAt(s.pins, k), Refusals(s, k, w) = {}
  PROVE  Boots(Store(s, w), k)
<1> DEFINE z == Store(s, w)
<1>1. z = [s EXCEPT !.operational = s.operational \cup {w.type}]
  BY DEF Store
<1>2. /\ z.operational \subseteq Types /\ z.pins = s.pins
      /\ z.ceiling = s.ceiling /\ z.budget = s.budget
  BY <1>1 DEF StoredOK
<1> HIDE DEF z
<1>3. validate(CapabilityTable(z.rows, z.operational, <<>>), k, s.ceiling, s.budget) = {}
  BY DEF Refusals, operational_refusals, problems_with, WithoutPins, z
<1>4. validate(without_unusable_pins(CapabilityTable(z.rows, z.operational, s.pins)), k,
               s.ceiling, s.budget)
         \subseteq validate(CapabilityTable(z.rows, z.operational, <<>>), k, s.ceiling, s.budget)
  BY <1>2, OrdinaryPinsOnlyRemove DEF StoredOK
<1>5. validate(boot_shaped_table(z), k, z.ceiling, z.budget) = {}
  BY <1>2, <1>3, <1>4 DEF boot_shaped_table, Table
<1> QED
  BY <1>5 DEF Boots, boot_problems, problems_with, z

LEMMA ImageOf ==
  ASSUME NEW S, IsFiniteSet(S), NEW f, DOMAIN f = S
  PROVE  /\ IsFiniteSet({f[x] : x \in S})
         /\ Cardinality({f[x] : x \in S}) <= Cardinality(S)
<1> DEFINE T == {f[x] : x \in S}
           g == [x \in S |-> f[x]]
<1>1. g \in Surjection(S, T)
  BY DEF Surjection
<1> QED
  BY <1>1, FS_Surjection

\* A type that is turned off: a gate only when none runs on it.
LEMMA WindowsShrink ==
  ASSUME NEW R, NEW O \in SUBSET Types, NEW O2 \in SUBSET O, NEW P, NEW Q,
         max_context_problems(CapabilityTable(R, O, P)) = {}
  PROVE  max_context_problems(CapabilityTable(R, O2, Q)) = {}
<1> DEFINE A == CapabilityTable(R, O, P)
           B == CapabilityTable(R, O2, Q)
<1>1. A.rows = R /\ A.operational = O /\ B.rows = R /\ B.operational = O2
  BY DEF CapabilityTable
<1> HIDE DEF A, B
<1>2. IsFiniteSet(O)
  <2>1. Len(TypeOrder) \in Nat /\ DOMAIN TypeOrder = 1..Len(TypeOrder)
    BY TypesAreOrdered
  <2>2. IsFiniteSet(DOMAIN TypeOrder)
    BY <2>1, FS_Interval
  <2>3. IsFiniteSet(Types)
    BY <2>2, ImageOf DEF Types
  <2> QED
    BY <2>3, FS_Subset
<1>3. \A m : windows(B, m) \subseteq windows(A, m)
  BY <1>1 DEF windows
<1>4. \A m : IsFiniteSet(windows(A, m))
  <2>1. TAKE m
  <2> DEFINE S == {u \in O : m \in rows_for(R, u)}
  <2>2. IsFiniteSet(S)
    BY <1>2, FS_Subset
  <2> HIDE DEF S
  <2>3. IsFiniteSet({R[<<m, t>>].window : t \in S})
    <3> DEFINE f == [t \in S |-> R[<<m, t>>].window]
    <3>3. DOMAIN f = S
      OBVIOUS
    <3>1. IsFiniteSet({f[t] : t \in S})
      <4> HIDE DEF f
      <4> QED
        BY <2>2, <3>3, ImageOf
    <3>2. {f[t] : t \in S} = {R[<<m, t>>].window : t \in S}
      OBVIOUS
    <3> QED
      BY <3>1, <3>2
  <2>4. windows(A, m) \subseteq {R[<<m, t>>].window : t \in S}
    BY <1>1 DEF windows, S
  <2> QED
    BY <2>3, <2>4, FS_Subset
<1>5. \A m \in Models : ~ (Cardinality(windows(A, m)) > 1)
  BY DEF max_context_problems, A
<1>6. \A m \in Models : ~ (Cardinality(windows(B, m)) > 1)
  <2>1. TAKE m \in Models
  <2>2. Cardinality(windows(B, m)) <= Cardinality(windows(A, m)) /\ IsFiniteSet(windows(B, m))
    BY <1>3, <1>4, FS_Subset
  <2>3. Cardinality(windows(B, m)) \in Nat /\ Cardinality(windows(A, m)) \in Nat
    BY <1>4, <2>2, FS_CardinalityType
  <2> QED
    BY <1>5, <2>2, <2>3
<1> QED
  BY <1>6 DEF max_context_problems, B

LEMMA TypeOffBoots ==
  ASSUME NEW s, NEW k, NEW w, StoredOK(s), w.kind = "operational", w.on = FALSE,
         OrdinaryAt(s.pins, k), Refusals(s, k, w) = {}, Boots(s, k)
  PROVE  Boots(Store(s, w), k)
<1> DEFINE z == Store(s, w)
           R == s.rows
           O == s.operational
           O2 == s.operational \ {w.type}
           P == s.pins
           A == CapabilityTable(R, O, Pins(R, O, P))
           B == CapabilityTable(R, O2, Pins(R, O2, P))
<1>1. z = [s EXCEPT !.operational = O2]
  BY DEF Store
<1>2. /\ z.rows = R /\ z.operational = O2 /\ z.pins = P
      /\ z.ceiling = s.ceiling /\ z.budget = s.budget /\ z.enabled = s.enabled
  BY <1>1 DEF StoredOK
<1>3. O \subseteq Types /\ O2 \subseteq Types /\ O2 \subseteq O /\ w.type \notin O2
  BY DEF StoredOK
<1> HIDE DEF z, R, O, O2, P
<1>4. /\ boot_shaped_table(z) = B
      /\ boot_shaped_table(s) = A
  BY <1>2, PinsSetAside DEF boot_shaped_table, Table, OrdinaryAt, Pins, R, O, P
<1>5. CASE ~ s.enabled
  BY <1>2, <1>5 DEF Boots, boot_problems, z
<1>6. CASE s.enabled
  <2>1. validate(A, k, s.ceiling, s.budget) = {}
    BY <1>4, <1>6 DEF Boots, boot_problems, problems_with
  <2>2. A.operational = O /\ B.operational = O2
    BY DEF CapabilityTable
  <2>3. max_context_problems(B) = {}
    <3>1. max_context_problems(A) = {}
      BY <2>1, NoProblem
    <3> QED
      BY <1>3, <3>1, WindowsShrink
  <2>4. ASSUME NEW t \in O2
        PROVE  gates_of(t) \ O = gates_of(t) \ O2
    <3>1. CASE t \in GateTypes
      BY <3>1 DEF gates_of
    <3>2. CASE t \notin GateTypes
      <4>1. gate_refusals(s, w) = {}
        BY DEF Refusals, operational_refusals
      <4>2. w.type \notin GateTypes
        <5>1. t \in dependents(s)
          BY <1>3, <3>2 DEF dependents, O
        <5> QED
          BY <4>1, <5>1 DEF gate_refusals
      <4> QED
        BY <4>2, GatesOf DEF O, O2
    <3> QED
      BY <3>1, <3>2
  <2>5. \A o \in {O, O2} :
           /\ DOMAIN Pins(R, o, P) \subseteq DOMAIN P
           /\ \A u \in DOMAIN Pins(R, o, P) : Pins(R, o, P)[u] = P[u]
           /\ \A u \in o : u \in DOMAIN Pins(R, o, P) <=> u \in DOMAIN P /\ Usable(R, o, P, u)
    <3>1. TAKE o \in {O, O2}
    <3>2. o \in SUBSET Types
      BY <1>3
    <3> QED
      BY <3>2, PinsOf
  <2>6. DOMAIN P \cap GateTypes = {} /\ DOMAIN <<>> = {}
    BY DEF OrdinaryAt, P
  <2>7. ASSUME NEW t \in O2
        PROVE  Usable(R, O2, P, t) <=> Usable(R, O, P, t)
    <3>1. SamePaths(R, O, P, O2, P, t) /\ SamePaths(R, O, <<>>, O2, <<>>, t)
      BY <2>4, LadderOf DEF SamePaths
    <3>2. \A x, y : type_problems(CapabilityTable(R, O, P), t, None, x, y)
                      = type_problems(CapabilityTable(R, O2, P), t, None, x, y)
      BY <3>1, ProblemsDependOn
    <3>3. \A x, y : type_problems(CapabilityTable(R, O, <<>>), t, None, x, y)
                      = type_problems(CapabilityTable(R, O2, <<>>), t, None, x, y)
      BY <3>1, ProblemsDependOn
    <3>4. type_problems(CapabilityTable(R, O, P), t, None, TRUE, TRUE)
             = type_problems(CapabilityTable(R, O2, P), t, None, TRUE, TRUE)
      BY <3>2
    <3>5. type_problems(CapabilityTable(R, O, <<>>), t, None, TRUE, TRUE)
             = type_problems(CapabilityTable(R, O2, <<>>), t, None, TRUE, TRUE)
      BY <3>3
    <3> QED
      BY <1>3, <3>4, <3>5 DEF Usable
  <2>8. ASSUME NEW t \in O2
        PROVE  type_problems(B, t, k, s.ceiling, s.budget) = {}
    <3>1. SamePaths(R, O, Pins(R, O, P), O2, Pins(R, O2, P), t)
      <4>1. t \in DOMAIN Pins(R, O, P) <=> t \in DOMAIN Pins(R, O2, P)
        BY <1>3, <2>5, <2>7
      <4> QED
        BY <2>4, <2>5, <2>6, <4>1, GatesOf, LadderOf DEF SamePaths
    <3>2. type_problems(A, t, k, s.ceiling, s.budget) = {}
      BY <1>3, <2>1, <2>2, NoProblem
    <3>3. type_problems(A, t, k, s.ceiling, s.budget) = type_problems(B, t, k, s.ceiling, s.budget)
      BY <3>1, ProblemsDependOn
    <3> QED
      BY <3>2, <3>3
  <2>9. validate(B, k, s.ceiling, s.budget) = {}
    BY <2>2, <2>3, <2>8, NoProblem
  <2> QED
    BY <1>2, <1>4, <2>9 DEF Boots, boot_problems, problems_with, z
<1> QED
  BY <1>5, <1>6

----------------------------------------------------------------------------
\* The inductive invariant.  What a request will write is well formed, and
\* while nothing else was written it is what its handler did not refuse.
WriteOK(s, w) ==
    \/ w.kind = "row" /\ w.key \in Models \X Types /\ w.row \in Row
    \/ w.kind = "operational" /\ w.type \in Types /\ w.on \in BOOLEAN
    \/ /\ w.kind = "pin" /\ w.type \in Types
       /\ w.rungs # None => /\ Len(w.rungs) <= attempts(w.type)
                            /\ Cardinality(ToSet(w.rungs)) = Len(w.rungs)
                            /\ rows_for(s.rows, w.type) # {}
    \/ w.kind \in {"ceiling", "budget", "enabled"} /\ w.on \in BOOLEAN

RequestsOK ==
    /\ req = [r \in Requests |-> [at |-> req[r].at, write |-> req[r].write, alone |-> req[r].alone]]
    /\ \A r \in Requests :
          req[r].at = "write" =>
              /\ WriteOK(stored, req[r].write)
              /\ req[r].alone => Refusals(stored, known, req[r].write) = {}

DelegationInv == DelegationTypeOK /\ StoredOK(stored) /\ RequestsOK

TablesOK(s) ==
    /\ DOMAIN s.rows \subseteq Models \X Types
    /\ \A k \in DOMAIN s.rows : s.rows[k] \in Row
    /\ \A t \in DOMAIN s.pins :
          /\ t \in Types /\ rows_for(s.rows, t) # {}
          /\ Len(s.pins[t]) <= attempts(t)
          /\ Cardinality(ToSet(s.pins[t])) = Len(s.pins[t])

LEMMA TypeByParts ==
  ASSUME StoredOK(stored)
  PROVE  DelegationTypeOK <=> /\ TablesOK(stored)
                              /\ known \in Catalogues /\ up \in BOOLEAN
                              /\ \A r \in Requests : req[r] = Idle \/ req[r].at = "write"
BY DEF DelegationTypeOK, TablesOK, StoredOK

LEMMA RowsGrow ==
  ASSUME NEW R, NEW key, NEW values
  PROVE  \A t : rows_for(R, t) \subseteq rows_for(Put(R, key, values), t)
BY DEF rows_for, Put

LEMMA RowPut ==
  ASSUME NEW s, NEW z, StoredOK(s), TablesOK(s), NEW key \in Models \X Types, NEW values \in Row,
         z = [s EXCEPT !.rows = Put(s.rows, key, values)]
  PROVE  /\ StoredOK(z) /\ TablesOK(z)
         /\ \A t : rows_for(s.rows, t) \subseteq rows_for(z.rows, t)
<1>1. /\ z.rows = Put(s.rows, key, values) /\ z.operational = s.operational /\ z.pins = s.pins
      /\ z.ceiling = s.ceiling /\ z.budget = s.budget /\ z.enabled = s.enabled
  BY DEF StoredOK
<1>2. z = [rows |-> z.rows, operational |-> z.operational, pins |-> z.pins,
           ceiling |-> z.ceiling, budget |-> z.budget, enabled |-> z.enabled]
  BY DEF StoredOK
<1>3. StoredOK(z)
  BY <1>1, <1>2 DEF StoredOK
<1>4. \A t : rows_for(s.rows, t) \subseteq rows_for(z.rows, t)
  BY <1>1, RowsGrow
<1>5. /\ DOMAIN z.rows \subseteq Models \X Types
      /\ \A k \in DOMAIN z.rows : z.rows[k] \in Row
  BY <1>1 DEF TablesOK, Put
<1>6. \A t \in DOMAIN z.pins : rows_for(z.rows, t) # {}
  BY <1>1, <1>4 DEF TablesOK
<1> QED
  BY <1>1, <1>3, <1>4, <1>5, <1>6 DEF TablesOK

LEMMA StoreOK ==
  ASSUME NEW s, NEW w, StoredOK(s), TablesOK(s), WriteOK(s, w)
  PROVE  /\ StoredOK(Store(s, w)) /\ TablesOK(Store(s, w))
         /\ \A t : rows_for(s.rows, t) \subseteq rows_for(Store(s, w).rows, t)
<1> DEFINE z == Store(s, w)
<1>1. CASE w.kind = "row"
  <2>1. z = [s EXCEPT !.rows = Put(s.rows, w.key, w.row)]
    BY <1>1 DEF Store
  <2>2. w.key \in Models \X Types /\ w.row \in Row
    BY <1>1 DEF WriteOK
  <2> HIDE DEF z
  <2> QED
    BY <2>1, <2>2, RowPut DEF z
<1>2. CASE w.kind = "operational"
  <2>1. z = [s EXCEPT !.operational = IF w.on THEN s.operational \cup {w.type}
                                              ELSE s.operational \ {w.type}]
    BY <1>2 DEF Store
  <2>2. w.type \in Types
    BY <1>2 DEF WriteOK
  <2> HIDE DEF z
  <2>3. /\ z.rows = s.rows /\ z.operational \subseteq Types /\ z.pins = s.pins
        /\ z.ceiling = s.ceiling /\ z.budget = s.budget /\ z.enabled = s.enabled
    BY <2>1, <2>2 DEF StoredOK
  <2>4. z = [rows |-> z.rows, operational |-> z.operational, pins |-> z.pins,
             ceiling |-> z.ceiling, budget |-> z.budget, enabled |-> z.enabled]
    BY <2>1 DEF StoredOK
  <2> QED
    BY <2>3, <2>4 DEF StoredOK, TablesOK, z
<1>3. CASE w.kind = "pin"
  <2> DEFINE X == IF w.rungs = None THEN Unpinned(s, w.type).pins
                                    ELSE Put(s.pins, w.type, w.rungs)
  <2>1. z = [s EXCEPT !.pins = X]
    BY <1>3 DEF Store
  <2>2. /\ w.type \in Types
        /\ w.rungs # None => /\ Len(w.rungs) <= attempts(w.type)
                             /\ Cardinality(ToSet(w.rungs)) = Len(w.rungs)
                             /\ rows_for(s.rows, w.type) # {}
    BY <1>3 DEF WriteOK
  <2>3. X = [u \in DOMAIN X |-> X[u]]
        /\ \A u \in DOMAIN X : \/ u \in DOMAIN s.pins /\ X[u] = s.pins[u]
                               \/ w.rungs # None /\ u = w.type /\ X[u] = w.rungs
    <3>1. CASE w.rungs = None
      <4>1. X = [u \in DOMAIN s.pins \ {w.type} |-> s.pins[u]]
        BY <3>1 DEF Unpinned, StoredOK
      <4> HIDE DEF X
      <4> QED
        BY <4>1
    <3>2. CASE w.rungs # None
      <4>1. X = [u \in DOMAIN s.pins \cup {w.type} |-> IF u = w.type THEN w.rungs ELSE s.pins[u]]
        BY <3>2 DEF Put
      <4> HIDE DEF X
      <4> QED
        BY <3>2, <4>1
    <3> QED
      BY <3>1, <3>2
  <2> HIDE DEF z, X
  <2>4. /\ z.rows = s.rows /\ z.operational = s.operational /\ z.pins = X
        /\ z.ceiling = s.ceiling /\ z.budget = s.budget /\ z.enabled = s.enabled
    BY <2>1 DEF StoredOK
  <2>5. z = [rows |-> z.rows, operational |-> z.operational, pins |-> z.pins,
             ceiling |-> z.ceiling, budget |-> z.budget, enabled |-> z.enabled]
    BY <2>1 DEF StoredOK
  <2>6. StoredOK(z)
    BY <2>3, <2>4, <2>5 DEF StoredOK
  <2>7. TablesOK(z)
    BY <2>2, <2>3, <2>4 DEF TablesOK
  <2> QED
    BY <2>4, <2>6, <2>7 DEF z
<1>4. CASE w.kind \in {"ceiling", "budget", "enabled"}
  <2>1. z = [s EXCEPT ![w.kind] = w.on] /\ w.on \in BOOLEAN
    BY <1>4 DEF Store, WriteOK
  <2> HIDE DEF z
  <2>2. /\ z.rows = s.rows /\ z.operational = s.operational /\ z.pins = s.pins
        /\ z.ceiling \in BOOLEAN /\ z.budget \in BOOLEAN /\ z.enabled \in BOOLEAN
    BY <1>4, <2>1 DEF StoredOK
  <2>3. z = [rows |-> z.rows, operational |-> z.operational, pins |-> z.pins,
             ceiling |-> z.ceiling, budget |-> z.budget, enabled |-> z.enabled]
    BY <1>4, <2>1 DEF StoredOK
  <2> QED
    BY <2>2, <2>3 DEF StoredOK, TablesOK, z
<1> QED
  BY <1>1, <1>2, <1>3, <1>4 DEF WriteOK

LEMMA OldIsRow ==
  ASSUME NEW s, TablesOK(s), NEW key
  PROVE  Old(s, key) \in Row
BY DEF Old, TablesOK, Blank, Row

\* What a handler lets through is well formed.
LEMMA MergedOK ==
  ASSUME NEW s, NEW k, NEW c \in Changes, TablesOK(s), Refusals(s, k, Merged(s, c)) = {}
  PROVE  WriteOK(s, Merged(s, c))
<1>1. CASE c.kind = "row"
  <2>1. /\ c.key \in Models \X Types
        /\ c.column \in {"accuracy", "cost", "latency", "window"}
        /\ c.value \in Nat \cup {None}
    BY <1>1, ChangesAreEdits
  <2>2. [Old(s, c.key) EXCEPT ![c.column] = c.value] \in Row
    BY <2>1, OldIsRow DEF Row
  <2> QED
    BY <1>1, <2>1, <2>2 DEF Merged, WriteOK
<1>2. CASE c.kind = "pin"
  <2>1. c.type \in Types /\ (c.rungs = None \/ c.rungs \in Seq(Models))
    BY <1>2, ChangesAreEdits
  <2>2. Merged(s, c) = c /\ pin_refusals(s, c) = {}
    BY <1>2 DEF Merged, Refusals
  <2>3. CASE c.rungs = None
    BY <1>2, <2>1, <2>2, <2>3 DEF WriteOK
  <2>4. CASE c.rungs # None
    <3>1. c.rungs \in Seq(Models)
      BY <2>1, <2>4
    <3>2. /\ ~ (Len(c.rungs) > attempts(c.type))
          /\ ~ (Cardinality(ToSet(c.rungs)) < Len(c.rungs))
          /\ rows_for(s.rows, c.type) # {}
      BY <2>2, <2>4 DEF pin_refusals
    <3>3. attempts(c.type) \in Nat /\ Len(c.rungs) \in Nat
      BY <3>1, EveryAttemptIsPriced DEF attempts
    <3>4. /\ IsFiniteSet(1..Len(c.rungs)) /\ Cardinality(1..Len(c.rungs)) = Len(c.rungs)
          /\ DOMAIN c.rungs = 1..Len(c.rungs)
      <4>1. DOMAIN c.rungs = 1..Len(c.rungs)
        BY <3>1
      <4>2. \A n \in Nat : IsFiniteSet(1..n) /\ Cardinality(1..n) = n
        BY FS_Interval
      <4> QED
        BY <3>3, <4>1, <4>2
    <3>5. ToSet(c.rungs) = {c.rungs[i] : i \in 1..Len(c.rungs)}
      BY <3>4 DEF ToSet
    <3>6. /\ IsFiniteSet(ToSet(c.rungs))
          /\ Cardinality(ToSet(c.rungs)) <= Len(c.rungs)
      BY <3>4, <3>5, ImageOf
    <3>7. Cardinality(ToSet(c.rungs)) \in Nat
      BY <3>6, FS_CardinalityType
    <3>8. /\ Len(c.rungs) <= attempts(c.type)
          /\ Cardinality(ToSet(c.rungs)) = Len(c.rungs)
      BY <3>2, <3>3, <3>6, <3>7
    <3> QED
      BY <1>2, <2>1, <2>2, <3>2, <3>8 DEF WriteOK
  <2> QED
    BY <2>3, <2>4
<1>3. CASE c.kind = "operational" \/ c.kind \in {"ceiling", "budget", "enabled"}
  BY <1>3, ChangesAreEdits DEF Merged, WriteOK
<1> QED
  BY <1>1, <1>2, <1>3, ChangesAreEdits

\* A pending write stays well formed when rows are added.
LEMMA WriteStaysOK ==
  ASSUME NEW s, NEW z, NEW w, WriteOK(s, w),
         \A t : rows_for(s.rows, t) \subseteq rows_for(z.rows, t)
  PROVE  WriteOK(z, w)
BY DEF WriteOK

LEMMA DelegationStarts == DelegationInit => DelegationInv
<1> SUFFICES ASSUME DelegationInit
             PROVE  DelegationInv
  OBVIOUS
<1> USE DEF DelegationInit
<1>1. StoredOK(stored)
  <2>1. <<>> = [u \in {} |-> stored.pins[u]] /\ DOMAIN <<>> = {}
    OBVIOUS
  <2> QED
    BY <2>1 DEF StoredOK
<1>2. TablesOK(stored)
  BY SeededAreRows DEF TablesOK
<1>3. RequestsOK
  BY DEF RequestsOK, Idle
<1> QED
  BY <1>1, <1>2, <1>3, TypeByParts DEF DelegationInv

\* The requests, once something was written that is not theirs to know of.
LEMMA NoLongerAlone ==
  ASSUME RequestsOK,
         \/ req' = NotAlone
         \/ \E r \in Requests : req' = [NotAlone EXCEPT ![r] = Idle],
         \A r \in Requests : req[r] = Idle \/ req[r].at = "write",
         \A t : rows_for(stored.rows, t) \subseteq rows_for(stored'.rows, t)
  PROVE  RequestsOK' /\ \A r \in Requests : req'[r] = Idle \/ req'[r].at = "write"
<1>1. \A r \in Requests :
         req'[r] = Idle \/ req'[r] = [at |-> req[r].at, write |-> req[r].write, alone |-> FALSE]
  BY DEF NotAlone, RequestsOK
<1>2. req' = [r \in Requests |-> req'[r]]
  BY DEF NotAlone
<1>3. \A r \in Requests :
         \/ req'[r] = Idle
         \/ /\ req[r].at = "write"
            /\ req'[r] = [at |-> "write", write |-> req[r].write, alone |-> FALSE]
  <2>1. TAKE r \in Requests
  <2>2. CASE req[r] = Idle
    <3>1. req[r].at = "idle" /\ req[r].write = None
      BY <2>2 DEF Idle
    <3>2. [at |-> req[r].at, write |-> req[r].write, alone |-> FALSE] = Idle
      BY <3>1 DEF Idle
    <3> QED
      BY <1>1, <3>2
  <2>3. CASE req[r].at = "write"
    BY <1>1, <2>3
  <2> QED
    BY <2>2, <2>3
<1>6. /\ Idle.at = "idle" /\ Idle.alone = FALSE
      /\ Idle = [at |-> Idle.at, write |-> Idle.write, alone |-> Idle.alone]
  BY DEF Idle
<1>4. req' = [r \in Requests |-> [at |-> req'[r].at, write |-> req'[r].write,
                                  alone |-> req'[r].alone]]
  <2>1. \A r \in Requests : req'[r] = [at |-> req'[r].at, write |-> req'[r].write,
                                       alone |-> req'[r].alone]
    <3>1. TAKE r \in Requests
    <3>2. CASE req'[r] = Idle
      BY <1>6, <3>2
    <3>3. CASE req'[r] = [at |-> "write", write |-> req[r].write, alone |-> FALSE]
      BY <3>3
    <3> QED
      BY <1>3, <3>2, <3>3
  <2> QED
    BY <1>2, <2>1
<1>5. ASSUME NEW r \in Requests, req'[r].at = "write"
      PROVE  WriteOK(stored', req'[r].write) /\ ~ req'[r].alone
  <2>1. /\ req[r].at = "write" /\ req'[r].write = req[r].write /\ req'[r].alone = FALSE
    <3>1. req'[r] # Idle
      BY <1>5, <1>6
    <3>2. /\ req[r].at = "write"
          /\ req'[r] = [at |-> "write", write |-> req[r].write, alone |-> FALSE]
      BY <1>3, <3>1
    <3> QED
      BY <3>2
  <2>2. WriteOK(stored, req[r].write)
    BY <2>1 DEF RequestsOK
  <2> QED
    BY <2>1, <2>2, WriteStaysOK
<1> QED
  BY <1>3, <1>4, <1>5, <1>6 DEF RequestsOK

LEMMA DelegationSteps ==
  ASSUME DelegationInv, [DelegationNext]_delegationVars
  PROVE  DelegationInv'
<1>1. /\ TablesOK(stored) /\ StoredOK(stored) /\ RequestsOK
      /\ known \in Catalogues /\ up \in BOOLEAN
      /\ \A r \in Requests : req[r] = Idle \/ req[r].at = "write"
  BY TypeByParts DEF DelegationInv
<1>2. SUFFICES /\ TablesOK(stored') /\ StoredOK(stored') /\ RequestsOK'
               /\ known' \in Catalogues /\ up' \in BOOLEAN
               /\ \A r \in Requests : req'[r] = Idle \/ req'[r].at = "write"
  BY DEF DelegationInv, DelegationTypeOK, TablesOK, StoredOK
<1>3. ASSUME NEW r \in Requests, NEW c \in Changes, Ask(r, c)
      PROVE  /\ TablesOK(stored') /\ StoredOK(stored') /\ RequestsOK'
             /\ known' \in Catalogues /\ up' \in BOOLEAN
             /\ \A q \in Requests : req'[q] = Idle \/ req'[q].at = "write"
  <2> DEFINE w == Merged(stored, c)
  <2>1. /\ Refusals(stored, known, w) = {}
        /\ req' = [req EXCEPT ![r] = [at |-> "write", write |-> w, alone |-> TRUE]]
        /\ stored' = stored /\ known' = known /\ up' = up
    BY <1>3 DEF Ask
  <2>2. WriteOK(stored, w)
    BY <1>1, <2>1, MergedOK
  <2> HIDE DEF w
  <2>3. \A q \in Requests : req'[q] = IF q = r THEN [at |-> "write", write |-> w, alone |-> TRUE]
                                               ELSE req[q]
    BY <1>1, <2>1 DEF RequestsOK
  <2>4. req' = [q \in Requests |-> [at |-> req'[q].at, write |-> req'[q].write,
                                    alone |-> req'[q].alone]]
    <3>1. req' = [q \in Requests |-> req'[q]]
      BY <1>1, <2>1 DEF RequestsOK
    <3>2. \A q \in Requests : req'[q] = [at |-> req'[q].at, write |-> req'[q].write,
                                         alone |-> req'[q].alone]
      BY <1>1, <2>3 DEF RequestsOK
    <3> QED
      BY <3>1, <3>2
  <2>5. RequestsOK'
    BY <1>1, <2>1, <2>2, <2>3, <2>4 DEF RequestsOK
  <2> QED
    BY <1>1, <2>1, <2>3, <2>5
<1>4. ASSUME NEW r \in Requests, Write(r)
      PROVE  /\ TablesOK(stored') /\ StoredOK(stored') /\ RequestsOK'
             /\ known' \in Catalogues /\ up' \in BOOLEAN
             /\ \A q \in Requests : req'[q] = Idle \/ req'[q].at = "write"
  <2>1. /\ req[r].at = "write" /\ stored' = Store(stored, req[r].write)
        /\ req' = [NotAlone EXCEPT ![r] = Idle] /\ known' = known /\ up' = up
    BY <1>4 DEF Write
  <2>2. WriteOK(stored, req[r].write)
    BY <1>1, <2>1 DEF RequestsOK
  <2>3. /\ StoredOK(stored') /\ TablesOK(stored')
        /\ \A t : rows_for(stored.rows, t) \subseteq rows_for(stored'.rows, t)
    BY <1>1, <2>1, <2>2, StoreOK
  <2> QED
    BY <1>1, <2>1, <2>3, NoLongerAlone
<1>5. ASSUME NEW x \in Measures, Measure(x)
      PROVE  /\ TablesOK(stored') /\ StoredOK(stored') /\ RequestsOK'
             /\ known' \in Catalogues /\ up' \in BOOLEAN
             /\ \A q \in Requests : req'[q] = Idle \/ req'[q].at = "write"
  <2> DEFINE values == [Old(stored, x.key) EXCEPT !.accuracy = x.accuracy, !.latency = x.latency]
  <2>1. /\ stored' = [stored EXCEPT !.rows = Put(stored.rows, x.key, values)]
        /\ req' = NotAlone /\ known' = known /\ up' = up
    BY <1>5 DEF Measure
  <2>2. x.key \in Models \X Types /\ x.accuracy \in Nat \cup {None} /\ x.latency \in Nat \cup {None}
    BY MeasuresAreCells
  <2>3. values \in Row
    BY <1>1, <2>2, OldIsRow DEF Row
  <2> HIDE DEF values
  <2>4. /\ StoredOK(stored') /\ TablesOK(stored')
        /\ \A t : rows_for(stored.rows, t) \subseteq rows_for(stored'.rows, t)
    BY <1>1, <2>1, <2>2, <2>3, RowPut
  <2> QED
    BY <1>1, <2>1, <2>4, NoLongerAlone
<1>6. ASSUME NEW k \in Catalogues, Serve(k)
      PROVE  /\ TablesOK(stored') /\ StoredOK(stored') /\ RequestsOK'
             /\ known' \in Catalogues /\ up' \in BOOLEAN
             /\ \A q \in Requests : req'[q] = Idle \/ req'[q].at = "write"
  <2>1. stored' = stored /\ req' = NotAlone /\ known' = k /\ up' = up
    BY <1>6 DEF Serve
  <2> QED
    BY <1>1, <2>1, NoLongerAlone
<1>7. ASSUME Restart
      PROVE  /\ TablesOK(stored') /\ StoredOK(stored') /\ RequestsOK'
             /\ known' \in Catalogues /\ up' \in BOOLEAN
             /\ \A q \in Requests : req'[q] = Idle \/ req'[q].at = "write"
  <2>1. /\ stored' = stored /\ known' = known /\ req' = [r \in Requests |-> Idle]
        /\ up' \in BOOLEAN
    BY <1>7 DEF Restart, Boots
  <2>2. RequestsOK'
    BY <2>1 DEF RequestsOK, Idle
  <2> QED
    BY <1>1, <2>1, <2>2
<1>8. ASSUME UNCHANGED delegationVars
      PROVE  /\ TablesOK(stored') /\ StoredOK(stored') /\ RequestsOK'
             /\ known' \in Catalogues /\ up' \in BOOLEAN
             /\ \A q \in Requests : req'[q] = Idle \/ req'[q].at = "write"
  BY <1>1, <1>8 DEF delegationVars, RequestsOK
<1> QED
  BY <1>3, <1>4, <1>5, <1>6, <1>7, <1>8 DEF DelegationNext

THEOREM DelegationInvariant == DelegationSpec => []DelegationInv
<1>1. DelegationInit => DelegationInv
  BY DelegationStarts
<1>2. DelegationInv /\ [DelegationNext]_delegationVars => DelegationInv'
  BY DelegationSteps
<1> QED
  BY <1>1, <1>2, PTL DEF DelegationSpec

\* The tables keep their shape, whatever requests and measurements make of
\* them: no pin is too long, doubled or of a type without rows.
THEOREM TablesKeepTheirShape == DelegationSpec => []DelegationTypeOK
<1>1. DelegationInv => DelegationTypeOK
  BY DEF DelegationInv
<1> QED
  BY <1>1, DelegationInvariant, PTL

LEMMA OrdinaryIs ==
  ASSUME StoredOK(stored), OrdinaryPins
  PROVE  OrdinaryAt(stored.pins, known)
BY DEF OrdinaryPins, OrdinaryAt, StoredOK

\* Setting ordinary pins aside at boot never adds a problem (boot_shaped_table
\* in delegation_startup.py), whatever the rows, types, knobs and models served.
THEOREM PinsAreNoWorseThanNone == DelegationSpec => []PinsOnlyRemove
<1>1. ASSUME DelegationInv
      PROVE  PinsOnlyRemove
  <2>1. StoredOK(stored)
    BY <1>1 DEF DelegationInv
  <2>2. /\ stored.operational \in SUBSET Types
        /\ stored.ceiling \in BOOLEAN /\ stored.budget \in BOOLEAN
    BY <2>1 DEF StoredOK
  <2>3. SUFFICES ASSUME OrdinaryPins
                 PROVE  problems_with(boot_shaped_table(stored), stored, known)
                          \subseteq problems_with(WithoutPins(stored), stored, known)
    BY DEF PinsOnlyRemove
  <2>4. OrdinaryAt(stored.pins, known)
    BY <2>1, <2>3, OrdinaryIs
  <2>5. validate(without_unusable_pins(CapabilityTable(stored.rows, stored.operational, stored.pins)),
                 known, stored.ceiling, stored.budget)
          \subseteq validate(CapabilityTable(stored.rows, stored.operational, <<>>),
                             known, stored.ceiling, stored.budget)
    BY <2>2, <2>4, OrdinaryPinsOnlyRemove
  <2> QED
    BY <2>5 DEF problems_with, boot_shaped_table, Table, WithoutPins
<1> QED
  BY <1>1, DelegationInvariant, PTL

LEMMA AcceptedBoot ==
  ASSUME NEW s, NEW k, NEW w, StoredOK(s), WriteOK(s, w), Refusals(s, k, w) = {},
         w.kind # "pin", w.kind \in {"operational", "enabled"} => OrdinaryAt(s.pins, k),
         Boots(s, k)
  PROVE  Boots(Store(s, w), k)
<1>1. CASE w.kind = "row"
  <2>1. row_refusals(s, k, w) = {}
    BY <1>1 DEF Refusals
  <2> QED
    BY <1>1, <2>1, RowBoots
<1>2. CASE w.kind = "operational"
  <2>1. w.type \in Types /\ w.on \in BOOLEAN /\ OrdinaryAt(s.pins, k)
    BY <1>2 DEF WriteOK
  <2>2. CASE w.on = TRUE
    BY <1>2, <2>1, <2>2, TypeOnBoots
  <2>3. CASE w.on = FALSE
    BY <1>2, <2>1, <2>3, TypeOffBoots
  <2> QED
    BY <2>1, <2>2, <2>3
<1>3. CASE w.kind \in {"ceiling", "budget"}
  <2>1. w.on \in BOOLEAN
    BY <1>3 DEF WriteOK
  <2> QED
    BY <1>3, <2>1, KnobBoots
<1>4. CASE w.kind = "enabled"
  <2>1. w.on \in BOOLEAN /\ OrdinaryAt(s.pins, k)
    BY <1>4 DEF WriteOK
  <2> QED
    BY <1>4, <2>1, EnabledBoots
<1> QED
  BY <1>1, <1>2, <1>3, <1>4 DEF WriteOK

\* A request that was validated, and after which nothing else was written until
\* it wrote, does not stop the next boot: the handlers of routes/delegation.py
\* predict validate_or_die.
THEOREM AcceptedRequestsBoot == DelegationSpec => AcceptedBoots
<1> DEFINE Fine(r) ==
              /\ req[r].at = "write" /\ req'[r].at = "idle" /\ req[r].alone
              /\ req[r].write.kind # "pin"
              /\ req[r].write.kind \in {"operational", "enabled"} => OrdinaryPins
              => (Boots(stored, known) => Boots(stored', known'))
<1>1. ASSUME DelegationInv, [DelegationNext]_delegationVars, NEW r \in Requests,
             req[r].at = "write", req'[r].at = "idle", req[r].alone,
             req[r].write.kind # "pin",
             req[r].write.kind \in {"operational", "enabled"} => OrdinaryPins,
             Boots(stored, known)
      PROVE  Boots(stored', known')
  <2>1. StoredOK(stored) /\ RequestsOK
    BY <1>1 DEF DelegationInv
  <2>2. CASE Write(r)
    <3> DEFINE w == req[r].write
    <3>1. stored' = Store(stored, w) /\ known' = known
      BY <2>2 DEF Write
    <3>2. WriteOK(stored, w) /\ Refusals(stored, known, w) = {}
      BY <1>1, <2>1 DEF RequestsOK
    <3>3. w.kind \in {"operational", "enabled"} => OrdinaryAt(stored.pins, known)
      BY <1>1, <2>1, OrdinaryIs
    <3>4. w.kind # "pin"
      BY <1>1
    <3> HIDE DEF w
    <3> QED
      BY <1>1, <2>1, <3>1, <3>2, <3>3, <3>4, AcceptedBoot
  <2>3. CASE Restart
    BY <1>1, <2>3 DEF Restart
  <2>4. ASSUME NEW q \in Requests, Write(q), q # r
        PROVE  FALSE
    <3>1. req'[r].at = req[r].at
      BY <2>1, <2>4 DEF Write, NotAlone, RequestsOK
    <3> QED
      BY <1>1, <3>1
  <2>5. ASSUME NEW q \in Requests, NEW c \in Changes, Ask(q, c)
        PROVE  FALSE
    <3>1. req'[r].at = "write"
      BY <1>1, <2>1, <2>5 DEF Ask, RequestsOK
    <3> QED
      BY <1>1, <3>1
  <2>6. ASSUME req' = NotAlone
        PROVE  FALSE
    <3>1. req'[r].at = req[r].at
      BY <2>1, <2>6 DEF NotAlone, RequestsOK
    <3> QED
      BY <1>1, <3>1
  <2>7. ASSUME UNCHANGED delegationVars
        PROVE  FALSE
    BY <1>1, <2>7 DEF delegationVars
  <2> QED
    BY <1>1, <2>2, <2>3, <2>4, <2>5, <2>6, <2>7 DEF DelegationNext, Measure, Serve
<1>2. DelegationInv /\ [DelegationNext]_delegationVars
        => [\A r \in Requests : Fine(r)]_delegationVars
  BY <1>1
<1> QED
  BY <1>2, DelegationInvariant, PTL DEF DelegationSpec, AcceptedBoots

-----------------------------------------------------------------------------
(***************************************************************************)
(* The ladders that a table generates (Ladder).                            *)
(***************************************************************************)

\* A table of rows, and a set of models that have a price in it.
Rowed(R) == DOMAIN R \subseteq Models \X Types /\ \A k \in DOMAIN R : R[k] \in Row

Priced(R, t, S) == S \subseteq Nat /\ IsFiniteSet(S) /\ \A m \in S : Price(R, t, m) \in Nat

LEMMA EligibleOK ==
  ASSUME NEW R, NEW t, Rowed(R)
  PROVE  /\ Priced(R, t, ladder_eligible(R, t))
         /\ \A m \in ladder_eligible(R, t) : Accuracy(R, t, m) \in Nat
<1>1. ladder_eligible(R, t) \subseteq Models
  BY DEF ladder_eligible, rows_for
<1>2. IsFiniteSet(ladder_eligible(R, t)) /\ ladder_eligible(R, t) \subseteq Nat
  BY <1>1, ModelsAreNumbers, FS_Subset
<1>3. ASSUME NEW m \in ladder_eligible(R, t)
      PROVE  Accuracy(R, t, m) \in Nat /\ Price(R, t, m) \in Nat
  <2>1. <<m, t>> \in DOMAIN R /\ Accuracy(R, t, m) # None /\ Price(R, t, m) # None
    BY DEF ladder_eligible, rows_for
  <2>2. R[<<m, t>>] \in Row
    BY <2>1 DEF Rowed
  <2>3. R[<<m, t>>].accuracy \in Nat \cup {None} /\ R[<<m, t>>].cost \in Nat \cup {None}
    BY <2>2 DEF Row
  <2> QED
    BY <2>1, <2>3 DEF Accuracy, Price
<1> QED
  BY <1>2, <1>3 DEF Priced

\* Models by price and name: a total order.
LEMMA CheaperIsOrder ==
  ASSUME NEW R, NEW t, NEW S, Priced(R, t, S)
  PROVE  /\ \A m \in S : ~ Cheaper(R, t, m, m)
         /\ \A m, k \in S : Cheaper(R, t, m, k) => ~ Cheaper(R, t, k, m)
         /\ \A m, k \in S : m = k \/ Cheaper(R, t, m, k) \/ Cheaper(R, t, k, m)
         /\ \A m, k, l \in S : Cheaper(R, t, m, k) /\ Cheaper(R, t, k, l) => Cheaper(R, t, m, l)
<1>1. \A m \in S : m \in Nat /\ Price(R, t, m) \in Nat
  BY DEF Priced
<1> QED
  BY <1>1 DEF Cheaper

\* How many are cheaper.
Under(R, t, S, m) == {k \in S : Cheaper(R, t, k, m)}

LEMMA Places ==
  ASSUME NEW R, NEW t, NEW S, Priced(R, t, S)
  PROVE  /\ Cardinality(S) \in Nat
         /\ \A m \in S : Cardinality(Under(R, t, S, m)) \in 0..Cardinality(S) - 1
         /\ \A m, k \in S : Cheaper(R, t, m, k)
               => Cardinality(Under(R, t, S, m)) < Cardinality(Under(R, t, S, k))
<1>1. IsFiniteSet(S)
  BY DEF Priced
<1>2. Cardinality(S) \in Nat
  BY <1>1, FS_CardinalityType
<1>3. \A m : Under(R, t, S, m) \subseteq S
  BY DEF Under
<1>4. \A m : IsFiniteSet(Under(R, t, S, m)) /\ Cardinality(Under(R, t, S, m)) \in Nat
  BY <1>1, <1>3, FS_Subset, FS_CardinalityType
<1>5. ASSUME NEW A, NEW B, IsFiniteSet(B), A \subseteq B, A # B
      PROVE  Cardinality(A) < Cardinality(B)
  <2>1. IsFiniteSet(A) /\ Cardinality(A) <= Cardinality(B) /\ Cardinality(A) # Cardinality(B)
    BY <1>5, FS_Subset
  <2>2. Cardinality(A) \in Nat /\ Cardinality(B) \in Nat
    BY <1>5, <2>1, FS_CardinalityType
  <2> QED
    BY <2>1, <2>2
<1>6. ASSUME NEW m \in S
      PROVE  Cardinality(Under(R, t, S, m)) \in 0..Cardinality(S) - 1
  <2>1. m \notin Under(R, t, S, m)
    BY CheaperIsOrder DEF Under
  <2>2. Cardinality(Under(R, t, S, m)) < Cardinality(S)
    BY <1>1, <1>3, <1>5, <2>1
  <2> QED
    BY <1>2, <1>4, <2>2
<1>7. ASSUME NEW m \in S, NEW k \in S, Cheaper(R, t, m, k)
      PROVE  Cardinality(Under(R, t, S, m)) < Cardinality(Under(R, t, S, k))
  <2>1. m \notin Under(R, t, S, m) /\ m \in Under(R, t, S, k)
    BY <1>7, CheaperIsOrder DEF Under
  <2>2. Under(R, t, S, m) \subseteq Under(R, t, S, k)
    BY <1>7, CheaperIsOrder DEF Under
  <2> QED
    BY <1>4, <1>5, <2>1, <2>2
<1> QED
  BY <1>2, <1>6, <1>7

\* by_cost lists a set of models, each once, cheapest first.
LEMMA ByCost ==
  ASSUME NEW R, NEW t, NEW S, Priced(R, t, S)
  PROVE  /\ by_cost(R, t, S) \in [1..Cardinality(S) -> S]
         /\ Cardinality(S) \in Nat
         /\ \A i, j \in 1..Cardinality(S) :
               i < j => Cheaper(R, t, by_cost(R, t, S)[i], by_cost(R, t, S)[j])
         /\ \A m \in S : \E i \in 1..Cardinality(S) : by_cost(R, t, S)[i] = m
<1> DEFINE n == Cardinality(S)
           s == by_cost(R, t, S)
           place == [m \in S |-> Cardinality(Under(R, t, S, m))]
<1>1. n \in Nat /\ IsFiniteSet(S)
  BY Places DEF Priced
<1>2. place \in [S -> 0..n - 1]
  BY Places
<1>3. \A m, k \in S : Cheaper(R, t, m, k) => place[m] < place[k]
  BY Places
<1>4. /\ s = [i \in 1..n |-> s[i]]
      /\ \A i \in 1..n :
            s[i] = CHOOSE m \in S : Cardinality({k \in S : Cheaper(R, t, k, m)}) = i - 1
  BY DEF by_cost
<1>11. \A m \in S : Cardinality({k \in S : Cheaper(R, t, k, m)}) = place[m]
  BY DEF Under
<1> HIDE DEF place, s, n
<1>5. \A m, k \in S : place[m] = place[k] => m = k
  <2>1. TAKE m, k \in S
  <2>2. place[m] \in Nat /\ place[k] \in Nat
    BY <1>1, <1>2
  <2>3. m = k \/ Cheaper(R, t, m, k) \/ Cheaper(R, t, k, m)
    BY CheaperIsOrder
  <2> QED
    BY <1>3, <2>2, <2>3
<1>6. \A p \in 0..n - 1 : \E m \in S : place[m] = p
  <2>1. place \in Injection(S, 0..n - 1)
    BY <1>2, <1>5 DEF Injection, IsInjective
  <2>2. IsFiniteSet(0..n - 1) /\ Cardinality(0..n - 1) = n
    <3>1. \A a, b \in Int : IsFiniteSet(a..b) /\ Cardinality(a..b) = IF a > b THEN 0 ELSE b - a + 1
      BY FS_Interval
    <3> QED
      BY <1>1, <3>1
  <2>3. place \in Surjection(S, 0..n - 1)
    BY <1>1, <2>1, <2>2, FS_Injection DEF n
  <2> QED
    BY <2>3 DEF Surjection
<1>7. ASSUME NEW i \in 1..n
      PROVE  s[i] \in S /\ place[s[i]] = i - 1
  <2>1. i - 1 \in 0..n - 1
    BY <1>1
  <2>2. \E m \in S : Cardinality({k \in S : Cheaper(R, t, k, m)}) = i - 1
    BY <1>6, <1>11, <2>1
  <2>3. s[i] \in S /\ Cardinality({k \in S : Cheaper(R, t, k, s[i])}) = i - 1
    BY <1>4, <2>2
  <2> QED
    BY <1>11, <2>3
<1>8. \A i, j \in 1..n : i < j => Cheaper(R, t, s[i], s[j])
  <2>1. TAKE i, j \in 1..n
  <2>2. s[i] \in S /\ s[j] \in S /\ place[s[i]] = i - 1 /\ place[s[j]] = j - 1
    BY <1>7
  <2>3. s[i] = s[j] \/ Cheaper(R, t, s[i], s[j]) \/ Cheaper(R, t, s[j], s[i])
    BY <2>2, CheaperIsOrder
  <2> QED
    BY <1>1, <1>3, <2>2, <2>3
<1>9. ASSUME NEW m \in S
      PROVE  \E i \in 1..n : s[i] = m
  <2>1. place[m] \in 0..n - 1 /\ place[m] + 1 \in 1..n
    BY <1>1, <1>2
  <2>2. place[s[place[m] + 1]] = place[m] /\ s[place[m] + 1] \in S
    BY <1>1, <1>7, <2>1
  <2> QED
    BY <1>5, <2>1, <2>2
<1>10. s \in [1..n -> S]
  BY <1>4, <1>7
<1> QED
  BY <1>1, <1>8, <1>9, <1>10 DEF n, s

-----------------------------------------------------------------------------
\* The walk.
IsWalk(f, R, t, order, n) ==
    f = [i \in 0..n |-> IF i = 0 THEN <<>> ELSE Climb(R, t, f[i - 1], order[i])]

LEMMA WalkExists ==
  ASSUME NEW R, NEW t, NEW order, NEW n \in Nat
  PROVE  \E f : IsWalk(f, R, t, order, n)
<1> DEFINE step(f, i) == IF i = 0 THEN <<>> ELSE Climb(R, t, f[i - 1], order[i])
           Bad == {m \in Nat : ~ \E f : f = [i \in 0..m |-> step(f, i)]}
<1>1. SUFFICES ASSUME Bad # {}
               PROVE  FALSE
  BY DEF IsWalk
<1>2. PICK m \in Bad : \A b \in Bad : m <= b
  BY <1>1, LeastOf
<1>3. m # 0
  <2>1. [i \in 0..0 |-> <<>>] = [i \in 0..0 |-> step([j \in 0..0 |-> <<>>], i)]
    OBVIOUS
  <2> QED
    BY <2>1
<1>4. m - 1 \in Nat /\ m - 1 \notin Bad
  <2>1. m \in Nat
    OBVIOUS
  <2>2. m - 1 \in Nat /\ ~ (m <= m - 1)
    BY <1>3, <2>1
  <2> HIDE DEF Bad
  <2> QED
    BY <1>2, <2>2
<1>5. PICK f : f = [i \in 0..m - 1 |-> step(f, i)]
  BY <1>4
<1> DEFINE g == [i \in 0..m |-> IF i = m THEN step(f, m) ELSE f[i]]
<1>6. ASSUME NEW i \in 0..m
      PROVE  g[i] = step(g, i)
  <2>1. CASE i = m
    <3>1. g[i - 1] = f[i - 1]
      BY <1>3, <1>4, <2>1
    <3> QED
      BY <1>3, <2>1, <3>1
  <2>2. CASE i # m
    <3>1. i \in 0..m - 1 /\ g[i] = f[i]
      BY <2>2
    <3>2. i # 0 => g[i - 1] = f[i - 1]
      BY <3>1
    <3>3. f[i] = step(f, i)
      BY <1>5, <3>1
    <3> QED
      BY <3>1, <3>2, <3>3
  <2> QED
    BY <2>1, <2>2
<1>7. g = [i \in 0..m |-> step(g, i)]
  BY <1>6
<1> QED
  BY <1>7 DEF IsWalk

LEMMA WalkStepsAre ==
  ASSUME NEW R, NEW t, NEW n \in Nat, Len(by_cost(R, t, ladder_eligible(R, t))) = n
  PROVE  /\ WalkSteps(R, t)[0] = <<>>
         /\ \A i \in 1..n : WalkSteps(R, t)[i]
               = Climb(R, t, WalkSteps(R, t)[i - 1], by_cost(R, t, ladder_eligible(R, t))[i])
<1>1. PICK order : order = by_cost(R, t, ladder_eligible(R, t))
  OBVIOUS
<1>2. PICK f : f = WalkSteps(R, t)
  OBVIOUS
<1>3. Len(order) = n
  BY <1>1
<1>4. \E w : IsWalk(w, R, t, order, n)
  BY WalkExists
<1>5. f = CHOOSE w : IsWalk(w, R, t, order, n)
  BY <1>1, <1>2, <1>3 DEF WalkSteps, IsWalk
<1>6. f = [i \in 0..n |-> IF i = 0 THEN <<>> ELSE Climb(R, t, f[i - 1], order[i])]
  BY <1>4, <1>5 DEF IsWalk
<1>7. f[0] = <<>> /\ \A i \in 1..n : f[i] = Climb(R, t, f[i - 1], order[i])
  BY <1>6
<1> QED
  BY <1>1, <1>2, <1>7


\* What is kept of the i cheapest models, of those that s lists, when the walk
\* has passed them: those that none of them beats, cheapest first.
Walked(R, t, s, i, W) ==
    /\ W \in Seq(ladder_eligible(R, t))
    /\ i > 0 => Len(W) > 0 /\ W[1] = s[1]
    /\ \A k \in 1..Len(W) : \E j \in 1..i : s[j] = W[k]
    /\ \A j \in 1..i : Accuracy(R, t, s[j]) <= Accuracy(R, t, W[Len(W)])
    /\ \A a, b \in 1..Len(W) :
          a < b => Cheaper(R, t, W[a], W[b]) /\ Accuracy(R, t, W[a]) <= Accuracy(R, t, W[b])
    /\ \A j \in 1..i : (\E k \in 1..Len(W) : W[k] = s[j])
                          <=> \A l \in 1..j - 1 : Accuracy(R, t, s[l]) <= Accuracy(R, t, s[j])

\* A list of a table's eligible models, each once, cheapest first.
Listed(R, t, s, n) ==
    /\ s \in [1..n -> ladder_eligible(R, t)]
    /\ \A i, j \in 1..n : i < j => Cheaper(R, t, s[i], s[j])

LEMMA WalkOn ==
  ASSUME NEW R, NEW t, Rowed(R), NEW n \in Nat, NEW s, Listed(R, t, s, n),
         NEW i \in 0..n, i # n, NEW W, Walked(R, t, s, i, W)
  PROVE  Walked(R, t, s, i + 1, Climb(R, t, W, s[i + 1]))
<1> DEFINE E == ladder_eligible(R, t)
           m == s[i + 1]
<1> DEFINE V == Climb(R, t, W, m)
<1>1. i \in Nat /\ i + 1 \in 1..n /\ (i + 1) - 1 = i
  BY NextPlace
<1>2. m \in E /\ W \in Seq(E) /\ Len(W) \in Nat /\ W \in [1..Len(W) -> E]
  BY <1>1, LenProperties DEF Walked, Listed
<1>3. \A x \in E : Accuracy(R, t, x) \in Nat
  BY EligibleOK
<1>4. \A x \in E : ~ Cheaper(R, t, x, x)
  BY EligibleOK, CheaperIsOrder
<1>5. \A j \in 1..i : j \in 1..n /\ s[j] \in E /\ Cheaper(R, t, s[j], m) /\ s[j] # m
  <2>1. TAKE j \in 1..i
  <2>2. j \in 1..n /\ j < i + 1
    BY <1>1
  <2> QED
    BY <1>1, <1>2, <1>4, <2>2 DEF Listed
<1>6. \A k \in 1..Len(W) : W[k] \in E /\ W[k] # m /\ Cheaper(R, t, W[k], m)
  BY <1>2, <1>5 DEF Walked
<1>7. i = 0 => Len(W) = 0
  BY <1>1, <1>2 DEF Walked
<1>8. W # <<>> <=> Len(W) > 0
  BY <1>2
<1>9. \A j \in 1..i + 1 : j = i + 1 \/ j \in 1..i
  BY <1>1
<1>10. Last(W) = W[Len(W)]
  BY DEF Last
<1>11. CASE W # <<>> /\ Accuracy(R, t, m) < Accuracy(R, t, Last(W))
  <2>1. V = W
    BY <1>11 DEF Climb
  <2>2. Len(W) \in 1..Len(W) /\ W[Len(W)] \in E
    BY <1>2, <1>8, <1>11
  <2>3. PICK l \in 1..i : s[l] = W[Len(W)]
    BY <2>2 DEF Walked
  <2>4. ~ Accuracy(R, t, s[l]) <= Accuracy(R, t, m)
    BY <1>2, <1>3, <1>10, <1>11, <2>2, <2>3
  <2>5. ~ \E k \in 1..Len(W) : W[k] = m
    BY <1>6
  <2>6. i > 0
    BY <1>1, <2>3
  <2>7. Accuracy(R, t, m) <= Accuracy(R, t, W[Len(W)])
    BY <1>2, <1>3, <1>10, <1>11, <2>2
  <2>8. \A j \in 1..i + 1 : Accuracy(R, t, s[j]) <= Accuracy(R, t, W[Len(W)])
    BY <1>9, <2>7 DEF Walked
  <2>9. \A j \in 1..i + 1 : (\E k \in 1..Len(W) : W[k] = s[j])
                          <=> \A k \in 1..j - 1 : Accuracy(R, t, s[k]) <= Accuracy(R, t, s[j])
    BY <1>1, <1>9, <2>4, <2>5 DEF Walked
  <2>10. \A k \in 1..Len(W) : \E j \in 1..i + 1 : s[j] = W[k]
    BY <1>1 DEF Walked
  <2>11. Len(W) > 0 /\ W[1] = s[1]
    BY <2>6 DEF Walked
  <2>12. Walked(R, t, s, i + 1, W)
    <3> HIDE DEF V, m
    <3>1. \A a, b \in 1..Len(W) :
             a < b => Cheaper(R, t, W[a], W[b]) /\ Accuracy(R, t, W[a]) <= Accuracy(R, t, W[b])
      BY DEF Walked
    <3> QED
      BY <1>2, <2>8, <2>9, <2>10, <2>11, <3>1 DEF Walked
  <2> QED
    BY <2>1, <2>12
<1>12. CASE W = <<>> \/ ~ Accuracy(R, t, m) < Accuracy(R, t, Last(W))
  <2>1. V = Append(W, m)
    BY <1>12 DEF Climb
  <2>2. /\ V \in Seq(E) /\ Len(V) = Len(W) + 1 /\ V[Len(W) + 1] = m
        /\ \A k \in 1..Len(W) : V[k] = W[k]
    BY <1>2, <2>1, AppendProperties
  <2>3. \A k \in 1..Len(V) : k = Len(W) + 1 \/ k \in 1..Len(W)
    BY <1>2, <2>2
  <2>4. \A k \in 1..Len(W) : Accuracy(R, t, W[k]) <= Accuracy(R, t, m)
    <3>1. TAKE k \in 1..Len(W)
    <3>2. W # <<>> /\ Len(W) \in 1..Len(W)
      BY <1>2, <1>8, <3>1
    <3>3. /\ W[k] \in E /\ W[Len(W)] \in E
          /\ Accuracy(R, t, W[Len(W)]) <= Accuracy(R, t, m)
      BY <1>2, <1>3, <1>10, <1>12, <3>2
    <3>4. PICK j \in 1..i : s[j] = W[k]
      BY DEF Walked
    <3>5. Accuracy(R, t, W[k]) <= Accuracy(R, t, W[Len(W)])
      BY <3>4 DEF Walked
    <3> QED
      BY <1>2, <1>3, <3>3, <3>5
  <2>5. \A j \in 1..i : Accuracy(R, t, s[j]) <= Accuracy(R, t, m)
    <3>1. TAKE j \in 1..i
    <3>2. i > 0 /\ Len(W) > 0 /\ Len(W) \in 1..Len(W)
      BY <1>1, <1>2, <3>1 DEF Walked
    <3>3. /\ Accuracy(R, t, s[j]) <= Accuracy(R, t, W[Len(W)])
          /\ Accuracy(R, t, W[Len(W)]) <= Accuracy(R, t, m)
      BY <2>4, <3>2 DEF Walked
    <3> QED
      BY <1>2, <1>3, <1>5, <3>2, <3>3
  <2>6. V[1] = s[1] /\ Len(V) > 0
    <3>1. CASE i = 0
      BY <1>2, <1>7, <2>2, <3>1
    <3>2. CASE i # 0
      <4>1. i > 0
        BY <1>1, <3>2
      <4>2. Len(W) > 0 /\ W[1] = s[1]
        BY <4>1 DEF Walked
      <4> QED
        BY <1>2, <2>2, <4>2
    <3> QED
      BY <3>1, <3>2
  <2>7. \A k \in 1..Len(V) : \E j \in 1..i + 1 : s[j] = V[k]
    <3>1. TAKE k \in 1..Len(V)
    <3>2. CASE k \in 1..Len(W)
      <4>1. PICK j \in 1..i : s[j] = W[k]
        BY <3>2 DEF Walked
      <4> QED
        BY <1>1, <2>2, <3>2, <4>1
    <3>3. CASE k = Len(W) + 1
      BY <1>1, <2>2, <3>3
    <3> QED
      BY <2>3, <3>2, <3>3
  <2>8. \A j \in 1..i + 1 : Accuracy(R, t, s[j]) <= Accuracy(R, t, V[Len(V)])
    <3>1. V[Len(V)] = m /\ Accuracy(R, t, m) <= Accuracy(R, t, m)
      BY <1>2, <1>3, <2>2
    <3> QED
      BY <1>9, <2>5, <3>1
  <2>9. \A a, b \in 1..Len(V) :
          a < b => Cheaper(R, t, V[a], V[b]) /\ Accuracy(R, t, V[a]) <= Accuracy(R, t, V[b])
    <3>1. TAKE a, b \in 1..Len(V)
    <3>2. HAVE a < b
    <3>3. a \in 1..Len(W)
      BY <1>2, <2>2, <3>2
    <3>4. CASE b \in 1..Len(W)
      BY <2>2, <3>2, <3>3, <3>4 DEF Walked
    <3>5. CASE b = Len(W) + 1
      BY <1>6, <2>2, <2>4, <3>3, <3>5
    <3> QED
      BY <2>3, <3>4, <3>5
  <2>10. \A j \in 1..i + 1 : (\E k \in 1..Len(V) : V[k] = s[j])
                          <=> \A l \in 1..j - 1 : Accuracy(R, t, s[l]) <= Accuracy(R, t, s[j])
    <3>1. TAKE j \in 1..i + 1
    <3>2. CASE j = i + 1
      <4>1. \E k \in 1..Len(V) : V[k] = s[j]
        BY <1>2, <2>2, <3>2
      <4>2. \A l \in 1..j - 1 : Accuracy(R, t, s[l]) <= Accuracy(R, t, s[j])
        BY <1>1, <2>5, <3>2
      <4> QED
        BY <4>1, <4>2
    <3>3. CASE j \in 1..i
      <4>1. (\E k \in 1..Len(V) : V[k] = s[j]) <=> (\E k \in 1..Len(W) : W[k] = s[j])
        <5>1. 1..Len(W) \subseteq 1..Len(V)
          BY <1>2, <2>2
        <5>2. s[j] # m
          BY <1>5, <3>3
        <5> HIDE DEF V, m
        <5> QED
          BY <2>2, <2>3, <5>1, <5>2
      <4> QED
        BY <3>3, <4>1 DEF Walked
    <3> QED
      BY <1>9, <3>2, <3>3
  <2> HIDE DEF V, m
  <2> QED
    BY <2>2, <2>6, <2>7, <2>8, <2>9, <2>10 DEF Walked, V, m
<1> QED
  BY <1>11, <1>12

\* The whole of what the walk keeps: the models that no cheaper one beats,
\* cheapest first, from the cheapest of all to the most accurate of all.
IsEnvelope(R, t, W) ==
    /\ W \in Seq(ladder_eligible(R, t)) /\ Len(W) \in Nat
    /\ Len(W) = Cardinality(Envelope(R, t))
    /\ \A m \in Envelope(R, t) : \E k \in 1..Len(W) : W[k] = m
    /\ \A k \in 1..Len(W) : W[k] \in Envelope(R, t)
    /\ \A a, b \in 1..Len(W) :
          a < b => Cheaper(R, t, W[a], W[b]) /\ Accuracy(R, t, W[a]) <= Accuracy(R, t, W[b])
    /\ \A m \in ladder_eligible(R, t) :
          Len(W) > 0 /\ Accuracy(R, t, m) <= Accuracy(R, t, W[Len(W)])
    /\ \A m \in ladder_eligible(R, t) : m = W[1] \/ Cheaper(R, t, W[1], m)

LEMMA EveryStepWalked ==
  ASSUME NEW R, NEW t, Rowed(R)
  PROVE  LET n == Cardinality(ladder_eligible(R, t))
             s == by_cost(R, t, ladder_eligible(R, t))
         IN  n \in Nat /\ Listed(R, t, s, n) /\ Walked(R, t, s, n, Walk(R, t))
<1> DEFINE E == ladder_eligible(R, t)
           n == Cardinality(E)
           s == by_cost(R, t, E)
           f == WalkSteps(R, t)
           Bad == {i \in 0..n : ~ Walked(R, t, s, i, f[i])}
<1>1. n \in Nat /\ Listed(R, t, s, n)
  BY EligibleOK, ByCost DEF Listed
<1>2. Len(s) = n
  <2>1. s \in [1..n -> E]
    BY <1>1 DEF Listed
  <2> HIDE DEF s, n, E
  <2>2. s \in Seq(E)
    BY <1>1, <2>1
  <2> QED
    BY <1>1, <2>1, <2>2, LenProperties
<1>3. f[0] = <<>> /\ \A i \in 1..n : f[i] = Climb(R, t, f[i - 1], s[i])
  BY <1>1, <1>2, WalkStepsAre
<1> HIDE DEF s, n, f, E
<1>4. Bad = {}
  <2>1. SUFFICES ASSUME Bad # {}
                 PROVE  FALSE
    OBVIOUS
  <2>2. PICK i \in Bad : \A b \in Bad : i <= b
    <3>1. Bad \subseteq Nat
      BY <1>1
    <3> QED
      BY <2>1, <3>1, LeastOf
  <2>3. i # 0
    <3>1. Walked(R, t, s, 0, <<>>)
      BY DEF Walked
    <3> QED
      BY <1>3, <3>1
  <2>4. i \in 0..n /\ i - 1 \in 0..n /\ i - 1 # n /\ (i - 1) + 1 = i /\ ~ (i <= i - 1) /\ i \in 1..n
    BY <1>1, <2>3
  <2>5. Walked(R, t, s, i - 1, f[i - 1])
    BY <2>2, <2>4
  <2>6. Walked(R, t, s, i, Climb(R, t, f[i - 1], s[i]))
    BY <1>1, <2>4, <2>5, WalkOn
  <2> QED
    BY <1>3, <2>4, <2>6
<1>5. Walked(R, t, s, n, f[n])
  <2>1. n \in 0..n
    BY <1>1
  <2> QED
    BY <1>4, <2>1
<1> QED
  BY <1>1, <1>5 DEF Walk, s, n, f, E

LEMMA WalkIsEnvelope ==
  ASSUME NEW R, NEW t, Rowed(R)
  PROVE  IsEnvelope(R, t, Walk(R, t))
<1> DEFINE E == ladder_eligible(R, t)
<1> DEFINE W == Walk(R, t)
<1>1. PICK n : n = Cardinality(ladder_eligible(R, t))
  OBVIOUS
<1>2. PICK s : s = by_cost(R, t, ladder_eligible(R, t))
  OBVIOUS
<1>3. n \in Nat /\ Listed(R, t, s, n) /\ Walked(R, t, s, n, W)
  BY <1>1, <1>2, EveryStepWalked
<1> HIDE DEF W
<1>4. \A m \in E : \E i \in 1..n : s[i] = m
  BY <1>1, <1>2, EligibleOK, ByCost
<1>5. W \in Seq(E) /\ Len(W) \in Nat /\ W \in [1..Len(W) -> E]
  BY <1>3, LenProperties DEF Walked
<1>6. \A m \in E : Accuracy(R, t, m) \in Nat /\ ~ Cheaper(R, t, m, m)
  BY EligibleOK, CheaperIsOrder
<1>7. s \in [1..n -> E] /\ \A i, j \in 1..n : i < j => Cheaper(R, t, s[i], s[j])
  BY <1>3 DEF Listed
<1>8. \A i, j \in 1..n : Cheaper(R, t, s[i], s[j]) => i < j
  <2>1. TAKE i, j \in 1..n
  <2>2. s[i] \in E /\ s[j] \in E
    BY <1>7
  <2>3. Cheaper(R, t, s[i], s[j]) => ~ Cheaper(R, t, s[j], s[i])
    BY <2>2, EligibleOK, CheaperIsOrder
  <2>4. i < j \/ i = j \/ j < i
    BY <1>3
  <2> QED
    BY <1>6, <1>7, <2>2, <2>3, <2>4
<1>9. \A j \in 1..n : s[j] \in Envelope(R, t)
                         <=> \A l \in 1..j - 1 : Accuracy(R, t, s[l]) <= Accuracy(R, t, s[j])
  <2>1. TAKE j \in 1..n
  <2>2. \A l \in 1..j - 1 : l \in 1..n /\ l < j
    BY <1>3
  <2>3. ASSUME s[j] \in Envelope(R, t), NEW l \in 1..j - 1
        PROVE  Accuracy(R, t, s[l]) <= Accuracy(R, t, s[j])
    <3>1. s[l] \in E /\ s[j] \in E /\ Cheaper(R, t, s[l], s[j])
      BY <1>7, <2>2
    <3>2. ~ Accuracy(R, t, s[l]) > Accuracy(R, t, s[j])
      BY <2>3, <3>1 DEF Envelope
    <3> QED
      BY <1>6, <3>1, <3>2
  <2>4. ASSUME \A l \in 1..j - 1 : Accuracy(R, t, s[l]) <= Accuracy(R, t, s[j]),
               NEW k \in E, Cheaper(R, t, k, s[j])
        PROVE  ~ Accuracy(R, t, k) > Accuracy(R, t, s[j])
    <3>1. PICK l \in 1..n : s[l] = k
      BY <1>4
    <3>2. l < j
      BY <1>8, <2>4, <3>1
    <3>3. l \in 1..j - 1
      BY <1>3, <3>2
    <3>4. Accuracy(R, t, k) <= Accuracy(R, t, s[j])
      BY <2>4, <3>1, <3>3
    <3>5. Accuracy(R, t, k) \in Nat /\ Accuracy(R, t, s[j]) \in Nat
      BY <1>6, <1>7
    <3> QED
      BY <3>4, <3>5
  <2>5. s[j] \in E
    BY <1>7
  <2> QED
    BY <2>3, <2>4, <2>5 DEF Envelope
<1>10. \A j \in 1..n : s[j] \in Envelope(R, t) <=> \E k \in 1..Len(W) : W[k] = s[j]
  BY <1>3, <1>9 DEF Walked
<1>11. \A k \in 1..Len(W) : \E j \in 1..n : s[j] = W[k]
  BY <1>3 DEF Walked
<1>12. \A k \in 1..Len(W) : W[k] \in Envelope(R, t)
  BY <1>10, <1>11
<1>13. \A m \in Envelope(R, t) : \E k \in 1..Len(W) : W[k] = m
  <2>1. TAKE m \in Envelope(R, t)
  <2>2. m \in E
    BY DEF Envelope
  <2> QED
    BY <1>4, <1>10, <2>2
<1>14. \A a, b \in 1..Len(W) :
          a < b => Cheaper(R, t, W[a], W[b]) /\ Accuracy(R, t, W[a]) <= Accuracy(R, t, W[b])
  BY <1>3 DEF Walked
<1>15. Len(W) = Cardinality(Envelope(R, t))
  <2>1. \A a, b \in 1..Len(W) : a # b => W[a] # W[b]
    <3>1. TAKE a, b \in 1..Len(W)
    <3>2. a = b \/ a < b \/ b < a
      BY <1>5
    <3>3. W[a] \in E /\ W[b] \in E
      BY <1>5
    <3> QED
      BY <1>6, <1>14, <3>2, <3>3
  <2>2. W \in [1..Len(W) -> Envelope(R, t)]
    BY <1>5, <1>12
  <2>3. W \in Bijection(1..Len(W), Envelope(R, t))
    BY <1>13, <2>1, <2>2 DEF Bijection, Injection, Surjection, IsInjective
  <2>4. ExistsBijection(1..Len(W), Envelope(R, t))
    BY <2>3 DEF ExistsBijection
  <2> QED
    BY <1>5, <2>4, FS_CountingElements
<1>16. ASSUME NEW m \in E
       PROVE  /\ Len(W) > 0 /\ Accuracy(R, t, m) <= Accuracy(R, t, W[Len(W)])
              /\ m = W[1] \/ Cheaper(R, t, W[1], m)
  <2>1. PICK j \in 1..n : s[j] = m
    BY <1>4
  <2>2. n > 0 /\ 1 \in 1..n
    BY <1>3, <2>1
  <2>3. Len(W) > 0 /\ W[1] = s[1] /\ Accuracy(R, t, s[j]) <= Accuracy(R, t, W[Len(W)])
    BY <1>3, <2>2 DEF Walked
  <2>4. j = 1 \/ 1 < j
    BY <1>3
  <2>5. j = 1 \/ Cheaper(R, t, s[1], s[j])
    BY <1>7, <2>2, <2>4
  <2> QED
    BY <2>1, <2>3, <2>5
<1>17. \A m \in ladder_eligible(R, t) :
          Len(W) > 0 /\ Accuracy(R, t, m) <= Accuracy(R, t, W[Len(W)])
  BY <1>16
<1>18. \A m \in ladder_eligible(R, t) : m = W[1] \/ Cheaper(R, t, W[1], m)
  BY <1>16
<1>19. IsEnvelope(R, t, W)
  BY <1>5, <1>12, <1>13, <1>14, <1>15, <1>17, <1>18 DEF IsEnvelope
<1> QED
  BY <1>19 DEF W

-----------------------------------------------------------------------------
\* The truncation.
AreDrops(f, R, t, rungs, n) ==
    f = [i \in 0..n |-> IF i = 0 THEN rungs ELSE Drop(R, t, f[i - 1])]

LEMMA DropsExist ==
  ASSUME NEW R, NEW t, NEW rungs, NEW n \in Nat
  PROVE  \E f : AreDrops(f, R, t, rungs, n)
<1> DEFINE step(f, i) == IF i = 0 THEN rungs ELSE Drop(R, t, f[i - 1])
           Bad == {m \in Nat : ~ \E f : f = [i \in 0..m |-> step(f, i)]}
<1>1. SUFFICES ASSUME Bad # {}
               PROVE  FALSE
  BY DEF AreDrops
<1>2. PICK m \in Bad : \A b \in Bad : m <= b
  BY <1>1, LeastOf
<1>3. m # 0
  <2>1. [i \in 0..0 |-> rungs] = [i \in 0..0 |-> step([j \in 0..0 |-> rungs], i)]
    OBVIOUS
  <2> QED
    BY <2>1
<1>4. m - 1 \in Nat /\ m - 1 \notin Bad
  <2>1. m \in Nat
    OBVIOUS
  <2>2. m - 1 \in Nat /\ ~ (m <= m - 1)
    BY <1>3, <2>1
  <2> HIDE DEF Bad
  <2> QED
    BY <1>2, <2>2
<1>5. PICK f : f = [i \in 0..m - 1 |-> step(f, i)]
  BY <1>4
<1> DEFINE g == [i \in 0..m |-> IF i = m THEN step(f, m) ELSE f[i]]
<1>6. ASSUME NEW i \in 0..m
      PROVE  g[i] = step(g, i)
  <2>1. CASE i = m
    <3>1. g[i - 1] = f[i - 1]
      BY <1>3, <1>4, <2>1
    <3> QED
      BY <1>3, <2>1, <3>1
  <2>2. CASE i # m
    <3>1. i \in 0..m - 1 /\ g[i] = f[i]
      BY <2>2
    <3>2. i # 0 => g[i - 1] = f[i - 1]
      BY <3>1
    <3>3. f[i] = step(f, i)
      BY <1>5, <3>1
    <3> QED
      BY <3>1, <3>2, <3>3
  <2> QED
    BY <2>1, <2>2
<1>7. g = [i \in 0..m |-> step(g, i)]
  BY <1>6
<1> QED
  BY <1>7 DEF AreDrops

LEMMA DropsAre ==
  ASSUME NEW R, NEW t, NEW rungs, NEW n \in Nat, n = Len(rungs) - attempts(t)
  PROVE  /\ Drops(R, t, rungs)[0] = rungs
         /\ \A i \in 1..n : Drops(R, t, rungs)[i] = Drop(R, t, Drops(R, t, rungs)[i - 1])
<1>1. PICK f : f = Drops(R, t, rungs)
  OBVIOUS
<1>2. \E w : AreDrops(w, R, t, rungs, n)
  BY DropsExist
<1>3. f = CHOOSE w : AreDrops(w, R, t, rungs, n)
  BY <1>1 DEF Drops, AreDrops
<1>4. f = [i \in 0..n |-> IF i = 0 THEN rungs ELSE Drop(R, t, f[i - 1])]
  BY <1>2, <1>3 DEF AreDrops
<1>5. f[0] = rungs /\ \A i \in 1..n : f[i] = Drop(R, t, f[i - 1])
  BY <1>4
<1> QED
  BY <1>1, <1>5

\* The least of some natural numbers is one of them.
LEMMA MinIsOne ==
  ASSUME NEW S \in SUBSET Nat, S # {}
  PROVE  Min(S) \in S /\ \A x \in S : Min(S) <= x
<1>1. \E x \in S : \A y \in S : x <= y
  BY LeastOf
<1> QED
  BY <1>1 DEF Min

\* The victim is no end, and it improves on the one before it only if all do.
LEMMA VictimInside ==
  ASSUME NEW acc, NEW n \in Nat, n > 2, acc \in [1..n -> Nat]
  PROVE  /\ Victim(acc) \in 2..n - 1
         /\ \/ acc[Victim(acc)] <= acc[Victim(acc) - 1]
            \/ \A i \in 2..n - 1 : acc[i - 1] < acc[i]
<1> DEFINE middle == 2..n - 1
           redundant == {i \in middle : acc[i] <= acc[i - 1]}
           worst == {i \in middle : \A j \in middle : acc[i] <= acc[j]}
<1>1. acc \in Seq(Nat) /\ Len(acc) = n
  <2>1. acc \in Seq(Nat)
    OBVIOUS
  <2> QED
    BY <2>1, LenProperties
<1>2. Victim(acc) = Min(IF redundant # {} THEN redundant ELSE worst)
  BY <1>1 DEF Victim
<1>3. middle \subseteq 1..n /\ middle \subseteq Nat /\ 2 \in middle
  OBVIOUS
<1>4. \A i \in middle : i - 1 \in 1..n /\ acc[i] \in Nat /\ acc[i - 1] \in Nat
  OBVIOUS
<1>5. worst # {}
  <2> DEFINE values == {acc[i] : i \in middle}
  <2>1. values \subseteq Nat /\ values # {}
    BY <1>3, <1>4
  <2>2. PICK v \in values : \A w \in values : v <= w
    BY <2>1, LeastOf
  <2>3. PICK i \in middle : acc[i] = v
    BY <2>2
  <2> QED
    BY <2>2, <2>3
<1> HIDE DEF middle
<1>6. CASE redundant # {}
  <2>1. Min(redundant) \in redundant
    BY <1>3, <1>6, MinIsOne
  <2> QED
    BY <1>2, <1>6, <2>1 DEF middle
<1>7. CASE redundant = {}
  <2>1. Min(worst) \in worst
    BY <1>3, <1>5, MinIsOne
  <2>2. \A i \in middle : acc[i - 1] < acc[i]
    BY <1>4, <1>7
  <2> QED
    BY <1>2, <1>7, <2>1, <2>2 DEF middle
<1> QED
  BY <1>6, <1>7

LEMMA RemoveAtIs ==
  ASSUME NEW S, NEW K \in Seq(S), NEW v \in 1..Len(K)
  PROVE  /\ RemoveAt(K, v) \in Seq(S)
         /\ Len(RemoveAt(K, v)) = Len(K) - 1
         /\ \A i \in 1..Len(K) - 1 : RemoveAt(K, v)[i] = IF i < v THEN K[i] ELSE K[i + 1]
<1>1. Len(K) \in Nat
  BY LenProperties
<1> DEFINE A == SubSeq(K, 1, v - 1)
           B == SubSeq(K, v + 1, Len(K))
<1>2. A \in Seq(S) /\ Len(A) = v - 1 /\ \A i \in 1..v - 1 : A[i] = K[i]
  BY <1>1
<1>3. B \in Seq(S) /\ Len(B) = Len(K) - v /\ \A i \in 1..Len(K) - v : B[i] = K[v + i]
  BY <1>1
<1> HIDE DEF A, B
<1>4. /\ A \o B \in Seq(S) /\ Len(A \o B) = Len(K) - 1
      /\ \A i \in 1..Len(K) - 1 : (A \o B)[i] = IF i < v THEN A[i] ELSE B[i - (v - 1)]
  <2>1. /\ A \o B \in Seq(S) /\ Len(A \o B) = Len(A) + Len(B)
        /\ \A i \in 1..Len(A) + Len(B) :
              (A \o B)[i] = IF i <= Len(A) THEN A[i] ELSE B[i - Len(A)]
    BY <1>2, <1>3, ConcatProperties
  <2>2. Len(A) + Len(B) = Len(K) - 1 /\ \A i \in 1..Len(K) - 1 : i <= Len(A) <=> i < v
    BY <1>1, <1>2, <1>3
  <2> QED
    BY <1>2, <2>1, <2>2
<1>5. \A i \in 1..Len(K) - 1 : (A \o B)[i] = IF i < v THEN K[i] ELSE K[i + 1]
  <2>1. TAKE i \in 1..Len(K) - 1
  <2>2. CASE i < v
    BY <1>1, <1>2, <1>4, <2>2
  <2>3. CASE ~ i < v
    <3>1. i - (v - 1) \in 1..Len(K) - v /\ v + (i - (v - 1)) = i + 1
      BY <1>1, <2>3
    <3> QED
      BY <1>3, <1>4, <2>3, <3>1
  <2> QED
    BY <2>2, <2>3
<1> QED
  BY <1>4, <1>5 DEF RemoveAt, A, B

\* The rungs before the last climb in accuracy.
Climbs(R, t, K) ==
    \A i \in 2..Len(K) - 1 : Accuracy(R, t, K[i - 1]) < Accuracy(R, t, K[i])

\* What is left of a walk W when k rungs have been dropped: its ends, in its
\* order, and either every accuracy there was or rungs that climb.
Trimmed(R, t, W, k, K) ==
    /\ K \in Seq(ladder_eligible(R, t)) /\ Len(K) = Len(W) - k
    /\ K[1] = W[1] /\ K[Len(K)] = W[Len(W)]
    /\ \A i \in 1..Len(K) : \E a \in 1..Len(W) : K[i] = W[a]
    /\ \A a, b \in 1..Len(K) :
          a < b => Cheaper(R, t, K[a], K[b]) /\ Accuracy(R, t, K[a]) <= Accuracy(R, t, K[b])
    /\ \/ \A a \in 1..Len(W) : \E b \in 1..Len(K) : Accuracy(R, t, K[b]) = Accuracy(R, t, W[a])
       \/ Climbs(R, t, K)

LEMMA DropOnce ==
  ASSUME NEW R, NEW t, Rowed(R), NEW W, Len(W) \in Nat, NEW k \in Nat,
         NEW K, Trimmed(R, t, W, k, K), Len(K) > 2
  PROVE  Trimmed(R, t, W, k + 1, Drop(R, t, K))
<1> DEFINE E == ladder_eligible(R, t)
           acc == [j \in DOMAIN K |-> Accuracy(R, t, K[j])]
           n == Len(K)
           v == Victim(acc)
           D == Drop(R, t, K)
<1>1. K \in Seq(E) /\ n \in Nat /\ n > 2 /\ K \in [1..n -> E] /\ DOMAIN K = 1..n /\ n = Len(W) - k
  BY LenProperties DEF Trimmed
<1>2. acc \in [1..n -> Nat] /\ \A i \in 1..n : acc[i] = Accuracy(R, t, K[i])
  BY <1>1, EligibleOK
<1>3. D = RemoveAt(K, v)
  BY DEF Drop
<1> HIDE DEF acc
<1>4. v \in 2..n - 1 /\ (acc[v] <= acc[v - 1] \/ \A i \in 2..n - 1 : acc[i - 1] < acc[i])
  BY <1>1, <1>2, VictimInside
<1> HIDE DEF n, v, D, E
<1>5. /\ D \in Seq(E) /\ Len(D) = n - 1
      /\ \A i \in 1..n - 1 : D[i] = IF i < v THEN K[i] ELSE K[i + 1]
  <2>1. v \in 1..n
    BY <1>1, <1>4
  <2> QED
    BY <1>1, <1>3, <2>1, RemoveAtIs DEF n
<1> DEFINE from(i) == IF i < v THEN i ELSE i + 1
<1>6. \A i \in 1..n - 1 : from(i) \in 1..n /\ D[i] = K[from(i)]
  BY <1>1, <1>4, <1>5
<1>7. \A i, j \in 1..n - 1 : i < j => from(i) < from(j)
  BY <1>1, <1>4
<1>8. \A a, b \in 1..n : a < b => Cheaper(R, t, K[a], K[b]) /\ acc[a] <= acc[b]
  BY <1>2 DEF Trimmed, n
<1>9. \A a, b \in 1..n - 1 :
          a < b => Cheaper(R, t, D[a], D[b]) /\ Accuracy(R, t, D[a]) <= Accuracy(R, t, D[b])
  <2> HIDE DEF from
  <2> QED
    BY <1>2, <1>6, <1>7, <1>8
<1>10. D[1] = W[1] /\ D[n - 1] = W[Len(W)]
  <2>1. K[1] = W[1] /\ K[n] = W[Len(W)]
    BY DEF Trimmed, n
  <2>2. 1 \in 1..n - 1 /\ n - 1 \in 1..n - 1 /\ 1 < v /\ ~ (n - 1 < v) /\ (n - 1) + 1 = n
    BY <1>1, <1>4
  <2> QED
    BY <1>5, <2>1, <2>2
<1>11. \A i \in 1..n - 1 : \E a \in 1..Len(W) : D[i] = W[a]
  <2> HIDE DEF from
  <2> QED
    BY <1>6 DEF Trimmed, n
<1>12. ASSUME \A i \in 2..n - 1 : acc[i - 1] < acc[i]
       PROVE  Climbs(R, t, D)
  <2>1. \A i \in 2..n - 2 : Accuracy(R, t, D[i - 1]) < Accuracy(R, t, D[i])
    <3>1. TAKE i \in 2..n - 2
    <3>2. i \in 1..n - 1 /\ i - 1 \in 1..n - 1 /\ i \in 2..n - 1 /\ i + 1 \in 2..n - 1
          /\ (i - 1) + 1 = i /\ (i + 1) - 1 = i /\ i \in 1..n /\ i + 1 \in 1..n /\ i - 1 \in 1..n
      BY <1>1
    <3>3. acc[i - 1] < acc[i] /\ acc[i] < acc[i + 1]
      BY <1>12, <3>2
    <3>4. acc[i - 1] \in Nat /\ acc[i] \in Nat /\ acc[i + 1] \in Nat
      BY <1>2, <3>2
    <3>5. acc[i - 1] < acc[i + 1]
      BY <3>3, <3>4
    <3>6. CASE i < v
      <4>1. i - 1 < v
        BY <1>4, <3>2, <3>6
      <4>2. D[i] = K[i] /\ D[i - 1] = K[i - 1]
        BY <1>5, <3>2, <3>6, <4>1
      <4> QED
        BY <1>2, <3>2, <3>3, <4>2
    <3>7. CASE i = v
      <4>1. i - 1 < v /\ ~ i < v
        BY <1>4, <3>2, <3>7
      <4>2. D[i] = K[i + 1] /\ D[i - 1] = K[i - 1]
        BY <1>5, <3>2, <4>1
      <4> QED
        BY <1>2, <3>2, <3>5, <4>2
    <3>8. CASE v < i
      <4>1. ~ (i - 1 < v) /\ ~ i < v
        BY <1>4, <3>2, <3>8
      <4>2. D[i] = K[i + 1] /\ D[i - 1] = K[i]
        BY <1>5, <3>2, <4>1
      <4> QED
        BY <1>2, <3>2, <3>3, <4>2
    <3>9. i < v \/ i = v \/ v < i
      BY <1>4, <3>2
    <3> QED
      BY <3>6, <3>7, <3>8, <3>9
  <2>2. (n - 1) - 1 = n - 2
    BY <1>1
  <2> QED
    BY <1>5, <2>1, <2>2 DEF Climbs
<1>13. ASSUME ~ \A i \in 2..n - 1 : acc[i - 1] < acc[i]
       PROVE  \A a \in 1..Len(W) : \E b \in 1..Len(D) : Accuracy(R, t, D[b]) = Accuracy(R, t, W[a])
  <2>1. acc[v] <= acc[v - 1]
    BY <1>4, <1>13
  <2>2. v - 1 \in 1..n /\ v \in 1..n /\ v - 1 < v /\ v - 1 \in 1..n - 1
    BY <1>1, <1>4
  <2>3. acc[v] = acc[v - 1]
    BY <1>2, <1>8, <2>1, <2>2
  <2>4. ~ Climbs(R, t, K)
    <3>1. \A i \in 2..n - 1 : i \in 1..n /\ i - 1 \in 1..n
      BY <1>1
    <3> QED
      BY <1>2, <1>13, <3>1 DEF Climbs, n
  <2>5. \A a \in 1..Len(W) : \E b \in 1..n : acc[b] = Accuracy(R, t, W[a])
    BY <1>2, <2>4 DEF Trimmed, n
  <2>6. \A b \in 1..n : \E d \in 1..n - 1 : Accuracy(R, t, D[d]) = acc[b]
    <3>1. TAKE b \in 1..n
    <3>2. CASE b < v
      <4>1. b \in 1..n - 1
        BY <1>1, <1>4, <3>2
      <4> QED
        BY <1>2, <1>5, <3>2, <4>1
    <3>3. CASE b = v
      <4>1. D[v - 1] = K[v - 1]
        BY <1>5, <2>2
      <4> QED
        BY <1>2, <2>2, <2>3, <3>3, <4>1
    <3>4. CASE v < b
      <4>1. b - 1 \in 1..n - 1 /\ ~ (b - 1 < v) /\ (b - 1) + 1 = b
        BY <1>1, <1>4, <3>4
      <4>2. D[b - 1] = K[b]
        BY <1>5, <4>1
      <4> QED
        BY <1>2, <4>1, <4>2
    <3>5. b < v \/ b = v \/ v < b
      BY <1>4
    <3> QED
      BY <3>2, <3>3, <3>4, <3>5
  <2>7. \A a \in 1..Len(W) : \E d \in 1..n - 1 : Accuracy(R, t, D[d]) = Accuracy(R, t, W[a])
    <3>1. TAKE a \in 1..Len(W)
    <3>2. PICK b \in 1..n : acc[b] = Accuracy(R, t, W[a])
      BY <2>5
    <3> QED
      BY <2>6, <3>2
  <2> QED
    BY <1>5, <2>7
<1>14. Len(D) = Len(W) - (k + 1)
  BY <1>1, <1>5
<1>15. \/ \A a \in 1..Len(W) : \E b \in 1..Len(D) : Accuracy(R, t, D[b]) = Accuracy(R, t, W[a])
       \/ Climbs(R, t, D)
  <2>1. CASE \A i \in 2..n - 1 : acc[i - 1] < acc[i]
    BY <1>12, <2>1
  <2> QED
    BY <1>13, <2>1
<1>16. Trimmed(R, t, W, k + 1, D)
  BY <1>5, <1>9, <1>10, <1>11, <1>14, <1>15 DEF Trimmed, E
<1> QED
  BY <1>16 DEF D

LEMMA NothingDropped ==
  ASSUME NEW R, NEW t, NEW W, IsEnvelope(R, t, W)
  PROVE  Trimmed(R, t, W, 0, W)
<1>1. Len(W) = Len(W) - 0
  BY DEF IsEnvelope
<1>2. W \in Seq(ladder_eligible(R, t))
  BY DEF IsEnvelope
<1>3. \A a, b \in 1..Len(W) :
          a < b => Cheaper(R, t, W[a], W[b]) /\ Accuracy(R, t, W[a]) <= Accuracy(R, t, W[b])
  BY DEF IsEnvelope
<1>4. \A i \in 1..Len(W) : \E a \in 1..Len(W) : W[i] = W[a]
  OBVIOUS
<1>5. \A a \in 1..Len(W) : \E b \in 1..Len(W) : Accuracy(R, t, W[b]) = Accuracy(R, t, W[a])
  OBVIOUS
<1> QED
  BY <1>1, <1>2, <1>3, <1>4, <1>5 DEF Trimmed

LEMMA AllDropped ==
  ASSUME NEW R, NEW t, Rowed(R), NEW W, IsEnvelope(R, t, W),
         NEW n \in Nat, n = Len(W) - attempts(t), attempts(t) \in Nat, attempts(t) > 1
  PROVE  Trimmed(R, t, W, n, Drops(R, t, W)[n])
<1> DEFINE f == Drops(R, t, W)
           Bad == {i \in 0..n : ~ Trimmed(R, t, W, i, f[i])}
<1>1. Len(W) \in Nat
  BY DEF IsEnvelope
<1>2. f[0] = W /\ \A i \in 1..n : f[i] = Drop(R, t, f[i - 1])
  BY DropsAre
<1> HIDE DEF f
<1>3. Trimmed(R, t, W, 0, W)
  BY NothingDropped
<1>4. Bad = {}
  <2>1. SUFFICES ASSUME Bad # {}
                 PROVE  FALSE
    OBVIOUS
  <2>2. PICK i \in Bad : \A b \in Bad : i <= b
    <3>1. Bad \subseteq Nat
      OBVIOUS
    <3> QED
      BY <2>1, <3>1, LeastOf
  <2>3. i # 0
    BY <1>2, <1>3
  <2>4. /\ i \in 1..n /\ i - 1 \in 0..n /\ i - 1 \in Nat /\ (i - 1) + 1 = i /\ ~ (i <= i - 1)
        /\ i - 1 < n
    BY <2>3
  <2>5. Trimmed(R, t, W, i - 1, f[i - 1])
    BY <2>2, <2>4
  <2>6. Len(f[i - 1]) > 2
    <3>1. Len(f[i - 1]) = Len(W) - (i - 1)
      BY <2>5 DEF Trimmed
    <3> QED
      BY <1>1, <2>4, <3>1
  <2>7. Trimmed(R, t, W, i, Drop(R, t, f[i - 1]))
    BY <1>1, <2>4, <2>5, <2>6, DropOnce
  <2> QED
    BY <1>2, <2>4, <2>7
<1>5. n \in 0..n
  OBVIOUS
<1> QED
  BY <1>4, <1>5 DEF f

\* The ladder: all of the walk, or what is left of it, or one end, or nothing.
LEMMA GeneratedIs ==
  ASSUME NEW R, NEW t, Rowed(R), attempts(t) \in Nat
  PROVE  \E W, K : /\ IsEnvelope(R, t, W) /\ K = generated_ladder(R, t)
                   /\ \/ Len(W) <= attempts(t) /\ Trimmed(R, t, W, 0, K)
                      \/ Len(W) > 0 /\ attempts(t) = 0 /\ K = <<>>
                      \/ Len(W) > 1 /\ attempts(t) = 1 /\ K = <<W[Len(W)]>>
                      \/ /\ Len(W) > attempts(t) /\ attempts(t) > 1
                         /\ Trimmed(R, t, W, Len(W) - attempts(t), K)
<1>1. PICK W : W = Walk(R, t)
  OBVIOUS
<1>2. IsEnvelope(R, t, W) /\ Len(W) \in Nat
  BY <1>1, WalkIsEnvelope DEF IsEnvelope
<1>3. PICK K : K = generated_ladder(R, t)
  OBVIOUS
<1>4. K = truncate_to_attempt_budget(R, t, W)
  BY <1>1, <1>3 DEF generated_ladder
<1>5. CASE Len(W) <= attempts(t)
  <2>1. K = W
    BY <1>4, <1>5 DEF truncate_to_attempt_budget
  <2>2. Trimmed(R, t, W, 0, W)
    BY <1>2, NothingDropped
  <2> QED
    BY <1>2, <1>3, <1>5, <2>1, <2>2
<1>6. CASE ~ Len(W) <= attempts(t) /\ attempts(t) = 0
  <2>1. K = <<>> /\ Len(W) > 0
    BY <1>2, <1>4, <1>6 DEF truncate_to_attempt_budget
  <2> QED
    BY <1>2, <1>3, <1>6, <2>1
<1>7. CASE ~ Len(W) <= attempts(t) /\ attempts(t) = 1
  <2>1. K = <<W[Len(W)]>> /\ Len(W) > 1
    BY <1>2, <1>4, <1>7 DEF truncate_to_attempt_budget, Last
  <2> QED
    BY <1>2, <1>3, <1>7, <2>1
<1>8. CASE ~ Len(W) <= attempts(t) /\ attempts(t) # 0 /\ attempts(t) # 1
  <2>1. Len(W) > attempts(t) /\ attempts(t) > 1 /\ Len(W) - attempts(t) \in Nat
    BY <1>2, <1>8
  <2>2. K = Drops(R, t, W)[Len(W) - attempts(t)]
    BY <1>4, <1>8 DEF truncate_to_attempt_budget
  <2>3. Trimmed(R, t, W, Len(W) - attempts(t), K)
    BY <1>2, <2>1, <2>2, AllDropped
  <2> QED
    BY <1>2, <1>3, <2>1, <2>3
<1> QED
  BY <1>5, <1>6, <1>7, <1>8

\* What Sound says of a ladder, of the ladder K.
SoundRungs(R, t, K) ==
    /\ ToSet(K) \subseteq Envelope(R, t)
    /\ Len(K) = Min({Cardinality(Envelope(R, t)), attempts(t)})
    /\ \A i, j \in 1..Len(K) :
          i < j => Cheaper(R, t, K[i], K[j]) /\ Accuracy(R, t, K[i]) <= Accuracy(R, t, K[j])
    /\ Len(K) > 0 => \A m \in ladder_eligible(R, t) : Accuracy(R, t, m) <= Accuracy(R, t, K[Len(K)])
    /\ Len(K) > 1 => \A m \in ladder_eligible(R, t) \ {K[1]} : Cheaper(R, t, K[1], m)
    /\ \/ {Accuracy(R, t, K[i]) : i \in 1..Len(K)} = {Accuracy(R, t, m) : m \in Envelope(R, t)}
       \/ Climbs(R, t, K)

LEMMA LesserOfTwo ==
  ASSUME NEW a \in Nat, NEW b \in Nat
  PROVE  Min({a, b}) = IF a <= b THEN a ELSE b
<1>1. Min({a, b}) \in {a, b} /\ \A x \in {a, b} : Min({a, b}) <= x
  BY MinIsOne
<1> QED
  BY <1>1

LEMMA TrimmedIsSound ==
  ASSUME NEW R, NEW t, NEW W, NEW K, NEW k \in Nat, IsEnvelope(R, t, W),
         attempts(t) \in Nat, Trimmed(R, t, W, k, K),
         \/ k = 0 /\ Len(W) <= attempts(t)
         \/ k = Len(W) - attempts(t) /\ Len(W) > attempts(t) /\ attempts(t) > 1
  PROVE  SoundRungs(R, t, K)
<1> DEFINE E == ladder_eligible(R, t)
           n == Len(K)
<1>1. K \in Seq(E) /\ n \in Nat /\ DOMAIN K = 1..n /\ n = Len(W) - k /\ Len(W) \in Nat
  BY LenProperties DEF Trimmed, IsEnvelope
<1>2. n = IF Len(W) <= attempts(t) THEN Len(W) ELSE attempts(t)
  BY <1>1
<1>3. n = Min({Cardinality(Envelope(R, t)), attempts(t)})
  <2>1. Len(W) = Cardinality(Envelope(R, t))
    BY DEF IsEnvelope
  <2> QED
    BY <1>1, <1>2, <2>1, LesserOfTwo
<1>4. \A i \in 1..n : K[i] \in Envelope(R, t)
  BY DEF Trimmed, IsEnvelope
<1>5. ToSet(K) \subseteq Envelope(R, t)
  BY <1>1, <1>4 DEF ToSet
<1>6. \A m \in E : Accuracy(R, t, m) <= Accuracy(R, t, K[n])
  BY DEF Trimmed, IsEnvelope
<1>7. \A m \in E \ {K[1]} : Cheaper(R, t, K[1], m)
  BY DEF Trimmed, IsEnvelope
<1>8. ASSUME ~ Climbs(R, t, K)
      PROVE  {Accuracy(R, t, K[i]) : i \in 1..n} = {Accuracy(R, t, m) : m \in Envelope(R, t)}
  <2>1. \A a \in 1..Len(W) : \E b \in 1..n : Accuracy(R, t, K[b]) = Accuracy(R, t, W[a])
    BY <1>8 DEF Trimmed
  <2>2. \A m \in Envelope(R, t) : \E b \in 1..n : Accuracy(R, t, K[b]) = Accuracy(R, t, m)
    <3>1. TAKE m \in Envelope(R, t)
    <3>2. PICK a \in 1..Len(W) : W[a] = m
      BY DEF IsEnvelope
    <3> QED
      BY <2>1, <3>2
  <2> QED
    BY <1>4, <2>2
<1>9. \A i, j \in 1..n :
          i < j => Cheaper(R, t, K[i], K[j]) /\ Accuracy(R, t, K[i]) <= Accuracy(R, t, K[j])
  BY DEF Trimmed
<1> QED
  BY <1>3, <1>5, <1>6, <1>7, <1>8, <1>9 DEF SoundRungs

LEMMA GeneratedIsSound ==
  ASSUME NEW R, NEW t, Rowed(R), attempts(t) \in Nat
  PROVE  SoundRungs(R, t, generated_ladder(R, t))
<1>1. PICK W, K :
         /\ IsEnvelope(R, t, W) /\ K = generated_ladder(R, t)
         /\ \/ Len(W) <= attempts(t) /\ Trimmed(R, t, W, 0, K)
            \/ Len(W) > 0 /\ attempts(t) = 0 /\ K = <<>>
            \/ Len(W) > 1 /\ attempts(t) = 1 /\ K = <<W[Len(W)]>>
            \/ /\ Len(W) > attempts(t) /\ attempts(t) > 1
               /\ Trimmed(R, t, W, Len(W) - attempts(t), K)
  BY GeneratedIs
<1>2. Len(W) \in Nat /\ Len(W) = Cardinality(Envelope(R, t))
  BY <1>1 DEF IsEnvelope
<1>3. CASE Len(W) <= attempts(t) /\ Trimmed(R, t, W, 0, K)
  BY <1>1, <1>3, TrimmedIsSound
<1>4. CASE Len(W) > attempts(t) /\ attempts(t) > 1 /\ Trimmed(R, t, W, Len(W) - attempts(t), K)
  <2>1. Len(W) - attempts(t) \in Nat
    BY <1>2, <1>4
  <2> QED
    BY <1>1, <1>4, <2>1, TrimmedIsSound
<1>5. CASE Len(W) > 0 /\ attempts(t) = 0 /\ K = <<>>
  <2>1. Len(K) = 0 /\ ToSet(K) = {}
    BY <1>5 DEF ToSet
  <2>2. Min({Cardinality(Envelope(R, t)), attempts(t)}) = 0
    BY <1>2, <1>5, LesserOfTwo
  <2>3. Climbs(R, t, K)
    BY <2>1 DEF Climbs
  <2> QED
    BY <1>1, <2>1, <2>2, <2>3 DEF SoundRungs
<1>6. CASE Len(W) > 1 /\ attempts(t) = 1 /\ K = <<W[Len(W)]>>
  <2>1. Len(K) = 1 /\ K[1] = W[Len(W)] /\ DOMAIN K = 1..1
    BY <1>6
  <2>2. Len(W) \in 1..Len(W)
    BY <1>2, <1>6
  <2>3. ToSet(K) \subseteq Envelope(R, t)
    BY <1>1, <2>1, <2>2 DEF ToSet, IsEnvelope
  <2>4. Min({Cardinality(Envelope(R, t)), attempts(t)}) = 1
    BY <1>2, <1>6, LesserOfTwo
  <2>5. Climbs(R, t, K)
    BY <2>1 DEF Climbs
  <2>6. \A m \in ladder_eligible(R, t) : Accuracy(R, t, m) <= Accuracy(R, t, K[Len(K)])
    BY <1>1, <2>1 DEF IsEnvelope
  <2> QED
    BY <1>1, <2>1, <2>3, <2>4, <2>5, <2>6 DEF SoundRungs
<1> QED
  BY <1>1, <1>3, <1>4, <1>5, <1>6

LEMMA AttemptsAreCounted ==
  ASSUME NEW t
  PROVE  attempts(t) \in Nat
<1>1. MaxAttempts \in Nat /\ GateMaxAttempts \in Nat
  BY EveryAttemptIsPriced, LenProperties
<1> QED
  BY <1>1 DEF attempts

LEMMA EveryTableSound ==
  ASSUME NEW R, NEW t, Rowed(R)
  PROVE  Sound(R, t)
<1>1. SoundRungs(R, t, generated_ladder(R, t))
  BY AttemptsAreCounted, GeneratedIsSound
<1>2. PICK K : K = generated_ladder(R, t)
  OBVIOUS
<1> QED
  BY <1>1, <1>2 DEF Sound, SoundRungs, Climbs

\* Whatever edits and measurements have made of the table, the ladder that is
\* generated for a type climbs from its cheapest model to its most accurate
\* one, over models that no cheaper one beats, within the attempts there are,
\* and gives up an accuracy for want of attempts only when every attempt but the
\* last improves on the one before (generated_ladder).
THEOREM LaddersClimb == DelegationSpec => []LaddersSound
<1>1. DelegationInv => LaddersSound
  <2>1. SUFFICES ASSUME DelegationInv
                 PROVE  LaddersSound
    OBVIOUS
  <2>2. DelegationTypeOK /\ Rowed(stored.rows)
    BY <2>1 DEF DelegationInv, DelegationTypeOK, Rowed
  <2> QED
    BY <2>2, EveryTableSound DEF LaddersSound
<1> QED
  BY <1>1, DelegationInvariant, PTL
=============================================================================
