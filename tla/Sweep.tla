-------------------------------- MODULE Sweep --------------------------------
(***************************************************************************)
(* The benchmark sweep: a process that a timer starts each night measures  *)
(* the cells (model, task type) of a frozen matrix, over several nights,   *)
(* until none is left or the sweep expires; beside it, forced              *)
(* re-measurements from the console's page or the command line, and the    *)
(* operator's edits of the same table.                                     *)
(*                                                                         *)
(* The processes share the tables only.  Each database call and each       *)
(* measurement is a step; a day passes at any time.                        *)
(***************************************************************************)
EXTENDS Naturals, FiniteSets

CONSTANTS Cells,         \* the matrix, numbered in its order
          Forces,        \* forced re-measurements, each at most once
          Presses,       \* those of them that come from the page
          Edits,         \* PUT /api/delegation/row
          CellOf,        \* the cell of each force and edit
          Night,         \* the nightly process
          Threshold,     \* DORMANCY_THRESHOLD
          ExpiryDays,
          CoolingDays,
          MaxAsks,       \* bound: forces and edits that are made
          MaxFaults      \* bound: processes and requests that die

ASSUME CellsAreNumbers == Cells \subseteq Nat /\ IsFiniteSet(Cells)
ASSUME CellOfIsFunction == CellOf \in [Forces \cup Edits -> Cells]
ASSUME PressesAreForces == Presses \subseteq Forces /\ Night \notin Forces
ASSUME PeriodsArePositive == /\ Threshold \in Nat \ {0}
                             /\ ExpiryDays \in Nat \ {0}
                             /\ CoolingDays \in Nat \ {0}
                             /\ MaxAsks \in Nat /\ MaxFaults \in Nat

VARIABLES
    run,        \* the last row of benchmark_runs; none before the first
    row,        \* delegation_capability
    at,         \* the next await of the night and of each force
    work,       \* what a measurement has in hand
    attempted,  \* the cells this night has tried
    inFlight,   \* _IN_FLIGHT of the console's process
    edit,       \* where each edit is, and the accuracy it has read
    struck,     \* ghost: nights since a success or a force in which a cell failed
    failing,    \* ghost: the cells that have failed tonight
    faults

sweepVars == <<run, row, at, work, attempted, inFlight, edit, struck, failing, faults>>

ghosts == <<struck, failing>>

Measurers == Forces \cup {Night}

\* Times are kept only relative to the start of the last sweep: a measurement
\* is of before it or since.  Values are told apart by when they were measured.
Times == {"never", "before", "since"}
Row == [accuracy: Times, cost: {"seeded", "edited"}, measured_at: Times,
        failures: 0..Threshold, dormant: BOOLEAN]
Run == [status: {"none", "running", "done", "expired"},
        age: 0..ExpiryDays, cooling: 0..CoolingDays]
Work == [cell: Cells \cup {0}, time: Times, cost: {"seeded", "edited"},
         failures: 0..Threshold]
NoWork == [cell |-> 0, time |-> "never", cost |-> "seeded", failures |-> 0]

Recording == {"existing", "row", "stamp", "count", "mark"}
NightAt == {"off", "decide", "expiry", "complete", "finish", "classify", "busy", "run"}
ForceAt == {"idle", "before", "run", "clear", "after", "over"}

Lesser(a, b) == IF a < b THEN a ELSE b
Aged(t) == IF t = "since" THEN "before" ELSE t

SweepInit ==
    /\ run = [status |-> "none", age |-> 0, cooling |-> 0]
    /\ row = [c \in Cells |-> [accuracy |-> "never", cost |-> "seeded",
                               measured_at |-> "never", failures |-> 0,
                               dormant |-> FALSE]]
    /\ at = [p \in Measurers |-> IF p = Night THEN "off" ELSE "idle"]
    /\ work = [p \in Measurers |-> NoWork]
    /\ attempted = {}
    /\ inFlight = {}
    /\ edit = [e \in Edits |-> [at |-> "idle", accuracy |-> "never"]]
    /\ struck = [c \in Cells |-> 0]
    /\ failing = {}
    /\ faults = 0

Asked == {f \in Forces : at[f] # "idle"} \cup {e \in Edits : edit[e].at # "idle"}
Ask == Cardinality(Asked) < MaxAsks
Fault == faults < MaxFaults /\ faults' = faults + 1
MovesTo(p, place) == at' = [at EXCEPT ![p] = place]
Drops(p) == work' = [work EXCEPT ![p] = NoWork]

NightOver ==
    /\ MovesTo(Night, "off")
    /\ Drops(Night)
    /\ attempted' = {}
    /\ failing' = {}
NightGoesOn(place) ==
    /\ MovesTo(Night, place)
    /\ UNCHANGED <<work, attempted, failing>>

----------------------------------------------------------------------------
(* Days and nights.                                                        *)

Older == run' = [run EXCEPT !.age = Lesser(@ + 1, ExpiryDays),
                            !.cooling = IF @ = 0 THEN 0 ELSE @ - 1]

\* The timer, which systemd ignores while the last night is still at work.
NightFires ==
    /\ at[Night] = "off"
    /\ Older
    /\ MovesTo(Night, "decide")
    /\ UNCHANGED <<row, work, attempted, inFlight, edit, ghosts, faults>>

\* The host sleeps through the timer, or the night is still at work.
DayPasses ==
    /\ run.age < ExpiryDays \/ run.cooling > 0
    /\ Older
    /\ UNCHANGED <<row, at, work, attempted, inFlight, edit, ghosts, faults>>

CurrentForEver == run.status \in {"running", "done"}           \* mutant

Current ==
    \/ run.status = "running"
    \/ run.status = "done" /\ run.cooling > 0

\* A sweep starts: what was measured so far is from before it.
start_sweep ==
    /\ run' = [status |-> "running", age |-> 0, cooling |-> 0]
    /\ row' = [c \in Cells |-> [row[c] EXCEPT !.accuracy = Aged(@),
                                              !.measured_at = Aged(@)]]
    /\ work' = [p \in Measurers |-> [work[p] EXCEPT !.time = Aged(@)]]
    /\ edit' = [e \in Edits |-> [edit[e] EXCEPT !.accuracy = Aged(@)]]

scheduled_decision ==
    /\ at[Night] = "decide"
    /\ \/ /\ ~Current
          /\ start_sweep
          /\ MovesTo(Night, "expiry")
          /\ UNCHANGED <<attempted, failing>>
       \/ /\ run.status = "running"
          /\ NightGoesOn("expiry")
          /\ UNCHANGED <<run, row, edit>>
       \/ /\ Current /\ run.status = "done"
          /\ NightOver
          /\ UNCHANGED <<run, row, edit>>
    /\ UNCHANGED <<inFlight, struck, faults>>

----------------------------------------------------------------------------
(* The loop of run_night.                                                  *)

Pending == {c \in Cells : ~row[c].dormant /\ row[c].measured_at # "since"}

CheckExpiry ==
    /\ at[Night] = "expiry"
    /\ IF run.age >= ExpiryDays
       THEN run' = [run EXCEPT !.status = "expired"] /\ NightOver
       ELSE NightGoesOn("complete") /\ UNCHANGED run
    /\ UNCHANGED <<row, inFlight, edit, struck, faults>>

sweep_is_complete_tried ==                                   \* mutant
    /\ at[Night] = "complete"
    /\ NightGoesOn(IF Pending \subseteq attempted THEN "finish" ELSE "classify")
    /\ UNCHANGED <<run, row, inFlight, edit, struck, faults>>

sweep_is_complete ==
    /\ at[Night] = "complete"
    /\ NightGoesOn(IF Pending = {} THEN "finish" ELSE "classify")
    /\ UNCHANGED <<run, row, inFlight, edit, struck, faults>>

\* It counts the dormant cells again and closes the sweep.
Finish ==
    /\ at[Night] = "finish"
    /\ run' = [run EXCEPT !.status = "done", !.cooling = CoolingDays]
    /\ NightOver
    /\ UNCHANGED <<row, inFlight, edit, struck, faults>>

Tries(c) ==
    /\ MovesTo(Night, "busy")
    /\ work' = [work EXCEPT ![Night].cell = c]
    /\ UNCHANGED <<attempted, failing>>
First(S) == CHOOSE c \in S : \A d \in S : c <= d

ClassifyForgetful ==                                         \* mutant
    /\ at[Night] = "classify"
    /\ IF Pending = {} THEN NightOver ELSE Tries(First(Pending))
    /\ UNCHANGED <<run, row, inFlight, edit, struck, faults>>

\* The first pending cell that has not had its attempt tonight.
Classify ==
    /\ at[Night] = "classify"
    /\ LET remaining == Pending \ attempted
       IN  IF remaining = {} THEN NightOver ELSE Tries(First(remaining))
    /\ UNCHANGED <<run, row, inFlight, edit, struck, faults>>

\* A message of the last ten minutes ends the night.  The slots it looks at are
\* those of its own process, where no turn ever runs.
box_is_busy ==
    /\ at[Night] = "busy"
    /\ \/ NightOver
       \/ /\ MovesTo(Night, "run")
          /\ attempted' = attempted \cup {work[Night].cell}
          /\ UNCHANGED <<work, failing>>
    /\ UNCHANGED <<run, row, inFlight, edit, struck, faults>>

----------------------------------------------------------------------------
(* One measurement, by the night or by a force: run_cell, then             *)
(* record_success (existing, row, stamp) or record_failure (count, mark).  *)

MeasuredOk(p) ==
    /\ at[p] = "run"
    /\ MovesTo(p, "existing")
    /\ work' = [work EXCEPT ![p].time = "since"]
    /\ UNCHANGED <<run, row, attempted, inFlight, edit, ghosts, faults>>

\* A timeout, a crash of the child or unreadable output.
MeasuredFailed(p) ==
    /\ at[p] = "run"
    /\ MovesTo(p, "count")
    /\ IF p = Night /\ work[p].cell \notin failing
       THEN /\ failing' = failing \cup {work[p].cell}
            /\ struck' = [struck EXCEPT ![work[p].cell] = Lesser(@ + 1, Threshold)]
       ELSE UNCHANGED ghosts
    /\ UNCHANGED <<run, row, work, attempted, inFlight, edit, faults>>

\* write_cell keeps the columns it does not measure, as it has read them.
ReadExisting(p) ==
    /\ at[p] = "existing"
    /\ MovesTo(p, "row")
    /\ work' = [work EXCEPT ![p].cost = row[work[p].cell].cost]
    /\ UNCHANGED <<run, row, attempted, inFlight, edit, ghosts, faults>>

delegation_row_set(c, accuracy, cost) ==
    row' = [row EXCEPT ![c].accuracy = accuracy, ![c].cost = cost]

WriteRow(p) ==
    /\ at[p] = "row"
    /\ delegation_row_set(work[p].cell, work[p].time, work[p].cost)
    /\ MovesTo(p, "stamp")
    /\ UNCHANGED <<run, work, attempted, inFlight, edit, ghosts, faults>>

Recorded(p) == MovesTo(p, IF p = Night THEN "expiry" ELSE "clear") /\ Drops(p)
Unstruck(c) == struck' = [struck EXCEPT ![c] = 0] /\ UNCHANGED failing

StampRow(p) ==
    /\ at[p] = "stamp"
    /\ row' = [row EXCEPT ![work[p].cell].measured_at = work[p].time,
                          ![work[p].cell].failures = 0,
                          ![work[p].cell].dormant = FALSE]
    /\ Unstruck(work[p].cell)
    /\ Recorded(p)
    /\ UNCHANGED <<run, attempted, inFlight, edit, faults>>

\* The counter is read, and written in another statement.  Counts from
\* Threshold on are alike.
CountFailures(p) ==
    /\ at[p] = "count"
    /\ work' = [work EXCEPT ![p].failures =
                  Lesser(row[work[p].cell].failures + 1, Threshold)]
    /\ MovesTo(p, "mark")
    /\ UNCHANGED <<run, row, attempted, inFlight, edit, ghosts, faults>>

MarkFailed(p) ==
    /\ at[p] = "mark"
    /\ row' = [row EXCEPT ![work[p].cell].failures = work[p].failures,
                          ![work[p].cell].dormant = work[p].failures >= Threshold]
    /\ Recorded(p)
    /\ UNCHANGED <<run, attempted, inFlight, edit, ghosts, faults>>

Measure(p) ==
    \/ MeasuredOk(p) \/ MeasuredFailed(p)
    \/ ReadExisting(p) \/ WriteRow(p) \/ StampRow(p)
    \/ CountFailures(p) \/ MarkFailed(p)

----------------------------------------------------------------------------
(* A forced re-measurement: measure_one_cell.                              *)

\* guard_cell answers the request; the task starts afterwards.
Press(f) ==
    /\ f \in Presses
    /\ at[f] = "idle"
    /\ Ask
    /\ MovesTo(f, IF CellOf[f] \in inFlight THEN "over" ELSE "before")
    /\ UNCHANGED <<run, row, work, attempted, inFlight, edit, ghosts, faults>>

\* wc-benchmark.py --cell: another process, with an _IN_FLIGHT of its own.
CommandLine(f) ==
    /\ f \in Forces \ Presses
    /\ at[f] = "idle"
    /\ Ask
    /\ MovesTo(f, "before")
    /\ UNCHANGED <<run, row, work, attempted, inFlight, edit, ghosts, faults>>

\* The table is read for the ladders, and then the cell is marked.
MarkInFlight(f) ==
    /\ at[f] = "before"
    /\ MovesTo(f, "run")
    /\ work' = [work EXCEPT ![f] = [NoWork EXCEPT !.cell = CellOf[f]]]
    /\ inFlight' = IF f \in Presses THEN inFlight \cup {CellOf[f]} ELSE inFlight
    /\ UNCHANGED <<run, row, attempted, edit, ghosts, faults>>

ClearDormancy(f) ==
    /\ at[f] = "clear"
    /\ row' = [row EXCEPT ![CellOf[f]].failures = 0, ![CellOf[f]].dormant = FALSE]
    /\ Unstruck(CellOf[f])
    /\ MovesTo(f, "after")
    /\ UNCHANGED <<run, work, attempted, inFlight, edit, faults>>

Discarded(f) == IF f \in Presses THEN inFlight \ {CellOf[f]} ELSE inFlight

\* The table is read again and the ladders are compared.
ForceEnds(f) ==
    /\ at[f] = "after"
    /\ MovesTo(f, "over")
    /\ inFlight' = Discarded(f)
    /\ UNCHANGED <<run, row, work, attempted, edit, ghosts, faults>>

ForceStep(f) ==
    Press(f) \/ CommandLine(f) \/ MarkInFlight(f) \/ ClearDormancy(f) \/ ForceEnds(f)

----------------------------------------------------------------------------
(* What goes wrong: a locked database, a lost process.                     *)

NightFails ==
    /\ at[Night] # "off"
    /\ Fault
    /\ NightOver
    /\ UNCHANGED <<run, row, inFlight, edit, struck>>

ForceFails(f) ==
    /\ at[f] \notin {"idle", "over"}
    /\ Fault
    /\ MovesTo(f, "over")
    /\ Drops(f)
    /\ inFlight' = IF at[f] = "before" THEN inFlight ELSE Discarded(f)
    /\ UNCHANGED <<run, row, attempted, edit, ghosts>>

\* The operator's edit of one column writes the row it has read.
EditRead(e) ==
    /\ edit[e].at = "idle"
    /\ Ask
    /\ edit' = [edit EXCEPT ![e] = [at |-> "write",
                                    accuracy |-> row[CellOf[e]].accuracy]]
    /\ UNCHANGED <<run, row, at, work, attempted, inFlight, ghosts, faults>>

EditWrite(e) ==
    /\ edit[e].at = "write"
    /\ delegation_row_set(CellOf[e], edit[e].accuracy, "edited")
    /\ edit' = [edit EXCEPT ![e].at = "done"]
    /\ UNCHANGED <<run, at, work, attempted, inFlight, ghosts, faults>>

NightStep ==
    \/ scheduled_decision \/ CheckExpiry \/ sweep_is_complete \/ Finish
    \/ Classify \/ box_is_busy \/ Measure(Night)

SweepNext ==
    \/ NightFires \/ DayPasses \/ NightStep \/ NightFails
    \/ \E f \in Forces : ForceStep(f) \/ Measure(f) \/ ForceFails(f)
    \/ \E e \in Edits : EditRead(e) \/ EditWrite(e)

\* The timer fires again, and a process that can go on does.
SweepSpec == SweepInit /\ [][SweepNext]_sweepVars /\ WF_sweepVars(NightFires) /\ WF_sweepVars(NightStep)

----------------------------------------------------------------------------
\* Every variable keeps its type.
SweepTypeOK ==
    /\ run \in Run
    /\ row \in [Cells -> Row]
    /\ at \in [Measurers -> NightAt \cup ForceAt \cup Recording]
    /\ at[Night] \in NightAt \cup Recording
    /\ \A f \in Forces : at[f] \in ForceAt \cup Recording
    /\ work \in [Measurers -> Work]
    /\ attempted \subseteq Cells
    /\ inFlight \subseteq Cells
    /\ edit \in [Edits -> [at: {"idle", "write", "done"}, accuracy: Times]]
    /\ struck \in [Cells -> 0..Threshold]
    /\ failing \subseteq Cells
    /\ faults \in 0..MaxFaults

Forced(c) == \E f \in Forces : CellOf[f] = c /\ at[f] # "idle"

\* A sweep is closed as done only when each cell has been measured since it
\* started, or is out of rotation, whatever crashed or was retried on the way.
\* A force that clears a dormancy while the sweep is being closed is excused.
DoneMeansMeasured ==
    [][run.status = "running" /\ run'.status = "done" =>
          \A c \in Pending : Forced(c)]_sweepVars

\* A cell that nobody has forced goes out of rotation only after it has failed
\* on as many different nights as the threshold says, none of them followed by
\* a success: retries, crashes and new sweeps do not make it sooner.
DormantAfterNights ==
    /\ SweepTypeOK
    /\ \A c \in Cells :
           row[c].dormant /\ ~Forced(c) => struck[c] >= Threshold

\* Measuring never stops for good: every sweep ends, done or expired, although
\* the box is busy and cells fail, and another one starts after it.
KeepsSweeping ==
    []<>(run.status = "running") /\ []<>(run.status # "running")

\* routes/benchmark.py: "Needs no lock against the nightly sweep: pressing the
\* button makes the box busy by definition, so the sweep's own detector stops it".
MeasuresAlone ==
    [][\A f \in Presses :
          at[f] = "run" => ~(at[Night] = "busy" /\ at'[Night] = "run")]_sweepVars

\* benchmark_sweep.py, of _IN_FLIGHT: "a single set guards a collision between
\* them regardless of which one holds a cell."
CellMeasuredOnce ==
    \A f, g \in Forces :
        f # g /\ at[f] = "run" /\ at[g] = "run" => CellOf[f] # CellOf[g]

\* benchmark_sweep.py: "Dormancy is cleared whether the measurement succeeds or
\* fails": a cell just forced is in rotation until it has failed enough again.
ForceClears ==
    \A f \in Forces :
        at[f] = "after" /\ row[CellOf[f]].dormant
            => struck[CellOf[f]] >= Threshold

\* routes/delegation.py: "an edited cell keeps the row's other four values as
\* they were stored": a cell measured since keeps that measurement.
EditKeepsRest ==
    \A c \in Cells :
        row[c].measured_at = "since" /\ ~Forced(c) => row[c].accuracy = "since"
=============================================================================
