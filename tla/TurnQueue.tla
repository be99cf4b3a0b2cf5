----------------------------- MODULE TurnQueue ------------------------------
(***************************************************************************)
(* The turns of one conversation and the turn_queue table behind them:     *)
(* turns.start and _drain (turns.py), the stream, stop, discard and        *)
(* release handlers (routes/chats.py) and the operations on the table      *)
(* (routes/db_queue.py).                                                   *)
(*                                                                         *)
(* One action is the code between two awaits, and each database call is a  *)
(* step of its own: two requests, or a request and a drain, interleave.  A *)
(* row stands for the prompt it carries.  Of a running turn only the awaits *)
(* a Stop tells apart are kept: before its first step, in its loop, and in *)
(* `finish`, once or after a cancellation.  Module LiveTurn has the rest.  *)
(***************************************************************************)
EXTENDS Naturals, Sequences, FiniteSets

CONSTANTS Senders,      \* concurrent POST /stream requests
          Releasers,    \* concurrent "send now" requests
          StopRequests, \* concurrent POST /stop requests
          QUEUE_MAX,    \* db_queue.QUEUE_MAX
          MaxTurns,     \* bound on the turns that are started
          MaxQueued,    \* bound on the prompts that are sent to the queue
          MaxRestarts   \* bound on the restarts of the process

ASSUME QueueAssumption ==
  /\ QUEUE_MAX \in Nat \ {0}
  /\ {MaxTurns, MaxQueued, MaxRestarts} \subseteq Nat

VARIABLES turns,   \* every turn of the conversation; _live is the last one
          rows,    \* the turn_queue table
          nextId,  \* the table's autoincrement
          post,    \* where each POST /stream is
          stopping,    \* where each Stop request is
          rel,     \* where each release request is
          restarts

queueVars == <<turns, rows, nextId, post, stopping, rel, restarts>>

(***************************************************************************)
(* A row remembers whether it was inserted while no turn was running: the  *)
(* turn it was to wait behind had ended meanwhile.  The table has no such  *)
(* column; only the properties read it.                                    *)
(***************************************************************************)
Row == [id : Nat \ {0}, state : {"pending", "held"}, overtaken : BOOLEAN]

(***************************************************************************)
(* A turn's task, the row its drain has in hand (0: none), and whether a   *)
(* CancelledError awaits its next step.  "finish" and "stopped" are the    *)
(* await of `finish` by a turn that went well and by a cancelled one.  A   *)
(* "dead" task is over, and its turn's state still says running.           *)
(***************************************************************************)
Unsettled == {"new", "run", "finish", "stopped", "dead"}

Turn == [pc : Unsettled \cup {"next", "delete", "launch", "count", "insert", "hold",
                              "end", "failed"},
         hand : Nat, cancel : BOOLEAN]

\* A release request, and the row it is about.
Release == [pc : {"idle", "release", "check", "next", "delete", "launch"}, id : Nat]

\* A Stop request, and the turn whose task it awaits (0: none was running).
StopRequest == [pc : {"idle", "wait"}, turn : Nat]

\* turns.is_running
is_running == turns # << >> /\ turns[Len(turns)].pc \in Unsettled

QueueInit ==
  /\ turns = << >>
  /\ rows = {}
  /\ nextId = 1
  /\ post = [s \in Senders |-> "idle"]
  /\ stopping = [s \in StopRequests |-> [pc |-> "idle", turn |-> 0]]
  /\ rel = [r \in Releasers |-> [pc |-> "idle", id |-> 0]]
  /\ restarts = 0

-----------------------------------------------------------------------------
(* The table.  queue_add is a SELECT COUNT and an INSERT, two awaits; the  *)
(* operations below them are one transaction each.                         *)

queue_full == Cardinality(rows) >= QUEUE_MAX

NewRow(id) == [id |-> id, state |-> "pending", overtaken |-> ~is_running]

\* MUTANT: without AUTOINCREMENT an id is used again.
queue_insert_reusing_ids ==
  /\ rows' = rows \cup {NewRow(Cardinality(rows) + 1)}
  /\ nextId' = nextId + 1

queue_insert ==
  /\ rows' = rows \cup {NewRow(nextId)}
  /\ nextId' = nextId + 1

pending == {row \in rows : row.state = "pending"}

\* The oldest pending row, if there is one.
queue_next == {row \in pending : \A other \in pending : row.id <= other.id}

queue_delete(id) == rows' = {row \in rows : row.id # id}

queue_hold_all == rows' = {[row EXCEPT !.state = "held"] : row \in rows}

queue_release(id) ==
  rows' = {IF row.id = id THEN [row EXCEPT !.state = "pending"] ELSE row : row \in rows}

-----------------------------------------------------------------------------
(* Starting a turn: nothing is awaited between is_running and _live.       *)

CanStart == Len(turns) < MaxTurns

At(place, row) == [pc |-> place, hand |-> row, cancel |-> FALSE]

\* create_task only schedules the turn's task.
start(ts) == CanStart /\ turns' = Append(ts, At("new", 0))

Moved(i, pc, hand) == [turns EXCEPT ![i] = At(pc, hand)]
Move(i, pc, hand) == turns' = Moved(i, pc, hand)

\* POST /stream: the turn starts, or AlreadyRunning sends the prompt to the queue.
Post(s) ==
  /\ post[s] = "idle"
  /\ \/ /\ ~is_running
        /\ start(turns)
        /\ UNCHANGED post
     \/ /\ is_running /\ nextId <= MaxQueued
        /\ post' = [post EXCEPT ![s] = "count"]
        /\ UNCHANGED turns
  /\ UNCHANGED <<rows, nextId, stopping, rel, restarts>>

\* A full queue refuses the prompt, and the user is told.
PostCount(s) ==
  /\ post[s] = "count"
  /\ post' = [post EXCEPT ![s] = IF queue_full THEN "idle" ELSE "insert"]
  /\ UNCHANGED <<turns, rows, nextId, stopping, rel, restarts>>

PostInsert(s) ==
  /\ post[s] = "insert"
  /\ queue_insert
  /\ post' = [post EXCEPT ![s] = "idle"]
  /\ UNCHANGED <<turns, stopping, rel, restarts>>

-----------------------------------------------------------------------------
(* Turn i, as far as a Stop request can tell.                              *)

\* The next step of turn i's task goes on from where it is suspended, or meets
\* the CancelledError there.
Resumes(i, pc) == turns[i].pc = pc /\ ~turns[i].cancel
Raises(i, pc) == turns[i].pc = pc /\ turns[i].cancel

TurnMoves(i, pc) ==
  /\ Move(i, pc, 0)
  /\ UNCHANGED <<rows, nextId, post, stopping, rel, restarts>>

TurnEnters(i) == Resumes(i, "new") /\ TurnMoves(i, "run")

\* A task cancelled before its first step never enters _run.
DiesUnentered(i) == Raises(i, "new") /\ TurnMoves(i, "dead")

\* The loop is over.  A failed turn stores nothing: its `finish` returns without
\* suspending.
LoopOver(i) ==
  Resumes(i, "run") /\ \E pc \in {"finish", "hold"} : TurnMoves(i, pc)

\* The cancellation is caught in _run, and `finish` awaited if there is any text.
\* A cancelled turn is settled and drains nothing.
LoopStopped(i) ==
  Raises(i, "run") /\ \E pc \in {"stopped", "end"} : TurnMoves(i, pc)

\* MUTANT: a turn that is done does not drain.
FinishEndsWithoutDrain(i) ==
  \E pc \in {"finish", "stopped"} : Resumes(i, pc) /\ TurnMoves(i, "end")

\* `finish` returned, or raised and was logged; the turn is settled.
FinishEnds(i) ==
  \/ Resumes(i, "finish") /\ TurnMoves(i, "next")
  \/ Resumes(i, "stopped") /\ TurnMoves(i, "end")

\* A cancellation at that await is no Exception: the task is over before the
\* line that settles the turn.
FinishCancelled(i) ==
  \E pc \in {"finish", "stopped"} : Raises(i, pc) /\ TurnMoves(i, "dead")

-----------------------------------------------------------------------------
(* The _drain of turn i, once it is settled.                               *)

\* The turn failed.
DrainHold(i) ==
  /\ turns[i].pc = "hold"
  /\ queue_hold_all
  /\ Move(i, "end", 0)
  /\ UNCHANGED <<nextId, post, stopping, rel, restarts>>

DrainNext(i) ==
  /\ turns[i].pc = "next"
  /\ \/ pending = {} /\ Move(i, "end", 0)
     \/ \E row \in queue_next : Move(i, "delete", row.id)
  /\ UNCHANGED <<rows, nextId, post, stopping, rel, restarts>>

\* Whether a row was deleted is not looked at.
DrainDelete(i) ==
  /\ turns[i].pc = "delete"
  /\ queue_delete(turns[i].hand)
  /\ Move(i, "launch", turns[i].hand)
  /\ UNCHANGED <<nextId, post, stopping, rel, restarts>>

\* MUTANT: a drained prompt starts whether or not a turn is running.
DrainLaunchAnyway(i) ==
  /\ turns[i].pc = "launch"
  /\ start(Moved(i, "end", 0))
  /\ UNCHANGED <<rows, nextId, post, stopping, rel, restarts>>

\* _launch_queued has read the conversation: the turn starts, or one is running.
DrainLaunch(i) ==
  /\ turns[i].pc = "launch"
  /\ \/ ~is_running /\ start(Moved(i, "end", 0))
     \/ is_running /\ Move(i, "count", turns[i].hand)
  /\ UNCHANGED <<rows, nextId, post, stopping, rel, restarts>>

\* It could not be read, or is gone: the prompt is lost, and the drain is over.
LaunchFails(i) ==
  /\ turns[i].pc = "launch"
  /\ Move(i, "failed", 0)
  /\ UNCHANGED <<rows, nextId, post, stopping, rel, restarts>>

\* Putting the prompt back is queue_add, whose refusal is not looked at.
PutBackCount(i) ==
  /\ turns[i].pc = "count"
  /\ IF queue_full THEN Move(i, "end", 0) ELSE Move(i, "insert", turns[i].hand)
  /\ UNCHANGED <<rows, nextId, post, stopping, rel, restarts>>

PutBackInsert(i) ==
  /\ turns[i].pc = "insert"
  /\ queue_insert
  /\ Move(i, "end", 0)
  /\ UNCHANGED <<post, stopping, rel, restarts>>

-----------------------------------------------------------------------------
(* The user's other requests.                                              *)

Stops(s, pc, turn) == stopping' = [stopping EXCEPT ![s] = [pc |-> pc, turn |-> turn]]

\* handle_turn_stop: cancel a running turn, whose task is then awaited.  A task
\* that is over has no next step for the CancelledError.
StopAsked(s) ==
  /\ stopping[s].pc = "idle"
  /\ IF is_running
       THEN /\ Stops(s, "wait", Len(turns))
            /\ turns' = [turns EXCEPT ![Len(turns)].cancel = (turns[Len(turns)].pc # "dead")]
       ELSE /\ Stops(s, "wait", 0)
            /\ UNCHANGED turns
  /\ UNCHANGED <<rows, nextId, post, rel, restarts>>

TaskOver(i) == i # 0 => turns[i].pc \in {"end", "dead"}

\* The task is over, and the queue is held.
StopHold(s) ==
  /\ stopping[s].pc = "wait" /\ TaskOver(stopping[s].turn)
  /\ queue_hold_all
  /\ Stops(s, "idle", 0)
  /\ UNCHANGED <<turns, nextId, post, rel, restarts>>

\* handle_queue_delete
Discard(row) ==
  /\ queue_delete(row.id)
  /\ UNCHANGED <<turns, nextId, post, stopping, rel, restarts>>

\* handle_queue_release, sent for a held row.
Request(r, pc, id) == rel' = [rel EXCEPT ![r] = [pc |-> pc, id |-> id]]

Ask(r, row) ==
  /\ rel[r].pc = "idle" /\ row.state = "held"
  /\ Request(r, "release", row.id)
  /\ UNCHANGED <<turns, rows, nextId, post, stopping, restarts>>

ReleaseRow(r) ==
  /\ rel[r].pc = "release"
  /\ queue_release(rel[r].id)
  /\ IF \E row \in rows : row.id = rel[r].id
       THEN Request(r, "check", 0)
       ELSE Request(r, "idle", 0)
  /\ UNCHANGED <<turns, nextId, post, stopping, restarts>>

ReleaseCheck(r) ==
  /\ rel[r].pc = "check"
  /\ Request(r, IF is_running THEN "idle" ELSE "next", 0)
  /\ UNCHANGED <<turns, rows, nextId, post, stopping, restarts>>

\* The oldest pending row, whichever was released.
ReleaseNext(r) ==
  /\ rel[r].pc = "next"
  /\ \/ pending = {} /\ Request(r, "idle", 0)
     \/ \E row \in queue_next : Request(r, "delete", row.id)
  /\ UNCHANGED <<turns, rows, nextId, post, stopping, restarts>>

ReleaseDelete(r) ==
  /\ rel[r].pc = "delete"
  /\ queue_delete(rel[r].id)
  /\ Request(r, "launch", rel[r].id)
  /\ UNCHANGED <<turns, nextId, post, stopping, restarts>>

\* AlreadyRunning is not caught here: the request fails, and the row is gone.
ReleaseLaunch(r) ==
  /\ rel[r].pc = "launch"
  /\ IF is_running THEN UNCHANGED turns ELSE start(turns)
  /\ Request(r, "idle", 0)
  /\ UNCHANGED <<rows, nextId, post, stopping, restarts>>

\* MUTANT: startup does not hold the orphaned prompts.
RestartKeepsPending ==
  /\ restarts < MaxRestarts
  /\ restarts' = restarts + 1
  /\ turns' = [i \in 1 .. Len(turns) |-> At("end", 0)]
  /\ post' = [s \in Senders |-> "idle"]
  /\ stopping' = [s \in StopRequests |-> [pc |-> "idle", turn |-> 0]]
  /\ rel' = [r \in Releasers |-> [pc |-> "idle", id |-> 0]]
  /\ UNCHANGED <<rows, nextId>>

\* The process stops at any point and starts again: every task and request is
\* gone, the table is not, and lifespan holds what is pending in it.
Restart ==
  /\ restarts < MaxRestarts
  /\ restarts' = restarts + 1
  /\ turns' = [i \in 1 .. Len(turns) |-> At("end", 0)]
  /\ queue_hold_all
  /\ post' = [s \in Senders |-> "idle"]
  /\ stopping' = [s \in StopRequests |-> [pc |-> "idle", turn |-> 0]]
  /\ rel' = [r \in Releasers |-> [pc |-> "idle", id |-> 0]]
  /\ UNCHANGED nextId

-----------------------------------------------------------------------------
DrainStep(i) ==
  \/ DrainHold(i) \/ DrainNext(i) \/ DrainDelete(i) \/ DrainLaunch(i)
  \/ LaunchFails(i) \/ PutBackCount(i) \/ PutBackInsert(i)

PostStep(s) == PostCount(s) \/ PostInsert(s)

ReleaseStep(r) ==
  \/ ReleaseRow(r) \/ ReleaseCheck(r) \/ ReleaseNext(r)
  \/ ReleaseDelete(r) \/ ReleaseLaunch(r)

RunStep(i) ==
  \/ TurnEnters(i) \/ DiesUnentered(i) \/ LoopOver(i) \/ LoopStopped(i)
  \/ FinishEnds(i) \/ FinishCancelled(i)

TurnStep == \E i \in 1 .. Len(turns) : RunStep(i) \/ DrainStep(i)

QueueNext ==
  \/ TurnStep
  \/ \E s \in Senders : Post(s) \/ PostStep(s)
  \/ \E s \in StopRequests : StopAsked(s) \/ StopHold(s)
  \/ \E r \in Releasers : ReleaseStep(r)
  \/ \E row \in rows : Discard(row) \/ \E r \in Releasers : Ask(r, row)
  \/ Restart

QueueSpec == QueueInit /\ [][QueueNext]_queueVars

(***************************************************************************)
(* The event loop does not idle while a task can go on: a turn ends (the   *)
(* runner's timeout) and a database call that was made returns.  The user  *)
(* owes nothing.                                                           *)
(***************************************************************************)
QueueFairSpec ==
  /\ QueueSpec
  /\ WF_queueVars(TurnStep)
  /\ \A s \in StopRequests : WF_queueVars(StopHold(s))
  /\ \A r \in Releasers : WF_queueVars(ReleaseStep(r))

-----------------------------------------------------------------------------
\* id is the primary key of turn_queue.
TableOK ==
  /\ rows \subseteq Row
  /\ nextId \in Nat \ {0}
  /\ \A row \in rows : row.id < nextId
  /\ \A row1, row2 \in rows : row1.id = row2.id => row1 = row2

\* Every variable stays within its type, and no two rows of the table have the
\* same id.
QueueTypeOK ==
  /\ turns \in Seq(Turn) /\ Len(turns) <= MaxTurns
  /\ TableOK
  /\ post \in [Senders -> {"idle", "count", "insert"}]
  /\ stopping \in [StopRequests -> StopRequest]
  /\ rel \in [Releasers -> Release]
  /\ restarts \in 0 .. MaxRestarts

\* At most one turn of a conversation runs, whoever starts it: a request, a
\* drain or a release (turns.start refuses the second).
OneTurn ==
  \A i \in 1 .. Len(turns) : turns[i].pc \in Unsettled => i = Len(turns)

\* A turn that a Stop killed before it was settled: its task is over, is_running
\* holds until the process restarts, and nobody will drain behind it.
Died == turns # << >> /\ turns[Len(turns)].pc = "dead"

\* Somebody is about to look at the pending rows: the running turn will drain
\* when it ends, or a drain, a Stop or a release is under way.
Driven ==
  \/ is_running /\ ~Died
  \/ \E i \in 1 .. Len(turns) : turns[i].pc \in {"hold", "next", "delete", "launch"}
  \/ \E s \in StopRequests : stopping[s].pc = "wait"
  \/ \E r \in Releasers : rel[r].pc \in {"check", "next", "delete", "launch"}

\* A prompt could not be launched, and what was queued behind it stays there.
LaunchFailed == \E i \in 1 .. Len(turns) : turns[i].pc = "failed"

\* A prompt that was queued behind a running turn never sits pending with
\* nobody left to look at it, through failed turns, stops at any await of a
\* turn, releases and restarts, unless a launch failed or a Stop killed the turn
\* before it was settled (turns.py:253 lets the CancelledError through).
QueuedIsDriven ==
  \A row \in rows :
    row.state = "pending" /\ ~row.overtaken => Driven \/ LaunchFailed \/ Died

\* Such a prompt does not stay pending for ever either: it is launched, held
\* or discarded, as long as turns can be started, and with the same exceptions.
\* Without Died it fails: a prompt sent behind a killed turn waits for a
\* restart of the process.
Pending(id) == \E row \in pending : row.id = id
QueueMoves ==
  \A id \in 1 .. MaxQueued :
    (Pending(id) /\ \A row \in rows : row.id = id => ~row.overtaken)
      ~> (~Pending(id) \/ ~CanStart \/ LaunchFailed \/ Died)

\* What the user is told of every queued prompt: "It will send when the current
\* response finishes."
PendingIsDriven ==
  \A row \in rows : row.state = "pending" => Driven \/ LaunchFailed

\* The comment in handle_turn_stop: "A stop also abandons what was queued
\* behind it".  A held row leaves the table only when the user discards it.
HeldRowsWait ==
  [][\A row \in rows :
       row.state = "held" /\ row.id \notin {q.id : q \in rows'}
         => Discard(row)]_queueVars
=============================================================================
