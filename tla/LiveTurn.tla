------------------------------ MODULE LiveTurn ------------------------------
(***************************************************************************)
(* One background turn of a conversation (turns.py): the task that runs    *)
(* the producer, buffers its events, has `finish` persist the answer and   *)
(* only then publishes the terminal state; the followers that replay the   *)
(* buffer and sleep on the turn's wakeup; and the Stop requests that       *)
(* cancel the task.                                                        *)
(*                                                                         *)
(* One action is the code between two awaits: asyncio runs it without      *)
(* interruption.  A text event is represented by the length of the answer  *)
(* it completes (its `part`), every other event by its kind alone.         *)
(***************************************************************************)
EXTENDS Naturals, Sequences

CONSTANTS Followers,   \* clients that watch the turn
          Stoppers,    \* requests that stop it (POST /stop, or shutdown)
          MaxEvents    \* bound on the events the producer yields

ASSUME MaxEventsAssumption == MaxEvents \in Nat

VARIABLES pc,        \* where the task of the turn is suspended
          cancelReq, \* a CancelledError awaits the task's next step
          state,     \* LiveTurn.state
          events,    \* LiveTurn.events; seq is its length
          wakeup,    \* how many times LiveTurn.wakeup has been replaced
          cur,       \* the event on_event is awaited for
          parts,     \* length of the answer in _run's `parts`
          failed,    \* _run's `failed`
          final,     \* _run's `final_state`
          stored,    \* length of the stored answer, or NothingStored
          finishRaised, \* `finish` raised and the exception was logged
          reaped,    \* the turn left _live
          at,        \* where each follower is
          cursor,    \* follow's `cursor`
          waiter,    \* the wakeup each follower captured
          upto,      \* end of the buffer each follower is iterating over
          got,       \* seqs received by each client, in order
          stop       \* where each Stop request is

task == <<pc, cancelReq, state, events, wakeup, cur, parts, failed, final,
          stored, finishRaised>>
followers == <<at, cursor, waiter, upto, got>>
vars == <<task, reaped, followers, stop>>

Kinds == {"text", "status", "error", "done"}
States == {"running", "done", "error", "cancelled"}
NothingStored == MaxEvents + 1     \* no row was written for this turn

Event == [kind : Kinds, part : 0 .. MaxEvents]
running == state = "running"

-----------------------------------------------------------------------------
Init ==
  /\ pc = "new"
  /\ cancelReq = FALSE
  /\ state = "running"
  /\ events = << >>
  /\ wakeup = 0
  /\ cur = "status"
  /\ parts = 0
  /\ failed = FALSE
  /\ final = "done"
  /\ stored = NothingStored
  /\ finishRaised = FALSE
  /\ reaped = FALSE
  /\ at = [f \in Followers |-> "away"]
  /\ cursor = [f \in Followers |-> 0]
  /\ waiter = [f \in Followers |-> 0]
  /\ upto = [f \in Followers |-> 0]
  /\ got = [f \in Followers |-> << >>]
  /\ stop = [s \in Stoppers |-> "idle"]

(***************************************************************************)
(* emit appends an event and replaces the wakeup after setting the old     *)
(* one.  LeaveLoop(fs, log) ends the producer loop with final_state fs     *)
(* when the buffer is log, one event longer or as it was.  A failed turn,  *)
(* and a stopped one that has no text, store nothing: `finish` then        *)
(* returns without suspending and the turn settles in the same step.       *)
(***************************************************************************)
emit(k) == Append(events, [kind |-> k, part |-> parts])

FinishSuspends(fs) == fs = "done" \/ (fs = "cancelled" /\ parts > 0)

AfterSettle(fs) == IF fs = "cancelled" THEN "end" ELSE "drain"

\* MUTANT: the terminal state is published before finish is awaited.
LeaveLoopSettlesFirst(fs, log) ==
  /\ final' = fs
  /\ events' = log
  /\ pc' = IF FinishSuspends(fs) THEN "finish" ELSE AfterSettle(fs)
  /\ wakeup' = wakeup + (Len(log) - Len(events)) + 1
  /\ state' = fs

LeaveLoop(fs, log) ==
  /\ final' = fs
  /\ events' = log
  /\ IF FinishSuspends(fs)
       THEN /\ pc' = "finish"
            /\ wakeup' = wakeup + (Len(log) - Len(events))
            /\ state' = state
       ELSE /\ pc' = AfterSettle(fs)
            /\ wakeup' = wakeup + (Len(log) - Len(events)) + 1
            /\ state' = fs

\* The task is entered: create_task only scheduled it.
Enter ==
  /\ pc = "new" /\ ~cancelReq
  /\ pc' = "pull"
  /\ UNCHANGED <<cancelReq, state, events, wakeup, cur, parts, failed, final,
                 stored, finishRaised, reaped, followers, stop>>

\* A task cancelled before its first step never enters the body of _run.
CancelBeforeEntry ==
  /\ pc = "new" /\ cancelReq
  /\ pc' = "end"
  /\ cancelReq' = FALSE
  /\ UNCHANGED <<state, events, wakeup, cur, parts, failed, final, stored,
                 finishRaised, reaped, followers, stop>>

\* The producer yields an event, and on_event is awaited for it.
Receive(k) ==
  /\ pc = "pull" /\ ~cancelReq
  /\ Len(events) < MaxEvents
  /\ parts' = IF k = "text" THEN parts + 1 ELSE parts
  /\ failed' = (failed \/ k = "error")
  /\ cur' = k
  /\ pc' = "onEvent"
  /\ UNCHANGED <<cancelReq, state, events, wakeup, final, stored, finishRaised,
                 reaped, followers, stop>>

\* on_event returned, or raised and was logged: the event is relayed, except
\* a `done` after an error.
Relay ==
  /\ pc = "onEvent" /\ ~cancelReq
  /\ \/ /\ cur = "done" /\ failed
        /\ LeaveLoop("error", events)
     \/ /\ cur = "done" /\ ~failed
        /\ LeaveLoop("done", emit("done"))
     \/ /\ cur # "done"
        /\ events' = emit(cur)
        /\ wakeup' = wakeup + 1
        /\ pc' = "pull"
        /\ UNCHANGED <<state, final>>
  /\ UNCHANGED <<cancelReq, cur, parts, failed, stored, finishRaised, reaped,
                 followers, stop>>

\* The producer ran out without a `done`.
Exhausted ==
  /\ pc = "pull" /\ ~cancelReq
  /\ LeaveLoop("error", IF failed THEN events ELSE emit("error"))
  /\ UNCHANGED <<cancelReq, cur, parts, failed, stored, finishRaised, reaped,
                 followers, stop>>

\* The producer timed out or raised.
ProducerRaises ==
  /\ pc = "pull" /\ ~cancelReq
  /\ LeaveLoop("error", emit("error"))
  /\ UNCHANGED <<cancelReq, cur, parts, failed, stored, finishRaised, reaped,
                 followers, stop>>

\* The cancellation arrives inside the try block of _run.
Cancelled ==
  /\ pc \in {"pull", "onEvent"} /\ cancelReq
  /\ LeaveLoop("cancelled", emit("error"))
  /\ cancelReq' = FALSE
  /\ UNCHANGED <<cur, parts, failed, stored, finishRaised, reaped, followers, stop>>

-----------------------------------------------------------------------------
(* `finish` of routes/chats.py, and the settle step behind it.             *)

\* The rows messages_batch may write: with no text, only when the turn left
\* new images in the workspace.
Writes == IF parts > 0 THEN {parts} ELSE {parts, NothingStored}

\* messages_batch committed, or there was nothing to write.
FinishWrites ==
  /\ pc = "finish" /\ ~cancelReq
  /\ stored' \in Writes
  /\ pc' = "written"
  /\ UNCHANGED <<cancelReq, state, events, wakeup, cur, parts, failed, final,
                 finishRaised, reaped, followers, stop>>

\* MUTANT: settling does not set the wakeup.
SettleSilently ==
  /\ state' = final
  /\ pc' = AfterSettle(final)
  /\ UNCHANGED <<cancelReq, events, wakeup, cur, parts, failed, final, reaped,
                 followers, stop>>

Settle ==
  /\ state' = final
  /\ wakeup' = wakeup + 1
  /\ pc' = AfterSettle(final)
  /\ UNCHANGED <<cancelReq, events, cur, parts, failed, final, reaped,
                 followers, stop>>

FinishReturns ==
  /\ pc = "written" /\ ~cancelReq
  /\ Settle
  /\ UNCHANGED <<stored, finishRaised>>

FinishRaises ==
  /\ pc \in {"finish", "written"} /\ ~cancelReq
  /\ Settle
  /\ finishRaised' = TRUE
  /\ UNCHANGED stored

\* A cancellation while `finish` is awaited is no Exception: it leaves _run
\* before the settle step.  The write may have reached SQLite or not.
CancelDuringFinish ==
  /\ pc \in {"finish", "written"} /\ cancelReq
  /\ stored' \in IF pc = "finish" THEN Writes \cup {stored} ELSE {stored}
  /\ pc' = "end"
  /\ cancelReq' = FALSE
  /\ UNCHANGED <<state, events, wakeup, cur, parts, failed, final,
                 finishRaised, reaped, followers, stop>>

\* _drain is over (module TurnQueue), and the task with it.
Drained ==
  /\ pc = "drain"
  /\ pc' = "end"
  /\ UNCHANGED <<cancelReq, state, events, wakeup, cur, parts, failed, final,
                 stored, finishRaised, reaped, followers, stop>>

\* _reap: the retention window of a finished turn is over.
Reap ==
  /\ ~running /\ ~reaped
  /\ reaped' = TRUE
  /\ UNCHANGED <<task, followers, stop>>

-----------------------------------------------------------------------------
(* Followers: GET /live, and the reader of POST /stream.                   *)

\* The client asks for what it has not seen.  handle_chat_live found a turn.
Attach(f) ==
  /\ at[f] = "away" /\ ~reaped
  /\ at' = [at EXCEPT ![f] = "opening"]
  /\ cursor' = [cursor EXCEPT ![f] = Len(got[f])]
  /\ UNCHANGED <<task, reaped, waiter, upto, got, stop>>

\* MUTANT: a settled turn ends its followers whether or not they have read all.
ExhaustEarly(c) == IF ~running /\ c >= 0 THEN "complete" ELSE "asleep"

\* The end of follow's loop body with cursor c: return, or sleep.
Exhaust(c) == IF ~running /\ c >= Len(events) THEN "complete" ELSE "asleep"

\* MUTANT: reads one event past the end of the buffer.
ReadBufferPastEnd(f) ==
  /\ waiter' = [waiter EXCEPT ![f] = wakeup]
  /\ upto' = [upto EXCEPT ![f] = Len(events)]
  /\ IF cursor[f] <= Len(events)
       THEN /\ cursor' = [cursor EXCEPT ![f] = @ + 1]
            /\ at' = [at EXCEPT ![f] = "yield"]
       ELSE /\ at' = [at EXCEPT ![f] = Exhaust(cursor[f])]
            /\ UNCHANGED cursor
  /\ UNCHANGED <<task, reaped, got, stop>>

\* The top of follow's loop: capture the wakeup, then snapshot the buffer.
ReadBuffer(f) ==
  /\ waiter' = [waiter EXCEPT ![f] = wakeup]
  /\ upto' = [upto EXCEPT ![f] = Len(events)]
  /\ IF cursor[f] < Len(events)
       THEN /\ cursor' = [cursor EXCEPT ![f] = @ + 1]
            /\ at' = [at EXCEPT ![f] = "yield"]
       ELSE /\ at' = [at EXCEPT ![f] = Exhaust(cursor[f])]
            /\ UNCHANGED cursor
  /\ UNCHANGED <<task, reaped, got, stop>>

\* follow looks the turn up again once its response has started.
Open(f) ==
  /\ at[f] = "opening" /\ ~reaped
  /\ ReadBuffer(f)

OpenReaped(f) ==
  /\ at[f] = "opening" /\ reaped
  /\ at' = [at EXCEPT ![f] = IF cursor[f] > 0 THEN "gone" ELSE "empty"]
  /\ UNCHANGED <<task, reaped, cursor, waiter, upto, got, stop>>

\* MUTANT: the wakeup is captured after the buffer was read.
DeliverCapturesLate(f) ==
  /\ at[f] = "yield"
  /\ got' = [got EXCEPT ![f] = Append(@, cursor[f])]
  /\ IF cursor[f] < upto[f]
       THEN /\ cursor' = [cursor EXCEPT ![f] = @ + 1]
            /\ UNCHANGED <<at, waiter>>
       ELSE /\ at' = [at EXCEPT ![f] = Exhaust(cursor[f])]
            /\ waiter' = [waiter EXCEPT ![f] = wakeup]
            /\ UNCHANGED cursor
  /\ UNCHANGED <<task, reaped, upto, stop>>

\* The yielded event reaches the client and the generator is resumed.
Deliver(f) ==
  /\ at[f] = "yield"
  /\ got' = [got EXCEPT ![f] = Append(@, cursor[f])]
  /\ IF cursor[f] < upto[f]
       THEN /\ cursor' = [cursor EXCEPT ![f] = @ + 1]
            /\ UNCHANGED at
       ELSE /\ at' = [at EXCEPT ![f] = Exhaust(cursor[f])]
            /\ UNCHANGED cursor
  /\ UNCHANGED <<task, reaped, waiter, upto, stop>>

\* The wakeup the follower captured has been set.
Wake(f) ==
  /\ at[f] = "asleep" /\ waiter[f] < wakeup
  /\ ReadBuffer(f)

KeepAlive(f) ==
  /\ at[f] = "asleep" /\ waiter[f] = wakeup
  /\ ReadBuffer(f)

\* The client goes away: the event in flight is not received, and the
\* generator's locals are lost with it.
Disconnect(f) ==
  /\ at[f] \in {"opening", "yield", "asleep"}
  /\ at' = [at EXCEPT ![f] = "away"]
  /\ cursor' = [cursor EXCEPT ![f] = 0]
  /\ waiter' = [waiter EXCEPT ![f] = 0]
  /\ upto' = [upto EXCEPT ![f] = 0]
  /\ UNCHANGED <<task, reaped, got, stop>>

-----------------------------------------------------------------------------
(* cancel: a Stop request.                                                 *)

Stop(s) ==
  /\ stop[s] = "idle" /\ running
  /\ stop' = [stop EXCEPT ![s] = "waiting"]
  /\ cancelReq' = (pc # "end")
  /\ UNCHANGED <<pc, state, events, wakeup, cur, parts, failed, final, stored,
                 finishRaised, reaped, followers>>

StopReturns(s) ==
  /\ stop[s] = "waiting" /\ pc = "end"
  /\ stop' = [stop EXCEPT ![s] = "returned"]
  /\ UNCHANGED <<task, reaped, followers>>

-----------------------------------------------------------------------------
TaskStep ==
  \/ Enter \/ CancelBeforeEntry
  \/ \E k \in Kinds : Receive(k)
  \/ Relay \/ Exhausted \/ ProducerRaises \/ Cancelled
  \/ FinishWrites \/ FinishReturns \/ FinishRaises \/ CancelDuringFinish
  \/ Drained

FollowerStep(f) == Open(f) \/ OpenReaped(f) \/ Deliver(f) \/ Wake(f)

Next ==
  \/ TaskStep
  \/ Reap
  \/ \E f \in Followers :
       Attach(f) \/ FollowerStep(f) \/ KeepAlive(f) \/ Disconnect(f)
  \/ \E s \in Stoppers : Stop(s) \/ StopReturns(s)

Spec == Init /\ [][Next]_vars

(***************************************************************************)
(* The event loop runs every ready callback, the producer is bounded by    *)
(* the turn timeout, and a follower's consumer keeps reading or leaves.    *)
(* The keep-alive timer gets no fairness: wakeups alone must suffice.      *)
(***************************************************************************)
FairSpec ==
  /\ Spec
  /\ WF_vars(TaskStep)
  /\ \A f \in Followers : WF_vars(FollowerStep(f))
  /\ \A s \in Stoppers : WF_vars(StopReturns(s))

-----------------------------------------------------------------------------
\* Every variable stays within its type: no follower is past the buffer, and
\* none waits for a wakeup that does not exist yet.
TypeOK ==
  /\ pc \in {"new", "pull", "onEvent", "finish", "written", "drain", "end"}
  /\ cancelReq \in BOOLEAN
  /\ state \in States
  /\ events \in Seq(Event)
  /\ wakeup \in Nat
  /\ cur \in Kinds
  /\ parts \in 0 .. MaxEvents
  /\ failed \in BOOLEAN
  /\ final \in States \ {"running"}
  /\ stored \in 0 .. NothingStored
  /\ finishRaised \in BOOLEAN
  /\ reaped \in BOOLEAN
  /\ at \in [Followers -> {"away", "opening", "yield", "asleep", "complete",
                           "gone", "empty"}]
  /\ cursor \in [Followers -> 0 .. Len(events)]
  /\ waiter \in [Followers -> 0 .. wakeup]
  /\ upto \in [Followers -> 0 .. Len(events)]
  /\ got \in [Followers -> Seq(1 .. Len(events))]
  /\ stop \in [Stoppers -> {"idle", "waiting", "returned"}]

\* A follower asleep on a wakeup nobody will set has yielded every event, and
\* the turn is still running: capturing the wakeup before reading the buffer
\* loses no event and no settling (turns.py, follow).
NoLostWakeup ==
  \A f \in Followers : at[f] = "asleep" /\ waiter[f] = wakeup
    => cursor[f] = Len(events) /\ running

\* A turn reports an answer or a failure, never both, and nothing follows a
\* `done`, whatever the producer yields and whenever the turn is stopped.
AnswerOrFailure ==
  \A i \in 1 .. Len(events) : events[i].kind = "done" =>
    /\ i = Len(events)
    /\ \A j \in 1 .. i : events[j].kind # "error"

\* What a client has been shown is on disk once its stream has ended with the
\* turn done or stopped, unless the write itself failed: `finish` runs before
\* the terminal state is published, and a stopped turn keeps its partial.
CompleteIsStored ==
  \A f \in Followers :
    at[f] = "complete" /\ state \in {"done", "cancelled"} /\ ~finishRaised =>
      \A i \in 1 .. Len(got[f]) :
        events[got[f][i]].part > 0 => stored \in events[got[f][i]].part .. MaxEvents

\* A turn reported as failed leaves no row behind, so that Retry does not
\* store the prompt twice.
FailedStoresNothing ==
  state = "error" => stored = NothingStored

\* The row on disk is the one the client was told of: all it was shown when the
\* turn ended or was stopped, nothing when it failed.
StoredAsReported == CompleteIsStored /\ FailedStoresNothing

\* The end of a turn is told truly: one outcome, and on disk what it implies.
OutcomeIsTrue == AnswerOrFailure /\ StoredAsReported

\* The turn and its followers implement ReplayLog: a client that resumes from
\* the last seq it saw, through any number of disconnections, receives every
\* event once and in order, and its stream ends by itself only at the end of a
\* settled turn.
Log == INSTANCE ReplayLog WITH
  Readers <- Followers,
  Entry <- Event,
  log <- events,
  open <- running,
  read <- [f \in Followers |-> [i \in 1 .. Len(got[f]) |-> events[got[f][i]]]],
  told <- [f \in Followers |-> at[f] = "complete"]

ReplaysLog == Log!Spec

\* Every open stream ends or is abandoned by its client, on wakeups alone,
\* unless the task died without settling the turn (StopSettlesTurn).
StreamsEnd ==
  \A f \in Followers :
    at[f] \in {"opening", "yield", "asleep"}
      ~> \/ at[f] \in {"complete", "gone", "empty", "away"}
         \/ pc = "end" /\ running

\* The comment in `cancel`: "The task's own handler has already marked the
\* turn cancelled and emitted the error frame to its followers."
StopSettlesTurn ==
  \A s \in Stoppers : stop[s] = "returned" => ~running

\* The comment in conversation.js: "the turn has persisted the canonical text
\* by the time `done` arrives."
DoneFrameMeansStored ==
  \A f \in Followers : \A i \in 1 .. Len(got[f]) :
    events[got[f][i]].kind = "done" /\ events[got[f][i]].part > 0
      => stored # NothingStored \/ finishRaised
=============================================================================
