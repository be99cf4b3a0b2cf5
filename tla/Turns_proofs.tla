--------------------------- MODULE Turns_proofs -----------------------------
(***************************************************************************)
(* What turns.py promises: of one turn and its followers, for any number   *)
(* of followers and Stop requests, and that they implement ReplayLog; and  *)
(* of the turns of one conversation and their queue, for any number of     *)
(* senders and releasers and whatever the bounds.                          *)
(***************************************************************************)
EXTENDS LiveTurn, TurnQueue, SequenceTheorems, TLAPS

-----------------------------------------------------------------------------
(***************************************************************************)
(* A turn and its followers (LiveTurn).                                    *)
(***************************************************************************)

(* The inductive invariant.  The task first.                               *)

Looping == pc \in {"new", "pull", "onEvent"}

\* An answer is no longer than the events that brought it, so MaxEvents bounds it.
PartsBounded ==
  /\ pc \in {"new", "pull"} => parts <= Len(events)
  /\ pc = "onEvent" => parts <= Len(events) + 1
  /\ \A i \in 1 .. Len(events) : events[i].part <= parts

\* `failed` remembers every error that was relayed, and a `done` ends the loop.
FailureKnown ==
  /\ cur = "error" /\ pc = "onEvent" => failed
  /\ Looping => \A i \in 1 .. Len(events) :
                  events[i].kind # "done" /\ (events[i].kind = "error" => failed)

\* The terminal state is published last, and is the one the loop ended with.
SettledLast ==
  /\ running => pc # "drain"
  /\ ~running => pc \in {"drain", "end"} /\ state = final
  /\ finishRaised => pc \in {"drain", "end"}
  /\ pc \in {"finish", "written"} => final \in {"done", "cancelled"}

\* What is stored is the whole answer of a turn that did not fail.
StoredWhole ==
  /\ Looping \/ pc = "finish" => stored = NothingStored
  /\ pc = "written" /\ parts > 0 => stored = parts
  /\ state \in {"done", "cancelled"} /\ ~finishRaised /\ parts > 0 => stored = parts
  /\ stored # NothingStored => final \in {"done", "cancelled"}

TaskInv == PartsBounded /\ FailureKnown /\ SettledLast /\ StoredWhole /\ AnswerOrFailure

\* A follower has received the first events in order.
InOrder(f) == \A i \in 1 .. Len(got[f]) : got[f][i] = i

\* Its cursor is the last of them, or the event it is about to hand over.
CursorIsNext(f) ==
  /\ at[f] \in {"opening", "asleep", "complete"} => cursor[f] = Len(got[f])
  /\ at[f] = "yield" => cursor[f] = Len(got[f]) + 1 /\ cursor[f] <= upto[f]

\* If its wakeup was not set since it read the buffer, the buffer has not grown.
BufferRead(f) ==
  /\ at[f] = "yield" /\ waiter[f] = wakeup => upto[f] = Len(events)
  /\ at[f] = "asleep" /\ waiter[f] = wakeup => cursor[f] = Len(events) /\ running
  /\ at[f] = "complete" => cursor[f] = Len(events) /\ ~running

FollowInv == \A f \in Followers : InOrder(f) /\ CursorIsNext(f) /\ BufferRead(f)

IInv == TypeOK /\ TaskInv /\ FollowInv

-----------------------------------------------------------------------------
LEMMA EmitType ==
  ASSUME TypeOK, NEW k \in Kinds
  PROVE  /\ [kind |-> k, part |-> parts] \in Event
         /\ emit(k) \in Seq(Event) /\ Len(emit(k)) = Len(events) + 1
         /\ emit(k)[Len(events) + 1] = [kind |-> k, part |-> parts]
         /\ \A i \in 1 .. Len(events) : emit(k)[i] = events[i]
<1>1. [kind |-> k, part |-> parts] \in Event
  BY DEF TypeOK, Event
<1> QED
  BY <1>1 DEF TypeOK, emit

LEMMA InitIInv == Init => IInv
<1> SUFFICES ASSUME Init PROVE IInv
  OBVIOUS
<1> USE MaxEventsAssumption DEF Init
<1>1. TypeOK
  <2>1. /\ parts \in 0 .. MaxEvents /\ stored \in 0 .. NothingStored
        /\ wakeup \in Nat /\ events \in Seq(Event) /\ Len(events) = 0
    BY DEF NothingStored
  <2>2. /\ cursor \in [Followers -> 0 .. Len(events)]
        /\ waiter \in [Followers -> 0 .. wakeup]
        /\ upto \in [Followers -> 0 .. Len(events)]
        /\ got \in [Followers -> Seq(1 .. Len(events))]
    BY <2>1
  <2> QED
    BY <2>1, <2>2 DEF TypeOK, States, Kinds
<1>2. TaskInv
  BY DEF TaskInv, PartsBounded, FailureKnown, SettledLast, StoredWhole, AnswerOrFailure,
     Looping, running
<1>3. FollowInv
  <2>1. ASSUME NEW f \in Followers PROVE at[f] = "away" /\ Len(got[f]) = 0
    OBVIOUS
  <2>2. ASSUME NEW f \in Followers, NEW i \in 1 .. Len(got[f]) PROVE FALSE
    BY <2>1, <2>2
  <2> QED
    BY <2>1, <2>2 DEF FollowInv, InOrder, CursorIsNext, BufferRead
<1> QED
  BY <1>1, <1>2, <1>3 DEF IInv

-----------------------------------------------------------------------------
(* Steps of the task.                                                      *)

\* How the loop ends: with an answer, or with a failure or a stop.
LoopEnds(fs, log) ==
  /\ pc \in {"pull", "onEvent"}
  /\ LeaveLoop(fs, log)
  /\ \/ fs = "done" /\ log = emit("done") /\ ~failed
     \/ fs \in {"error", "cancelled"} /\ log \in {events, emit("error")}
  /\ UNCHANGED <<cur, parts, failed, stored, finishRaised, reaped, followers, stop>>
  /\ cancelReq' \in BOOLEAN

\* An event is relayed, and the loop goes on.
Relays ==
  /\ pc = "onEvent" /\ pc' = "pull"
  /\ cur # "done"
  /\ events' = emit(cur)
  /\ wakeup' = wakeup + 1
  /\ UNCHANGED <<cancelReq, state, final, cur, parts, failed, stored, finishRaised,
                 reaped, followers, stop>>

LEMMA LoopSteps ==
  ASSUME TypeOK, Relay \/ Exhausted \/ ProducerRaises \/ Cancelled
  PROVE  \/ Relays
         \/ \E fs \in {"done", "error", "cancelled"},
              log \in {events, emit("done"), emit("error")} : LoopEnds(fs, log)
<1>1. cancelReq \in BOOLEAN
  BY DEF TypeOK
<1>2. CASE Relay
  <2>1. CASE cur = "done" /\ failed
    BY <1>1, <1>2, <2>1 DEF Relay, LoopEnds
  <2>2. CASE cur = "done" /\ ~failed
    BY <1>1, <1>2, <2>2 DEF Relay, LoopEnds
  <2>3. CASE cur # "done"
    BY <1>2, <2>3 DEF Relay, Relays
  <2> QED
    BY <2>1, <2>2, <2>3
<1>3. CASE Exhausted
  BY <1>1, <1>3 DEF Exhausted, LoopEnds
<1>4. CASE ProducerRaises
  BY <1>1, <1>4 DEF ProducerRaises, LoopEnds
<1>5. CASE Cancelled
  BY <1>5 DEF Cancelled, LoopEnds
<1> QED
  BY <1>2, <1>3, <1>4, <1>5

\* LeaveLoop, written out.
LEMMA LeaveLoopEffect ==
  ASSUME TypeOK, NEW fs \in {"done", "error", "cancelled"},
         NEW log \in {events, emit("done"), emit("error")}, LeaveLoop(fs, log)
  PROVE  /\ final' = fs /\ events' = log
         /\ wakeup' \in Nat
         /\ \/ /\ FinishSuspends(fs) /\ pc' = "finish" /\ state' = state
               /\ wakeup' = wakeup + (Len(log) - Len(events))
            \/ /\ ~FinishSuspends(fs) /\ pc' \in {"drain", "end"} /\ state' = fs
               /\ wakeup' > wakeup
<1>1. wakeup \in Nat /\ Len(events) \in Nat
  BY DEF TypeOK
<1>2. Len(log) = Len(events) \/ Len(log) = Len(events) + 1
  BY EmitType DEF Kinds
<1>3. Len(log) - Len(events) \in {0, 1}
  BY <1>1, <1>2
<1> QED
  BY <1>1, <1>3 DEF LeaveLoop, AfterSettle

\* All that followers can see of a step of the task: nothing, or an event more,
\* or the terminal state, and the wakeup that tells them.
Visible ==
  \/ UNCHANGED <<events, wakeup, state>>
  \/ /\ running /\ state' \in States
     /\ wakeup' \in Nat /\ wakeup' > wakeup
     /\ UNCHANGED events \/ \E e \in Event : events' = Append(events, e)

LEMMA RunningLoop == TaskInv /\ pc \notin {"drain", "end"} => running
  BY DEF TaskInv, SettledLast

LEMMA EmitAppends ==
  ASSUME TypeOK, NEW k \in Kinds
  PROVE  \E e \in Event : emit(k) = Append(events, e)
  BY EmitType DEF emit

LEMMA TaskVisible ==
  ASSUME TypeOK, TaskInv, TaskStep
  PROVE  Visible /\ UNCHANGED <<reaped, followers, stop>>
<1>1. ASSUME NEW fs \in {"done", "error", "cancelled"},
             NEW log \in {events, emit("done"), emit("error")}, LoopEnds(fs, log)
      PROVE  Visible /\ UNCHANGED <<reaped, followers, stop>>
  <2>1. running /\ LeaveLoop(fs, log) /\ UNCHANGED <<reaped, followers, stop>>
    BY <1>1, RunningLoop DEF LoopEnds
  <2>2. CASE log = events
    <3>1. log = events => Len(log) - Len(events) = 0
      BY DEF TypeOK
    <3> QED
      BY <2>1, <2>2, <3>1, LeaveLoopEffect DEF Visible, States, TypeOK
  <2>3. CASE log = emit("done") \/ log = emit("error")
    <3>1. \E e \in Event : log = Append(events, e)
      BY <2>3, EmitAppends DEF Kinds
    <3>2. Len(log) - Len(events) = 1
      BY <2>3, EmitType DEF Kinds, TypeOK
    <3>3. wakeup' > wakeup /\ events' = log /\ wakeup' \in Nat /\ state' \in States
      BY <2>1, <3>2, LeaveLoopEffect DEF TypeOK, States
    <3> QED
      BY <2>1, <3>1, <3>3 DEF Visible
  <2> QED
    BY <2>2, <2>3
<1>2. CASE Relays
  <2>1. running /\ cur \in Kinds /\ wakeup \in Nat /\ state \in States
    BY <1>2, RunningLoop DEF Relays, TypeOK
  <2>2. \E e \in Event : emit(cur) = Append(events, e)
    BY <2>1, EmitAppends
  <2> QED
    BY <1>2, <2>1, <2>2 DEF Relays, Visible
<1>3. CASE Relay \/ Exhausted \/ ProducerRaises \/ Cancelled
  BY <1>1, <1>2, <1>3, LoopSteps
<1>4. CASE FinishReturns \/ FinishRaises
  <2>1. Settle /\ running /\ final \in States /\ wakeup \in Nat
    BY <1>4, RunningLoop DEF FinishReturns, FinishRaises, TypeOK
  <2> QED
    BY <2>1 DEF Settle, Visible
<1>5. CASE \/ Enter \/ CancelBeforeEntry \/ FinishWrites \/ CancelDuringFinish \/ Drained
           \/ \E k \in Kinds : Receive(k)
  BY <1>5 DEF Enter, CancelBeforeEntry, FinishWrites, CancelDuringFinish, Drained, Receive,
     Visible, task, followers
<1> QED
  BY <1>3, <1>4, <1>5 DEF TaskStep

\* The task's own invariant.
LEMMA LoopEndsInv ==
  ASSUME TypeOK, TaskInv, NEW fs \in {"done", "error", "cancelled"},
         NEW log \in {events, emit("done"), emit("error")}, LoopEnds(fs, log)
  PROVE  TaskInv'
<1> USE DEF TaskInv
<1>1. /\ final' = fs /\ events' = log /\ running
      /\ UNCHANGED <<cur, parts, failed, stored, finishRaised>>
      /\ \/ FinishSuspends(fs) /\ pc' = "finish" /\ state' = state
         \/ ~FinishSuspends(fs) /\ pc' \in {"drain", "end"} /\ state' = fs
  BY LeaveLoopEffect, RunningLoop DEF LoopEnds
<1>2. /\ stored = NothingStored /\ ~finishRaised /\ parts \in Nat
      /\ Len(events) \in Nat
  BY DEF LoopEnds, StoredWhole, Looping, SettledLast, TypeOK
<1>3. ASSUME NEW i \in 1 .. Len(log)
      PROVE  /\ log[i].part <= parts
             /\ \/ i \in 1 .. Len(events) /\ log[i] = events[i]
                \/ i = Len(log) /\ log = emit("done") /\ fs = "done" /\ log[i].kind = "done"
                \/ i = Len(log) /\ log = emit("error") /\ fs # "done" /\ log[i].kind = "error"
  <2>1. CASE log = events
    BY <2>1 DEF PartsBounded
  <2>2. ASSUME NEW k \in {"done", "error"}, log = emit(k)
        PROVE  /\ log[i].part <= parts
               /\ \/ i \in 1 .. Len(events) /\ log[i] = events[i]
                  \/ i = Len(log) /\ log[i].kind = k
    <3>1. /\ Len(log) = Len(events) + 1
          /\ log[Len(events) + 1] = [kind |-> k, part |-> parts]
          /\ \A j \in 1 .. Len(events) : log[j] = events[j]
      BY <2>2, EmitType DEF Kinds
    <3>2. CASE i = Len(events) + 1
      BY <1>2, <3>1, <3>2
    <3>3. CASE i \in 1 .. Len(events)
      BY <3>1, <3>3 DEF PartsBounded
    <3> QED
      BY <1>2, <3>1, <3>2, <3>3
  <2>3. "done" # "error" /\ emit("done") # emit("error")
    <3>1. emit("done")[Len(events) + 1].kind = "done" /\ emit("error")[Len(events) + 1].kind = "error"
      BY EmitType DEF Kinds
    <3> QED
      BY <3>1
  <2>4. CASE log = emit("done") /\ fs = "done"
    BY <2>2, <2>4
  <2>5. CASE log = emit("error") /\ fs # "done"
    BY <2>2, <2>5
  <2>6. \/ log = events
        \/ log = emit("done") /\ fs = "done"
        \/ log = emit("error") /\ fs # "done"
    BY DEF LoopEnds
  <2> QED
    BY <2>1, <2>4, <2>5, <2>6
<1>4. PartsBounded'
  BY <1>1, <1>3 DEF PartsBounded
<1>5. FailureKnown'
  BY <1>1 DEF FailureKnown, Looping
<1>6. SettledLast'
  <2>1. pc' = "finish" => fs # "error"
    BY <1>1 DEF FinishSuspends
  <2> QED
    BY <1>1, <1>2, <2>1 DEF SettledLast, running
<1>7. StoredWhole'
  <2>1. state' \in {"done", "cancelled"} => parts = 0
    BY <1>1, <1>2 DEF FinishSuspends, running
  <2> QED
    BY <1>1, <1>2, <2>1 DEF StoredWhole, Looping
<1>8. AnswerOrFailure'
  <2>1. ASSUME NEW i \in 1 .. Len(log), log[i].kind = "done"
        PROVE  i = Len(log) /\ \A j \in 1 .. i : log[j].kind # "error"
    <3>1. \A j \in 1 .. Len(events) : events[j].kind # "done"
                                      /\ (events[j].kind = "error" => failed)
      BY DEF FailureKnown, Looping, LoopEnds
    <3>2. i = Len(log) /\ log = emit("done") /\ fs = "done"
      BY <1>3, <2>1, <3>1
    <3>3. ~failed
      BY <3>2 DEF LoopEnds
    <3>4. \A j \in 1 .. Len(log) : log[j].kind # "error"
      BY <1>3, <3>1, <3>2, <3>3
    <3> QED
      BY <3>2, <3>4
  <2> QED
    BY <1>1, <2>1 DEF AnswerOrFailure
<1> QED
  BY <1>4, <1>5, <1>6, <1>7, <1>8

LEMMA RelaysInv ==
  ASSUME TypeOK, TaskInv, Relays
  PROVE  TaskInv'
<1> USE DEF TaskInv
<1>1. /\ cur \in Kinds /\ cur # "done" /\ (cur = "error" => failed)
      /\ parts \in Nat /\ Len(events) \in Nat /\ parts <= Len(events) + 1
      /\ running /\ stored = NothingStored /\ ~finishRaised
  BY RunningLoop
     DEF Relays, TypeOK, FailureKnown, PartsBounded, StoredWhole, SettledLast, Looping
<1>2. /\ Len(events') = Len(events) + 1
      /\ events'[Len(events) + 1] = [kind |-> cur, part |-> parts]
      /\ \A i \in 1 .. Len(events) : events'[i] = events[i]
  BY <1>1, EmitType DEF Relays
<1>3. /\ pc' = "pull"
      /\ UNCHANGED <<state, final, cur, parts, failed, stored, finishRaised>>
  BY DEF Relays
<1>4. \A i \in 1 .. Len(events') :
        /\ events'[i].part <= parts
        /\ events'[i].kind # "done" /\ (events'[i].kind = "error" => failed)
  BY <1>1, <1>2 DEF Relays, PartsBounded, FailureKnown, Looping
<1>5. PartsBounded'
  BY <1>1, <1>2, <1>3, <1>4 DEF PartsBounded
<1>6. FailureKnown' /\ AnswerOrFailure'
  BY <1>3, <1>4 DEF FailureKnown, AnswerOrFailure
<1>7. SettledLast' /\ StoredWhole'
  BY <1>1, <1>3 DEF SettledLast, StoredWhole, Looping, running
<1> QED
  BY <1>5, <1>6, <1>7

LEMMA ReceiveInv ==
  ASSUME TypeOK, TaskInv, NEW k \in Kinds, Receive(k)
  PROVE  TaskInv' /\ parts' \in 0 .. MaxEvents
<1> USE DEF TaskInv
<1>1. /\ pc = "pull" /\ pc' = "onEvent" /\ cur' = k /\ parts <= Len(events)
      /\ Len(events) < MaxEvents /\ running
      /\ failed' = (failed \/ k = "error")
      /\ parts' \in {parts, parts + 1}
      /\ UNCHANGED <<events, state, final, stored, finishRaised>>
  BY RunningLoop DEF Receive, PartsBounded
<1>2. parts \in Nat /\ Len(events) \in Nat /\ MaxEvents \in Nat
  BY MaxEventsAssumption DEF TypeOK
<1>3. \A i \in 1 .. Len(events) : events[i].part \in Nat
  <2>1. \A i \in 1 .. Len(events) : events[i] \in Event
    BY DEF TypeOK
  <2> QED
    BY <1>2, <2>1 DEF Event
<1>4. PartsBounded'
  BY <1>1, <1>2, <1>3 DEF PartsBounded
<1>5. FailureKnown' /\ AnswerOrFailure'
  BY <1>1 DEF FailureKnown, AnswerOrFailure, Looping
<1>6. SettledLast' /\ StoredWhole'
  BY <1>1 DEF SettledLast, StoredWhole, Looping, running
<1> QED
  BY <1>1, <1>2, <1>4, <1>5, <1>6

LEMMA FinishInv ==
  ASSUME TypeOK, TaskInv,
         FinishWrites \/ FinishReturns \/ FinishRaises \/ CancelDuringFinish
  PROVE  TaskInv' /\ stored' \in 0 .. NothingStored
<1> USE DEF TaskInv
<1>1. /\ pc \in {"finish", "written"} /\ final \in {"done", "cancelled"}
      /\ running /\ ~finishRaised
  BY RunningLoop DEF FinishWrites, FinishReturns, FinishRaises, CancelDuringFinish,
     SettledLast
<1>2. UNCHANGED <<events, parts, failed, cur, final>>
  BY DEF FinishWrites, FinishReturns, FinishRaises, CancelDuringFinish, Settle
<1>3. /\ stored' \in Writes \cup {stored}
      /\ stored' # stored => pc = "finish"
  BY DEF FinishWrites, FinishReturns, FinishRaises, CancelDuringFinish
<1>4. /\ parts \in 0 .. MaxEvents /\ stored \in 0 .. NothingStored
      /\ NothingStored = MaxEvents + 1 /\ MaxEvents \in Nat
  BY MaxEventsAssumption DEF TypeOK, NothingStored
<1>5. stored' \in 0 .. NothingStored
  BY <1>3, <1>4 DEF Writes
<1>6. /\ pc' \in {"written", "drain", "end"}
      /\ PartsBounded' /\ FailureKnown' /\ AnswerOrFailure'
  BY <1>1, <1>2 DEF FinishWrites, FinishReturns, FinishRaises, CancelDuringFinish, Settle,
     AfterSettle, PartsBounded, FailureKnown, AnswerOrFailure, Looping
<1>7. CASE FinishWrites
  BY <1>1, <1>2, <1>3, <1>4, <1>5, <1>6, <1>7
     DEF FinishWrites, SettledLast, StoredWhole, Looping, Writes, running
<1>8. CASE FinishReturns
  <2>1. /\ state' = final /\ pc' \in {"drain", "end"} /\ pc = "written"
        /\ UNCHANGED <<stored, finishRaised>>
    BY <1>8 DEF FinishReturns, Settle, AfterSettle
  <2> QED
    BY <1>1, <1>2, <1>4, <1>5, <1>6, <2>1 DEF SettledLast, StoredWhole, Looping, running
<1>9. CASE FinishRaises
  <2>1. /\ state' = final /\ pc' \in {"drain", "end"} /\ finishRaised' = TRUE
        /\ UNCHANGED stored
    BY <1>9 DEF FinishRaises, Settle, AfterSettle
  <2> QED
    BY <1>1, <1>2, <1>4, <1>5, <1>6, <2>1 DEF SettledLast, StoredWhole, Looping, running
<1>10. CASE CancelDuringFinish
  <2>1. pc' = "end" /\ UNCHANGED <<state, finishRaised>>
    BY <1>10 DEF CancelDuringFinish
  <2> QED
    BY <1>1, <1>2, <1>4, <1>5, <1>6, <2>1 DEF SettledLast, StoredWhole, Looping, running
<1> QED
  BY <1>5, <1>7, <1>8, <1>9, <1>10

LEMMA TaskStepInv ==
  ASSUME TypeOK, TaskInv, TaskStep
  PROVE  TaskInv'
<1>1. CASE Relay \/ Exhausted \/ ProducerRaises \/ Cancelled
  BY <1>1, LoopSteps, LoopEndsInv, RelaysInv
<1>2. CASE Enter \/ CancelBeforeEntry \/ Drained
  BY <1>2 DEF Enter, CancelBeforeEntry, Drained, TaskInv, PartsBounded, FailureKnown,
     SettledLast, StoredWhole, AnswerOrFailure, Looping, running
<1> QED
  BY <1>1, <1>2, ReceiveInv, FinishInv DEF TaskStep

\* The conjuncts of TypeOK that only the task can disturb.
TaskTypes ==
  /\ pc \in {"new", "pull", "onEvent", "finish", "written", "drain", "end"}
  /\ cancelReq \in BOOLEAN /\ cur \in Kinds /\ failed \in BOOLEAN
  /\ final \in States \ {"running"} /\ finishRaised \in BOOLEAN

LEMMA TaskStepType ==
  ASSUME TypeOK, TaskInv, TaskStep
  PROVE  TypeOK'
<1>1. Visible /\ UNCHANGED <<reaped, at, cursor, waiter, upto, got, stop>>
  BY TaskVisible DEF followers
<1>2. /\ events' \in Seq(Event) /\ Len(events) <= Len(events')
      /\ wakeup' \in Nat /\ wakeup <= wakeup' /\ state' \in States
  <2>1. events \in Seq(Event) /\ Len(events) \in Nat /\ wakeup \in Nat /\ state \in States
    BY DEF TypeOK
  <2>2. \A e \in Event : /\ Append(events, e) \in Seq(Event)
                         /\ Len(Append(events, e)) = Len(events) + 1
    BY <2>1
  <2> QED
    BY <1>1, <2>1, <2>2 DEF Visible
<1>3. /\ cursor' \in [Followers -> 0 .. Len(events')]
      /\ waiter' \in [Followers -> 0 .. wakeup']
      /\ upto' \in [Followers -> 0 .. Len(events')]
      /\ got' \in [Followers -> Seq(1 .. Len(events'))]
  <2>1. /\ 0 .. Len(events) \subseteq 0 .. Len(events')
        /\ 0 .. wakeup \subseteq 0 .. wakeup'
        /\ 1 .. Len(events) \subseteq 1 .. Len(events')
    BY <1>2 DEF TypeOK
  <2>2. Seq(1 .. Len(events)) \subseteq Seq(1 .. Len(events'))
    BY <2>1, SeqMonotonic
  <2>3. /\ cursor \in [Followers -> 0 .. Len(events)] /\ waiter \in [Followers -> 0 .. wakeup]
        /\ upto \in [Followers -> 0 .. Len(events)]
        /\ got \in [Followers -> Seq(1 .. Len(events))]
    BY DEF TypeOK
  <2> QED
    BY <1>1, <2>1, <2>2, <2>3
<1>4. parts' \in 0 .. MaxEvents /\ stored' \in 0 .. NothingStored
  <2>1. parts \in 0 .. MaxEvents /\ stored \in 0 .. NothingStored
    BY DEF TypeOK
  <2>2. CASE \E k \in Kinds : Receive(k)
    BY <2>1, <2>2, ReceiveInv DEF Receive
  <2>3. CASE FinishWrites \/ FinishReturns \/ FinishRaises \/ CancelDuringFinish
    BY <2>1, <2>3, FinishInv
       DEF FinishWrites, FinishReturns, FinishRaises, CancelDuringFinish, Settle
  <2>4. CASE Relay \/ Exhausted \/ ProducerRaises \/ Cancelled
    BY <2>1, <2>4 DEF Relay, Exhausted, ProducerRaises, Cancelled
  <2>5. CASE Enter \/ CancelBeforeEntry \/ Drained
    BY <2>1, <2>5 DEF Enter, CancelBeforeEntry, Drained
  <2> QED
    BY <2>2, <2>3, <2>4, <2>5 DEF TaskStep
<1>5. TaskTypes'
  <2>1. TaskTypes
    BY DEF TaskTypes, TypeOK
  <2>2. ASSUME NEW fs \in {"done", "error", "cancelled"},
               NEW log \in {events, emit("done"), emit("error")}, LoopEnds(fs, log)
        PROVE  TaskTypes'
    <3>1. /\ final' = fs /\ pc' \in {"finish", "drain", "end"}
          /\ UNCHANGED <<cur, failed, finishRaised>> /\ cancelReq' \in BOOLEAN
      BY <2>2, LeaveLoopEffect DEF LoopEnds
    <3> QED
      BY <2>1, <3>1 DEF TaskTypes, States
  <2>3. CASE Relays
    BY <2>1, <2>3 DEF Relays, TaskTypes
  <2>4. CASE Relay \/ Exhausted \/ ProducerRaises \/ Cancelled
    BY <2>2, <2>3, <2>4, LoopSteps
  <2>5. CASE \E k \in Kinds : Receive(k)
    BY <2>1, <2>5 DEF Receive, TaskTypes
  <2>6. CASE FinishWrites \/ FinishReturns \/ FinishRaises \/ CancelDuringFinish
    BY <2>1, <2>6 DEF FinishWrites, FinishReturns, FinishRaises, CancelDuringFinish, Settle,
       AfterSettle, TaskTypes
  <2>7. CASE Enter \/ CancelBeforeEntry \/ Drained
    BY <2>1, <2>7 DEF Enter, CancelBeforeEntry, Drained, TaskTypes
  <2> QED
    BY <2>4, <2>5, <2>6, <2>7 DEF TaskStep
<1> QED
  BY <1>1, <1>2, <1>3, <1>4, <1>5 DEF TypeOK, TaskTypes

-----------------------------------------------------------------------------
(* Steps of the followers.                                                 *)

FollowerAction(f) ==
  \/ Attach(f) \/ Open(f) \/ OpenReaped(f) \/ Deliver(f) \/ Wake(f)
  \/ KeepAlive(f) \/ Disconnect(f)

Waits(f) == at[f] \in {"opening", "asleep"}

LEMMA FollowerTypes ==
  ASSUME TypeOK, NEW f \in Followers
  PROVE  /\ cursor[f] \in 0 .. Len(events) /\ upto[f] \in 0 .. Len(events)
         /\ waiter[f] \in 0 .. wakeup
         /\ got[f] \in Seq(1 .. Len(events)) /\ Len(got[f]) \in Nat
         /\ Len(events) \in Nat /\ wakeup \in Nat
  BY DEF TypeOK

\* A follower has no more than the events there are.
LEMMA GotBounded ==
  ASSUME TypeOK, NEW f \in Followers, InOrder(f)
  PROVE  Len(got[f]) <= Len(events)
<1>1. got[f] \in Seq(1 .. Len(events)) /\ Len(got[f]) \in Nat /\ Len(events) \in Nat
  BY FollowerTypes
<1>2. CASE Len(got[f]) = 0
  BY <1>1, <1>2
<1>3. CASE Len(got[f]) # 0
  <2>1. Len(got[f]) \in 1 .. Len(got[f])
    BY <1>1, <1>3
  <2>2. got[f][Len(got[f])] \in 1 .. Len(events)
    BY <1>1, <2>1, ElementOfSeq
  <2> QED
    BY <2>1, <2>2 DEF InOrder
<1> QED
  BY <1>2, <1>3

Ats == {"away", "opening", "yield", "asleep", "complete", "gone", "empty"}

\* The follower's variables become a, c, w, u and g.
Becomes(f, a, c, w, u, g) ==
  /\ at' = [at EXCEPT ![f] = a]
  /\ cursor' = [cursor EXCEPT ![f] = c]
  /\ waiter' = [waiter EXCEPT ![f] = w]
  /\ upto' = [upto EXCEPT ![f] = u]
  /\ got' = [got EXCEPT ![f] = g]

\* They are of their types, and satisfy the follower's part of the invariant.
Good(f, a, c, w, u, g) ==
  /\ a \in Ats /\ c \in 0 .. Len(events) /\ w \in 0 .. wakeup /\ u \in 0 .. Len(events)
  /\ g \in Seq(1 .. Len(events))
  /\ \/ g = got[f]
     \/ g = Append(got[f], Len(got[f]) + 1) /\ Len(got[f]) < Len(events)
  /\ a \in {"opening", "asleep", "complete"} => c = Len(g)
  /\ a = "yield" => c = Len(g) + 1 /\ c <= u
  /\ a = "yield" /\ w = wakeup => u = Len(events)
  /\ a = "asleep" /\ w = wakeup => c = Len(events) /\ running
  /\ a = "complete" => c = Len(events) /\ ~running

LEMMA FollowerEffect ==
  ASSUME TypeOK, FollowInv, NEW f \in Followers, FollowerAction(f)
  PROVE  /\ UNCHANGED <<task, reaped, stop>>
         /\ \E a, c, w, u, g : Becomes(f, a, c, w, u, g) /\ Good(f, a, c, w, u, g)
<1>0. UNCHANGED <<task, reaped, stop>>
  BY DEF FollowerAction, Attach, Open, OpenReaped, Deliver, Wake, KeepAlive, Disconnect,
     ReadBuffer
<1>1. InOrder(f) /\ CursorIsNext(f) /\ BufferRead(f)
  BY DEF FollowInv
<1>2. /\ cursor[f] \in 0 .. Len(events) /\ upto[f] \in 0 .. Len(events)
      /\ waiter[f] \in 0 .. wakeup
      /\ got[f] \in Seq(1 .. Len(events)) /\ Len(got[f]) \in 0 .. Len(events)
      /\ Len(events) \in Nat /\ wakeup \in Nat
  BY <1>1, FollowerTypes, GotBounded
<1>3. /\ at = [at EXCEPT ![f] = at[f]] /\ cursor = [cursor EXCEPT ![f] = cursor[f]]
      /\ waiter = [waiter EXCEPT ![f] = waiter[f]] /\ upto = [upto EXCEPT ![f] = upto[f]]
      /\ got = [got EXCEPT ![f] = got[f]]
  BY DEF TypeOK
<1>4. CASE Attach(f)
  <2>1. Becomes(f, "opening", Len(got[f]), waiter[f], upto[f], got[f])
    BY <1>3, <1>4 DEF Attach, Becomes
  <2>2. Good(f, "opening", Len(got[f]), waiter[f], upto[f], got[f])
    BY <1>2 DEF Good, Ats
  <2> QED
    BY <1>0, <2>1, <2>2
<1>5. CASE OpenReaped(f)
  <2>1. PICK a \in {"gone", "empty"} : Becomes(f, a, cursor[f], waiter[f], upto[f], got[f])
    BY <1>3, <1>5 DEF OpenReaped, Becomes
  <2>2. Good(f, a, cursor[f], waiter[f], upto[f], got[f])
    BY <1>2 DEF Good, Ats
  <2> QED
    BY <1>0, <2>1, <2>2
<1>6. CASE Disconnect(f)
  <2>1. Becomes(f, "away", 0, 0, 0, got[f])
    BY <1>3, <1>6 DEF Disconnect, Becomes
  <2>2. Good(f, "away", 0, 0, 0, got[f])
    BY <1>2 DEF Good, Ats
  <2> QED
    BY <1>0, <2>1, <2>2
<1>7. CASE Waits(f) /\ ReadBuffer(f)
  <2>1. cursor[f] = Len(got[f])
    BY <1>1, <1>7 DEF Waits, CursorIsNext
  <2>2. CASE cursor[f] < Len(events)
    <3>1. Becomes(f, "yield", cursor[f] + 1, wakeup, Len(events), got[f])
      BY <1>3, <1>7, <2>2 DEF ReadBuffer, Becomes
    <3>2. Good(f, "yield", cursor[f] + 1, wakeup, Len(events), got[f])
      BY <1>2, <2>1, <2>2 DEF Good, Ats
    <3> QED
      BY <1>0, <3>1, <3>2
  <2>3. CASE ~(cursor[f] < Len(events))
    <3>1. Becomes(f, Exhaust(cursor[f]), cursor[f], wakeup, Len(events), got[f])
      BY <1>3, <1>7, <2>3 DEF ReadBuffer, Becomes
    <3>2. cursor[f] = Len(events)
      BY <1>2, <2>3
    <3>3. Good(f, Exhaust(cursor[f]), cursor[f], wakeup, Len(events), got[f])
      BY <1>2, <2>1, <3>2 DEF Good, Ats, Exhaust
    <3> QED
      BY <1>0, <3>1, <3>3
  <2> QED
    BY <2>2, <2>3
<1>8. CASE Deliver(f)
  <2> DEFINE g == Append(got[f], cursor[f])
  <2>1. at[f] = "yield" /\ cursor[f] = Len(got[f]) + 1 /\ cursor[f] <= upto[f]
    BY <1>1, <1>8 DEF Deliver, CursorIsNext
  <2>2. cursor[f] \in 1 .. Len(events)
    BY <1>2, <2>1
  <2>3. /\ g \in Seq(1 .. Len(events)) /\ Len(g) = Len(got[f]) + 1
        /\ g = Append(got[f], Len(got[f]) + 1) /\ Len(got[f]) < Len(events)
    BY <1>2, <2>1, <2>2
  <2>4. waiter[f] = wakeup => upto[f] = Len(events)
    BY <1>1, <2>1 DEF BufferRead
  <2>5. CASE cursor[f] < upto[f]
    <3>1. Becomes(f, "yield", cursor[f] + 1, waiter[f], upto[f], g)
      BY <1>3, <1>8, <2>1, <2>5 DEF Deliver, Becomes
    <3> HIDE DEF g
    <3>2. Good(f, "yield", cursor[f] + 1, waiter[f], upto[f], g)
      BY <1>2, <2>1, <2>3, <2>4, <2>5 DEF Good, Ats
    <3> QED
      BY <1>0, <3>1, <3>2
  <2>6. CASE ~(cursor[f] < upto[f])
    <3>1. Becomes(f, Exhaust(cursor[f]), cursor[f], waiter[f], upto[f], g)
      BY <1>3, <1>8, <2>6 DEF Deliver, Becomes
    <3> HIDE DEF g
    <3>2. cursor[f] = upto[f]
      BY <1>2, <2>1, <2>6
    <3>3. Good(f, Exhaust(cursor[f]), cursor[f], waiter[f], upto[f], g)
      BY <1>2, <2>1, <2>3, <2>4, <3>2 DEF Good, Ats, Exhaust
    <3> QED
      BY <1>0, <3>1, <3>3
  <2> QED
    BY <2>5, <2>6
<1> QED
  BY <1>4, <1>5, <1>6, <1>7, <1>8 DEF FollowerAction, Open, Wake, KeepAlive, Waits

LEMMA FollowerInv ==
  ASSUME TypeOK, FollowInv, NEW f \in Followers, FollowerAction(f)
  PROVE  TypeOK' /\ FollowInv'
<1>1. UNCHANGED <<task, reaped, stop>>
  BY FollowerEffect
<1>2. PICK a, c, w, u, g : Becomes(f, a, c, w, u, g) /\ Good(f, a, c, w, u, g)
  BY FollowerEffect
<1>3. /\ at'[f] = a /\ cursor'[f] = c /\ waiter'[f] = w /\ upto'[f] = u /\ got'[f] = g
      /\ \A q \in Followers : q # f =>
           /\ at'[q] = at[q] /\ cursor'[q] = cursor[q] /\ waiter'[q] = waiter[q]
           /\ upto'[q] = upto[q] /\ got'[q] = got[q]
  BY <1>2 DEF Becomes, TypeOK
<1>4. UNCHANGED <<events, wakeup, state>>
  BY <1>1 DEF task
<1>5. TypeOK'
  <2>1. /\ at' \in [Followers -> Ats] /\ cursor' \in [Followers -> 0 .. Len(events)]
        /\ waiter' \in [Followers -> 0 .. wakeup] /\ upto' \in [Followers -> 0 .. Len(events)]
        /\ got' \in [Followers -> Seq(1 .. Len(events))]
    BY <1>2 DEF Becomes, Good, TypeOK, Ats
  <2> QED
    BY <1>1, <1>4, <2>1 DEF TypeOK, task, Ats
<1>6. InOrder(f)'
  <2>1. InOrder(f) /\ got[f] \in Seq(1 .. Len(events)) /\ Len(got[f]) \in Nat
        /\ Len(events) \in Nat
    BY FollowerTypes DEF FollowInv
  <2>2. CASE g = got[f]
    BY <1>3, <2>1, <2>2 DEF InOrder
  <2>3. CASE g = Append(got[f], Len(got[f]) + 1) /\ Len(got[f]) < Len(events)
    <3>1. Len(got[f]) + 1 \in 1 .. Len(events)
      BY <2>1, <2>3
    <3>2. /\ Len(g) = Len(got[f]) + 1 /\ g[Len(got[f]) + 1] = Len(got[f]) + 1
          /\ \A i \in 1 .. Len(got[f]) : g[i] = got[f][i]
      BY <2>1, <2>3, <3>1
    <3> QED
      BY <1>3, <2>1, <3>2 DEF InOrder
  <2> QED
    BY <1>2, <2>2, <2>3 DEF Good
<1>7. CursorIsNext(f)' /\ BufferRead(f)'
  BY <1>2, <1>3, <1>4 DEF Good, CursorIsNext, BufferRead, running
<1>8. ASSUME NEW q \in Followers, q # f
      PROVE  InOrder(q)' /\ CursorIsNext(q)' /\ BufferRead(q)'
  BY <1>3, <1>4, <1>8 DEF FollowInv, InOrder, CursorIsNext, BufferRead, running
<1> QED
  BY <1>5, <1>6, <1>7, <1>8 DEF FollowInv

\* The task only adds events, and wakes those who have not read them.
LEMMA TaskKeepsFollowers ==
  ASSUME TypeOK, TaskInv, FollowInv, TaskStep
  PROVE  FollowInv'
<1>1. Visible /\ UNCHANGED <<at, cursor, waiter, upto, got>>
  BY TaskVisible DEF followers
<1>2. SUFFICES ASSUME NEW f \in Followers
               PROVE  InOrder(f)' /\ CursorIsNext(f)' /\ BufferRead(f)'
  BY DEF FollowInv
<1>3. InOrder(f) /\ CursorIsNext(f) /\ BufferRead(f)
  BY DEF FollowInv
<1>4. InOrder(f)' /\ CursorIsNext(f)'
  BY <1>1, <1>3 DEF InOrder, CursorIsNext
<1>5. BufferRead(f)'
  <2>1. CASE UNCHANGED <<events, wakeup, state>>
    BY <1>1, <1>3, <2>1 DEF BufferRead, running
  <2>2. CASE running /\ wakeup' > wakeup /\ wakeup' \in Nat
    <3>1. waiter[f] \in 0 .. wakeup /\ wakeup \in Nat
      BY FollowerTypes
    <3>2. waiter[f] # wakeup' /\ at[f] # "complete"
      BY <1>3, <2>2, <3>1 DEF BufferRead
    <3> QED
      BY <1>1, <3>2 DEF BufferRead
  <2> QED
    BY <1>1, <2>1, <2>2 DEF Visible
<1> QED
  BY <1>4, <1>5

LEMMA NextIInv == IInv /\ [Next]_vars => IInv'
<1> SUFFICES ASSUME IInv, [Next]_vars PROVE IInv'
  OBVIOUS
<1> USE DEF IInv
<1>1. CASE TaskStep
  BY <1>1, TaskStepType, TaskStepInv, TaskKeepsFollowers
<1>2. ASSUME NEW f \in Followers, FollowerAction(f) PROVE IInv'
  <2>1. UNCHANGED task
    BY <1>2, FollowerEffect
  <2>2. TaskInv'
    BY <2>1 DEF TaskInv, task, PartsBounded, FailureKnown, SettledLast, StoredWhole,
       AnswerOrFailure, Looping, running
  <2> QED
    BY <1>2, <2>2, FollowerInv
<1>3. CASE Reap \/ UNCHANGED vars
           \/ \E s \in Stoppers : Stop(s) \/ StopReturns(s)
  <2>1. UNCHANGED <<pc, state, events, wakeup, cur, parts, failed, final, stored,
                    finishRaised, followers>>
    BY <1>3 DEF Reap, vars, Stop, StopReturns, task
  <2>2. TypeOK'
    <3>1. /\ reaped' \in BOOLEAN /\ cancelReq' \in BOOLEAN
          /\ stop' \in [Stoppers -> {"idle", "waiting", "returned"}]
      BY <1>3 DEF Reap, vars, Stop, StopReturns, task, TypeOK
    <3> QED
      BY <2>1, <3>1 DEF TypeOK, followers
  <2>3. TaskInv'
    BY <2>1 DEF TaskInv, PartsBounded, FailureKnown, SettledLast, StoredWhole,
       AnswerOrFailure, Looping, running
  <2>4. FollowInv'
    BY <2>1 DEF FollowInv, InOrder, CursorIsNext, BufferRead, followers, running
  <2> QED
    BY <2>2, <2>3, <2>4
<1> QED
  BY <1>1, <1>2, <1>3 DEF Next, FollowerAction, FollowerStep

-----------------------------------------------------------------------------
(* The turn implements ReplayLog.                                          *)

\* What follower f has read: the right-hand sides of the refinement mapping.
ReadBy(f) == [i \in 1 .. Len(got[f]) |-> events[got[f][i]]]
reads == [f \in Followers |-> ReadBy(f)]
tolds == [f \in Followers |-> at[f] = "complete"]

\* An abstract step, or a step the readers do not see.
LogStep == Log!Next \/ UNCHANGED <<events, running, reads, tolds>>

LEMMA ReadType ==
  ASSUME TypeOK, NEW f \in Followers
  PROVE  /\ ReadBy(f) \in Seq(Event) /\ Len(ReadBy(f)) = Len(got[f])
         /\ \A i \in 1 .. Len(got[f]) : got[f][i] \in 1 .. Len(events)
                                        /\ ReadBy(f)[i] = events[got[f][i]]
<1>1. got[f] \in Seq(1 .. Len(events)) /\ events \in Seq(Event) /\ Len(got[f]) \in Nat
  BY FollowerTypes DEF TypeOK
<1>2. \A i \in 1 .. Len(got[f]) : got[f][i] \in 1 .. Len(events) /\ events[got[f][i]] \in Event
  BY <1>1, ElementOfSeq
<1> QED
  BY <1>1, <1>2 DEF ReadBy

LEMMA InitRefines == Init => Log!Init
<1> SUFFICES ASSUME Init PROVE Log!Init
  OBVIOUS
<1>1. ASSUME NEW f \in Followers PROVE ReadBy(f) = << >> /\ at[f] # "complete"
  <2>1. Len(got[f]) = 0 /\ at[f] # "complete"
    BY DEF Init
  <2>2. ReadBy(f) \in Seq(Event) /\ Len(ReadBy(f)) = 0
    BY <2>1, InitIInv, ReadType DEF IInv
  <2> QED
    BY <2>1, <2>2, EmptySeq
<1> QED
  BY <1>1 DEF Init, Log!Init, ReadBy, running

LEMMA TaskRefines ==
  ASSUME IInv, TaskStep
  PROVE  LogStep
<1> USE DEF IInv
<1>1. Visible /\ UNCHANGED <<at, got>>
  BY TaskVisible DEF followers
<1>2. \A f \in Followers : ReadBy(f)' = ReadBy(f)
  <2> SUFFICES ASSUME NEW f \in Followers PROVE ReadBy(f)' = ReadBy(f)
    OBVIOUS
  <2>1. \A i \in 1 .. Len(got[f]) : got[f][i] \in 1 .. Len(events)
    BY ReadType
  <2>2. \A j \in 1 .. Len(events) : events'[j] = events[j]
    <3>1. events' = events \/ \E e \in Event : events' = Append(events, e)
      BY <1>1 DEF Visible
    <3>2. events \in Seq(Event)
      BY DEF TypeOK
    <3> QED
      BY <3>1, <3>2
  <2>3. \A i \in 1 .. Len(got[f]) : events'[got[f][i]] = events[got[f][i]]
    BY <2>1, <2>2
  <2>4. got' = got
    BY <1>1
  <2>5. ReadBy(f)' = [i \in 1 .. Len(got[f]) |-> events'[got[f][i]]]
    BY <2>4 DEF ReadBy
  <2> QED
    BY <2>3, <2>5 DEF ReadBy
<1>3. UNCHANGED <<reads, tolds>>
  BY <1>1, <1>2 DEF reads, tolds
<1>4. CASE UNCHANGED <<events, wakeup, state>>
  BY <1>3, <1>4 DEF LogStep, running
<1>5. CASE running /\ (UNCHANGED events \/ \E e \in Event : events' = Append(events, e))
  <2>1. \E out \in {<< >>} \cup {<<e>> : e \in Event} : events' = events \o out
    <3>1. events \in Seq(Event)
      BY DEF TypeOK
    <3>2. CASE UNCHANGED events
      <4>1. events' = events \o << >>
        BY <3>1, <3>2
      <4> QED
        BY <4>1
    <3>3. CASE \E e \in Event : events' = Append(events, e)
      <4>1. PICK e \in Event : events' = Append(events, e)
        BY <3>3
      <4>2. events' = events \o <<e>>
        BY <3>1, <4>1
      <4> QED
        BY <4>2
    <3> QED
      BY <1>5, <3>2, <3>3
  <2>2. Log!Write
    BY <1>3, <1>5, <2>1 DEF Log!Write, reads, tolds, ReadBy, running
  <2> QED
    BY <2>2 DEF LogStep, Log!Next
<1> QED
  BY <1>1, <1>4, <1>5 DEF Visible

\* Reading a log through the numbers 1, 2, ... is reading it.
LEMMA ReadInOrder ==
  ASSUME NEW E, NEW log \in Seq(E), NEW g, Len(g) \in Nat,
         \A i \in 1 .. Len(g) : g[i] = i /\ g[i] \in 1 .. Len(log)
  PROVE  /\ [i \in 1 .. Len(g) |-> log[g[i]]] \in Seq(E)
         /\ Len([i \in 1 .. Len(g) |-> log[g[i]]]) = Len(g)
         /\ \A i \in 1 .. Len(g) : [j \in 1 .. Len(g) |-> log[g[j]]][i] = log[i]
<1> DEFINE n == Len(g)
           s == [i \in 1 .. n |-> log[g[i]]]
<1>1. \A i \in 1 .. n : s[i] = log[i] /\ log[g[i]] \in E
  OBVIOUS
<1>2. s \in [1 .. n -> E]
  BY <1>1
<1> HIDE DEF s, n
<1>3. n \in Nat
  BY DEF n
<1>4. s \in Seq(E) /\ Len(s) = n
  BY <1>2, <1>3
<1> QED
  BY <1>1, <1>4 DEF s, n

LEMMA FollowerRefines ==
  ASSUME IInv, NEW f \in Followers, FollowerAction(f)
  PROVE  LogStep
<1> USE DEF IInv
<1>1. UNCHANGED <<events, state>>
  BY FollowerEffect DEF task
<1>2. PICK a, c, w, u, g : Becomes(f, a, c, w, u, g) /\ Good(f, a, c, w, u, g)
  BY FollowerEffect
<1>3. TypeOK' /\ FollowInv'
  BY FollowerInv
<1>4. /\ at'[f] = a /\ got'[f] = g
      /\ \A q \in Followers : q # f => at'[q] = at[q] /\ got'[q] = got[q]
  BY <1>2 DEF Becomes, TypeOK
<1>5. \A q \in Followers : q # f => ReadBy(q)' = ReadBy(q)
  BY <1>1, <1>4 DEF ReadBy
<1>6. /\ reads' = [reads EXCEPT ![f] = ReadBy(f)']
      /\ tolds' = [tolds EXCEPT ![f] = (a = "complete")]
  BY <1>4, <1>5 DEF reads, tolds
<1>7. /\ events \in Seq(Event) /\ Len(events) \in Nat /\ Len(got[f]) \in 0 .. Len(events)
      /\ reads[f] = ReadBy(f) /\ ReadBy(f) \in Seq(Event) /\ Len(ReadBy(f)) = Len(got[f])
      /\ \A i \in 1 .. Len(got[f]) : ReadBy(f)[i] = events[i]
  <2>1. events \in Seq(Event) /\ Len(events) \in Nat /\ reads[f] = ReadBy(f)
    BY DEF TypeOK, reads
  <2>2. Len(got[f]) \in 0 .. Len(events) /\ \A i \in 1 .. Len(got[f]) : got[f][i] = i
    BY GotBounded, FollowerTypes DEF FollowInv, InOrder
  <2> QED
    BY <2>1, <2>2, ReadType
<1>8. /\ ReadBy(f)' \in Seq(Event) /\ Len(ReadBy(f)') = Len(g)
      /\ \A i \in 1 .. Len(g) : ReadBy(f)'[i] = events[i]
  <2>1. /\ ReadBy(f)' = [i \in 1 .. Len(g) |-> events[g[i]]]
        /\ InOrder(f)'
    BY <1>1, <1>3, <1>4 DEF ReadBy, FollowInv
  <2>2. g \in Seq(1 .. Len(events)) /\ \A i \in 1 .. Len(g) : g[i] = i
    BY <1>2, <1>4, <2>1 DEF Good, InOrder
  <2>3. Len(g) \in Nat /\ \A i \in 1 .. Len(g) : g[i] \in 1 .. Len(events)
    BY <2>2, ElementOfSeq
  <2>4. \A i \in 1 .. Len(g) : g[i] = i /\ g[i] \in 1 .. Len(events)
    BY <2>2, <2>3
  <2> DEFINE s == [i \in 1 .. Len(g) |-> events[g[i]]]
  <2>5. s \in Seq(Event) /\ Len(s) = Len(g) /\ \A i \in 1 .. Len(g) : s[i] = events[i]
    BY <1>7, <2>3, <2>4, ReadInOrder
  <2> HIDE DEF s
  <2>6. ReadBy(f)' = s
    BY <2>1 DEF s
  <2> QED
    BY <2>5, <2>6
<1>9. ReadBy(f)' = ReadBy(f) \/ /\ Len(ReadBy(f)) < Len(events)
                                /\ ReadBy(f)' = Append(ReadBy(f), events[Len(ReadBy(f)) + 1])
  <2>1. CASE g = got[f]
    BY <1>7, <1>8, <2>1
  <2>2. CASE g = Append(got[f], Len(got[f]) + 1) /\ Len(got[f]) < Len(events)
    <3>1. Len(g) = Len(got[f]) + 1
      BY <2>2, FollowerTypes
    <3> DEFINE h == Append(ReadBy(f), events[Len(ReadBy(f)) + 1])
    <3>2. events[Len(got[f]) + 1] \in Event
      BY <1>7, <2>2
    <3>3. /\ h \in Seq(Event) /\ Len(h) = Len(g)
          /\ \A i \in 1 .. Len(g) : h[i] = events[i]
      BY <1>7, <3>1, <3>2
    <3> HIDE DEF h
    <3>4. ReadBy(f)' = h
      BY <1>8, <3>1, <3>3, SeqEqual
    <3> QED
      BY <1>7, <2>2, <3>4 DEF h
  <2> QED
    BY <1>2, <2>1, <2>2 DEF Good
<1>10. a = "complete" => ~running /\ ReadBy(f)' = events
  <2>1. ASSUME a = "complete" PROVE ~running /\ Len(g) = Len(events)
    BY <1>2, <2>1 DEF Good
  <2> QED
    BY <1>7, <1>8, <2>1, SeqEqual
<1>11. UNCHANGED <<events, running>>
  BY <1>1 DEF running
<1>12. CASE at[f] # "complete"
  <2> DEFINE complete == a = "complete"
  <2>1. ~tolds[f] /\ complete \in BOOLEAN /\ reads'[f] = ReadBy(f)'
    BY <1>6, <1>12 DEF tolds, reads
  <2>2. \/ UNCHANGED reads
        \/ /\ Len(reads[f]) < Len(events)
           /\ reads' = [reads EXCEPT ![f] = Append(@, events[Len(@) + 1])]
    BY <1>6, <1>7, <1>9 DEF reads
  <2>3. Log!Receive(f)
    BY <1>6, <1>10, <1>11, <2>1, <2>2 DEF Log!Receive, reads, tolds, ReadBy, running
  <2> QED
    BY <2>3 DEF LogStep, Log!Next
<1>13. CASE at[f] = "complete"
  BY <1>13 DEF FollowerAction, Attach, Open, OpenReaped, Deliver, Wake, KeepAlive, Disconnect
<1> QED
  BY <1>12, <1>13

LEMMA NextRefines == IInv /\ [Next]_vars => LogStep
<1> SUFFICES ASSUME IInv, [Next]_vars PROVE LogStep
  OBVIOUS
<1>1. CASE Reap \/ UNCHANGED vars \/ \E s \in Stoppers : Stop(s) \/ StopReturns(s)
  <2>1. UNCHANGED <<events, state, at, got>>
    BY <1>1 DEF Reap, vars, Stop, StopReturns, task, followers
  <2> QED
    BY <2>1 DEF LogStep, running, reads, tolds, ReadBy
<1> QED
  BY <1>1, TaskRefines, FollowerRefines DEF Next, FollowerAction, FollowerStep

-----------------------------------------------------------------------------
(* The theorems.                                                           *)

\* Every variable stays within its type, whatever the number of followers, of
\* Stop requests and of events (turns.py, _run and follow).
THEOREM TypeCorrect == Spec => []TypeOK
<1>1. IInv => TypeOK
  BY DEF IInv
<1> QED
  BY <1>1, InitIInv, NextIInv, PTL DEF Spec

\* Capturing the wakeup before reading the buffer never loses an event or the
\* settling of the turn (turns.py, follow and emit).
THEOREM WakeupsSuffice == Spec => []NoLostWakeup
<1>1. IInv => NoLostWakeup
  BY DEF IInv, FollowInv, BufferRead, NoLostWakeup
<1> QED
  BY <1>1, InitIInv, NextIInv, PTL DEF Spec

\* A turn never reports both an answer and a failure (turns.py, _run).
THEOREM OneOutcome == Spec => []AnswerOrFailure
<1>1. IInv => AnswerOrFailure
  BY DEF IInv, TaskInv
<1> QED
  BY <1>1, InitIInv, NextIInv, PTL DEF Spec

\* A failed turn has stored nothing (turns.py, _run; routes/chats.py, finish).
THEOREM FailureIsEmpty == Spec => []FailedStoresNothing
<1>1. IInv => FailedStoresNothing
  BY DEF IInv, TaskInv, SettledLast, StoredWhole, FailedStoresNothing, running
<1> QED
  BY <1>1, InitIInv, NextIInv, PTL DEF Spec

\* The answer a client has been shown in full is stored in full (turns.py, _run:
\* finish is awaited before the terminal state is published).
THEOREM ShownIsStored == Spec => []CompleteIsStored
<1>1. ASSUME IInv PROVE CompleteIsStored
  <2>1. SUFFICES ASSUME NEW f \in Followers, at[f] = "complete",
                        state \in {"done", "cancelled"}, ~finishRaised,
                        NEW i \in 1 .. Len(got[f]), events[got[f][i]].part > 0
                 PROVE  stored \in events[got[f][i]].part .. MaxEvents
    BY DEF CompleteIsStored
  <2>2. got[f][i] \in 1 .. Len(events)
    BY <1>1, ReadType DEF IInv
  <2>3. events[got[f][i]] \in Event
    BY <1>1, <2>2 DEF IInv, TypeOK
  <2>4. events[got[f][i]].part \in Nat /\ events[got[f][i]].part <= parts
    BY <1>1, <2>2, <2>3 DEF IInv, TaskInv, PartsBounded, Event
  <2>5. parts \in 0 .. MaxEvents /\ MaxEvents \in Nat
    BY <1>1, MaxEventsAssumption DEF IInv, TypeOK
  <2>6. stored = parts
    BY <1>1, <2>1, <2>4, <2>5 DEF IInv, TaskInv, StoredWhole
  <2> QED
    BY <2>4, <2>5, <2>6
<1> QED
  BY <1>1, InitIInv, NextIInv, PTL DEF Spec

\* The row on disk is the one the client was told of (turns.py, _run).
THEOREM ReportedIsStored == Spec => []StoredAsReported
BY FailureIsEmpty, ShownIsStored, PTL DEF StoredAsReported

\* A turn ends in one way, and what is stored agrees with it (turns.py, _run).
THEOREM EndIsTrue == Spec => []OutcomeIsTrue
BY OneOutcome, ReportedIsStored, PTL DEF OutcomeIsTrue

\* However often clients leave and come back, each receives every event once
\* and in order, and its stream completes only at the end of a settled turn.
THEOREM Implements == Spec => ReplaysLog
<1>1. LogStep => [Log!Next]_<<events, running, reads, tolds>>
  BY DEF LogStep
<1>2. IInv /\ [Next]_vars
        => [Log!Next]_<<events, running,
                        [f \in Followers |-> [i \in 1 .. Len(got[f]) |-> events[got[f][i]]]],
                        [f \in Followers |-> at[f] = "complete"]>>
  BY <1>1, NextRefines DEF reads, tolds, ReadBy
<1> QED
  BY <1>2, InitRefines, InitIInv, NextIInv, PTL DEF Spec, ReplaysLog, Log!Spec

-----------------------------------------------------------------------------
(***************************************************************************)
(* The queue of a conversation (TurnQueue).                                *)
(***************************************************************************)

\* A cancelled task that is not over is awaited by the Stop request that
\* cancelled it: that request will hold the queue the task does not drain.
Interrupted(i) == turns[i].cancel \/ turns[i].pc = "stopped"
Awaited(i) ==
  /\ turns[i].pc \in {"new", "run", "finish", "stopped"}
  /\ \E s \in StopRequests : stopping[s].pc = "wait" /\ stopping[s].turn = i
CancelAwaited == \A i \in 1 .. Len(turns) : Interrupted(i) => Awaited(i)

QueueInv == QueueTypeOK /\ OneTurn /\ CancelAwaited /\ QueuedIsDriven

PCs == {"new", "run", "finish", "stopped", "dead", "next", "delete", "launch", "count",
        "insert", "hold", "end", "failed"}

-----------------------------------------------------------------------------
(* The operations on the table keep its ids unique and below nextId.       *)

LEMMA InsertTable ==
  ASSUME TableOK, queue_insert
  PROVE  TableOK'
<1>1. NewRow(nextId) \in Row /\ NewRow(nextId).id = nextId
  BY DEF NewRow, Row, TableOK, is_running
<1> QED
  BY <1>1 DEF queue_insert, TableOK, Row

LEMMA SameTable ==
  ASSUME TableOK, UNCHANGED <<rows, nextId>>
  PROVE  TableOK'
  BY DEF TableOK

LEMMA DeleteTable ==
  ASSUME TableOK, NEW id, queue_delete(id), UNCHANGED nextId
  PROVE  TableOK'
  BY DEF queue_delete, TableOK

\* Changing states changes no id.
LEMMA HoldTable ==
  ASSUME TableOK, queue_hold_all, UNCHANGED nextId
  PROVE  TableOK' /\ \A row \in rows' : row.state = "held"
<1> DEFINE f(row) == [row EXCEPT !.state = "held"]
<1>1. \A row \in rows : f(row) \in Row /\ f(row).id = row.id /\ f(row).state = "held"
  BY DEF TableOK, Row
<1>2. rows' = {f(row) : row \in rows}
  BY DEF queue_hold_all
<1> HIDE DEF f
<1>3. TableOK'
  BY <1>1, <1>2 DEF TableOK
<1> QED
  BY <1>1, <1>2, <1>3

LEMMA ReleaseTable ==
  ASSUME TableOK, NEW id, queue_release(id), UNCHANGED nextId
  PROVE  TableOK'
<1> DEFINE f(row) == IF row.id = id THEN [row EXCEPT !.state = "pending"] ELSE row
<1>1. \A row \in rows : f(row) \in Row /\ f(row).id = row.id
  BY DEF TableOK, Row
<1>2. rows' = {f(row) : row \in rows}
  BY DEF queue_release
<1> HIDE DEF f
<1> QED
  BY <1>1, <1>2 DEF TableOK

-----------------------------------------------------------------------------
(* The turns.                                                              *)

LEMMA TurnType == turns \in Seq(Turn) =>
  \A i \in 1 .. Len(turns) : turns[i] \in Turn /\ turns[i].hand \in Nat
<1> SUFFICES ASSUME turns \in Seq(Turn), NEW i \in 1 .. Len(turns)
             PROVE  turns[i] \in Turn /\ turns[i].hand \in Nat
  OBVIOUS
<1>1. turns[i] \in Turn
  OBVIOUS
<1> QED
  BY <1>1 DEF Turn

LEMMA AtPlace ==
  ASSUME NEW place, NEW hand
  PROVE  At(place, hand).pc = place /\ ~At(place, hand).cancel
  BY DEF At

LEMMA MovedTurn ==
  ASSUME turns \in Seq(Turn), NEW i \in 1 .. Len(turns), NEW place \in PCs, NEW hand \in Nat
  PROVE  /\ Moved(i, place, hand) \in Seq(Turn)
         /\ Len(Moved(i, place, hand)) = Len(turns)
         /\ Moved(i, place, hand)[i] = At(place, hand)
         /\ \A j \in 1 .. Len(turns) : j # i => Moved(i, place, hand)[j] = turns[j]
  BY DEF Moved, At, Turn, PCs, Unsettled

LEMMA MoveTurn ==
  ASSUME turns \in Seq(Turn), NEW i \in 1 .. Len(turns), NEW place \in PCs, NEW hand \in Nat,
         Move(i, place, hand)
  PROVE  /\ turns' \in Seq(Turn) /\ Len(turns') = Len(turns)
         /\ turns'[i].pc = place /\ ~turns'[i].cancel
         /\ \A j \in 1 .. Len(turns) : j # i => turns'[j] = turns[j]
<1>1. /\ turns' \in Seq(Turn) /\ Len(turns') = Len(turns)
      /\ turns'[i] = At(place, hand)
      /\ \A j \in 1 .. Len(turns) : j # i => turns'[j] = turns[j]
  BY MovedTurn DEF Move
<1> QED
  BY <1>1, AtPlace

\* What StopAsked does to the turns.
LEMMA FlaggedTurn ==
  ASSUME turns \in Seq(Turn), NEW i \in 1 .. Len(turns), NEW flag \in BOOLEAN,
         turns' = [turns EXCEPT ![i].cancel = flag]
  PROVE  /\ turns' \in Seq(Turn) /\ Len(turns') = Len(turns)
         /\ turns'[i].pc = turns[i].pc /\ turns'[i].cancel = flag
         /\ \A j \in 1 .. Len(turns) : j # i => turns'[j] = turns[j]
<1> DEFINE t == [turns[i] EXCEPT !.cancel = flag]
<1>1. turns[i] \in Turn
  OBVIOUS
<1>2. t \in Turn /\ t.pc = turns[i].pc /\ t.cancel = flag
  BY <1>1 DEF Turn
<1>3. turns' = [turns EXCEPT ![i] = t]
  OBVIOUS
<1> HIDE DEF t
<1> QED
  BY <1>2, <1>3

LEMMA StartedTurn ==
  ASSUME NEW ts \in Seq(Turn), start(ts)
  PROVE  /\ turns' \in Seq(Turn) /\ Len(turns') = Len(ts) + 1
         /\ turns'[Len(ts) + 1] = At("new", 0)
         /\ \A j \in 1 .. Len(ts) : turns'[j] = ts[j]
         /\ is_running'
  BY DEF start, Turn, At, is_running, Unsettled

LEMMA RowTaken ==
  ASSUME QueueTypeOK, NEW row \in queue_next
  PROVE  row \in rows /\ row.id \in Nat
  BY DEF queue_next, pending, QueueTypeOK, TableOK, Row

LEMMA InitQueueInv == QueueInit => QueueInv
  BY QueueAssumption DEF QueueInit, QueueInv, QueueTypeOK, TableOK, OneTurn, CancelAwaited,
     QueuedIsDriven, Release, StopRequest

\* What a step of a turn that is not settled does, and to which turn.
LEMMA RunMoves ==
  ASSUME NEW i \in 1 .. Len(turns), RunStep(i)
  PROVE  /\ UNCHANGED <<rows, nextId, post, stopping, rel, restarts>>
         /\ \/ /\ turns[i].pc \in {"new", "run", "finish", "stopped"}
               /\ \E place \in {"run", "finish", "dead", "hold", "next"} : Move(i, place, 0)
            \/ /\ turns[i].pc = "run" /\ turns[i].cancel
               /\ \E place \in {"stopped", "end"} : Move(i, place, 0)
            \/ turns[i].pc = "stopped" /\ Move(i, "end", 0)
<1>1. CASE TurnEnters(i) \/ DiesUnentered(i)
  BY <1>1 DEF TurnEnters, DiesUnentered, Resumes, Raises, TurnMoves
<1>2. CASE LoopOver(i)
  BY <1>2 DEF LoopOver, Resumes, TurnMoves
<1>3. CASE LoopStopped(i)
  BY <1>3 DEF LoopStopped, Raises, TurnMoves
<1>4. CASE FinishEnds(i)
  BY <1>4 DEF FinishEnds, Resumes, TurnMoves
<1>5. CASE FinishCancelled(i)
  BY <1>5 DEF FinishCancelled, Raises, TurnMoves
<1> QED
  BY <1>1, <1>2, <1>3, <1>4, <1>5 DEF RunStep

\* Type correctness, one lemma for each kind of step.
LEMMA TurnStepType ==
  ASSUME QueueTypeOK, NEW i \in 1 .. Len(turns), RunStep(i) \/ DrainStep(i)
  PROVE  QueueTypeOK'
<1> USE DEF QueueTypeOK
<1>1. turns[i].hand \in Nat
  BY TurnType
<1>2. ASSUME start(Moved(i, "end", 0))
      PROVE  turns' \in Seq(Turn) /\ Len(turns') <= MaxTurns
  <2>1. Moved(i, "end", 0) \in Seq(Turn) /\ Len(Moved(i, "end", 0)) = Len(turns)
    BY MovedTurn DEF PCs
  <2>2. turns' \in Seq(Turn) /\ Len(turns') = Len(turns) + 1
    BY <1>2, <2>1, StartedTurn
  <2>3. Len(turns') <= MaxTurns
    BY <1>2, <2>2, QueueAssumption DEF start, CanStart
  <2> QED
    BY <2>2, <2>3
<1>3. ASSUME NEW place \in PCs, NEW hand \in Nat, Move(i, place, hand)
      PROVE  turns' \in Seq(Turn) /\ Len(turns') <= MaxTurns
  BY <1>3, MoveTurn
<1>4. turns' \in Seq(Turn) /\ Len(turns') <= MaxTurns
  <2>1. CASE RunStep(i)
    <3>1. \E place \in PCs : Move(i, place, 0)
      BY <2>1, RunMoves DEF PCs
    <3> QED
      BY <3>1, <1>3
  <2>2. CASE DrainNext(i)
    BY <2>2, <1>3, RowTaken DEF DrainNext, PCs
  <2>3. CASE DrainHold(i) \/ LaunchFails(i) \/ PutBackInsert(i)
    BY <2>3, <1>3 DEF DrainHold, LaunchFails, PutBackInsert, PCs
  <2>4. CASE DrainDelete(i) \/ PutBackCount(i)
    BY <2>4, <1>1, <1>3 DEF DrainDelete, PutBackCount, PCs
  <2>5. CASE DrainLaunch(i)
    BY <2>5, <1>1, <1>2, <1>3 DEF DrainLaunch, PCs
  <2> QED
    BY <2>1, <2>2, <2>3, <2>4, <2>5 DEF DrainStep
<1>5. TableOK'
  <2>1. CASE \/ RunStep(i) \/ DrainNext(i) \/ DrainLaunch(i) \/ LaunchFails(i)
             \/ PutBackCount(i)
    BY <2>1, RunMoves, SameTable DEF DrainNext, DrainLaunch, LaunchFails, PutBackCount
  <2>2. CASE DrainHold(i) \/ DrainDelete(i) \/ PutBackInsert(i)
    BY <2>2, HoldTable, DeleteTable, InsertTable DEF DrainHold, DrainDelete, PutBackInsert
  <2> QED
    BY <2>1, <2>2 DEF DrainStep
<1>6. UNCHANGED <<post, stopping, rel, restarts>>
  BY RunMoves DEF DrainStep, DrainHold, DrainNext, DrainDelete, DrainLaunch,
     LaunchFails, PutBackCount, PutBackInsert
<1> QED
  BY <1>4, <1>5, <1>6

LEMMA StartType ==
  ASSUME QueueTypeOK, start(turns)
  PROVE  turns' \in Seq(Turn) /\ Len(turns') <= MaxTurns
<1>1. turns \in Seq(Turn)
  BY DEF QueueTypeOK
<1>2. turns' \in Seq(Turn) /\ Len(turns') = Len(turns) + 1
  BY <1>1, StartedTurn
<1> QED
  BY <1>1, <1>2, QueueAssumption DEF start, CanStart

LEMMA RequestType ==
  ASSUME QueueTypeOK,
         \/ \E s \in Senders : Post(s) \/ PostStep(s)
         \/ \E s \in StopRequests : StopAsked(s) \/ StopHold(s)
         \/ \E row \in rows : Discard(row)
         \/ Restart
  PROVE  QueueTypeOK'
<1> USE DEF QueueTypeOK
<1>1. ASSUME NEW s \in Senders, Post(s) PROVE QueueTypeOK'
  <2>1. turns' \in Seq(Turn) /\ Len(turns') <= MaxTurns
    BY <1>1, StartType DEF Post
  <2>2. post' \in [Senders -> {"idle", "count", "insert"}] /\ TableOK'
    BY <1>1, SameTable DEF Post
  <2> QED
    BY <1>1, <2>1, <2>2 DEF Post
<1>2. ASSUME NEW s \in Senders, PostStep(s) PROVE QueueTypeOK'
  <2>1. TableOK'
    BY <1>2, InsertTable, SameTable DEF PostStep, PostCount, PostInsert
  <2> QED
    BY <1>2, <2>1 DEF PostStep, PostCount, PostInsert
<1>3. ASSUME NEW s \in StopRequests, StopAsked(s) PROVE QueueTypeOK'
  <2>1. stopping' \in [StopRequests -> StopRequest]
    BY <1>3 DEF StopAsked, Stops, StopRequest
  <2>2. CASE is_running
    <3>1. Len(turns) \in 1 .. Len(turns)
      BY <2>2 DEF is_running
    <3>2. PICK flag \in BOOLEAN : turns' = [turns EXCEPT ![Len(turns)].cancel = flag]
      BY <1>3, <2>2 DEF StopAsked
    <3>3. turns' \in Seq(Turn) /\ Len(turns') = Len(turns)
      BY <3>1, <3>2, FlaggedTurn
    <3> QED
      BY <1>3, <2>1, <3>3, SameTable DEF StopAsked
  <2>3. CASE ~is_running
    BY <1>3, <2>1, <2>3, SameTable DEF StopAsked
  <2> QED
    BY <2>2, <2>3
<1>4. ASSUME NEW s \in StopRequests, StopHold(s) PROVE QueueTypeOK'
  <2>1. stopping' \in [StopRequests -> StopRequest]
    BY <1>4 DEF StopHold, Stops, StopRequest
  <2> QED
    BY <1>4, <2>1, HoldTable DEF StopHold
<1>5. ASSUME NEW row \in rows, Discard(row) PROVE QueueTypeOK'
  BY <1>5, DeleteTable DEF Discard
<1>6. CASE Restart
  <2>1. turns' \in Seq(Turn) /\ Len(turns') = Len(turns)
    BY <1>6 DEF Restart, Turn, At
  <2>2. restarts' \in 0 .. MaxRestarts
    BY <1>6, QueueAssumption DEF Restart
  <2> QED
    BY <1>6, <2>1, <2>2, HoldTable DEF Restart, Release, StopRequest
<1> QED
  BY <1>1, <1>2, <1>3, <1>4, <1>5, <1>6

LEMMA ReleaseType ==
  ASSUME QueueTypeOK, NEW r \in Releasers,
         ReleaseStep(r) \/ \E row \in rows : Ask(r, row)
  PROVE  QueueTypeOK'
<1> USE DEF QueueTypeOK
<1>1. \E place \in {"idle", "release", "check", "next", "delete", "launch"}, id \in Nat :
        Request(r, place, id)
  BY RowTaken DEF ReleaseStep, Ask, ReleaseRow, ReleaseCheck, ReleaseNext,
     ReleaseDelete, ReleaseLaunch, Release, TableOK, Row
<1>2. rel' \in [Releasers -> Release]
  BY <1>1 DEF Request, Release
<1>3. TableOK'
  BY SameTable, ReleaseTable, DeleteTable DEF ReleaseStep, Ask, ReleaseRow, ReleaseCheck,
     ReleaseNext, ReleaseDelete, ReleaseLaunch
<1>4. turns' \in Seq(Turn) /\ Len(turns') <= MaxTurns
  BY StartType DEF ReleaseStep, Ask, ReleaseRow, ReleaseCheck, ReleaseNext,
     ReleaseDelete, ReleaseLaunch
<1>5. UNCHANGED <<post, stopping, restarts>>
  BY DEF ReleaseStep, Ask, ReleaseRow, ReleaseCheck, ReleaseNext, ReleaseDelete,
     ReleaseLaunch
<1> QED
  BY <1>2, <1>3, <1>4, <1>5

LEMMA TypeStep == QueueTypeOK /\ [QueueNext]_queueVars => QueueTypeOK'
<1>1. QueueTypeOK /\ UNCHANGED queueVars => QueueTypeOK'
  BY DEF QueueTypeOK, TableOK, queueVars
<1> QED
  BY <1>1, TurnStepType, RequestType, ReleaseType DEF QueueNext, TurnStep

-----------------------------------------------------------------------------
(* One turn at a time.                                                     *)

NoneRuns == \A i \in 1 .. Len(turns) : turns[i].pc \notin Unsettled

LEMMA NotRunning ==
  ASSUME turns \in Seq(Turn), OneTurn, ~is_running
  PROVE  NoneRuns
<1> SUFFICES ASSUME NEW i \in 1 .. Len(turns), turns[i].pc \in Unsettled PROVE FALSE
  BY DEF NoneRuns
<1>1. i = Len(turns) /\ turns # << >>
  BY DEF OneTurn
<1> QED
  BY <1>1 DEF is_running

\* A step of turn i, which is unsettled afterwards only if it was before.
Steps(i) ==
  \E place \in PCs, hand \in Nat :
    Move(i, place, hand) /\ (place \in Unsettled => turns[i].pc \in Unsettled)

\* A step that leaves every turn where it is.
KeepsPlaces ==
  /\ Len(turns') = Len(turns)
  /\ \A j \in 1 .. Len(turns) : turns'[j].pc = turns[j].pc

LEMMA RunSteps ==
  ASSUME NEW i \in 1 .. Len(turns), RunStep(i)
  PROVE  Steps(i)
  BY RunMoves DEF Steps, PCs, Unsettled

LEMMA DrainSteps ==
  ASSUME turns \in Seq(Turn), QueueTypeOK, NEW i \in 1 .. Len(turns), DrainStep(i)
  PROVE  Steps(i) \/ (~is_running /\ start(Moved(i, "end", 0)))
<1>1. turns[i].hand \in Nat
  BY TurnType
<1> QED
  BY <1>1, RowTaken DEF Steps, DrainStep, DrainHold, DrainNext, DrainDelete, DrainLaunch,
     LaunchFails, PutBackCount, PutBackInsert, PCs, Unsettled

LEMMA StopKeepsPlaces ==
  ASSUME turns \in Seq(Turn), NEW s \in StopRequests, StopAsked(s)
  PROVE  turns' = turns \/ KeepsPlaces
<1>1. CASE is_running
  <2>1. Len(turns) \in 1 .. Len(turns)
    BY <1>1 DEF is_running
  <2>2. PICK flag \in BOOLEAN : turns' = [turns EXCEPT ![Len(turns)].cancel = flag]
    BY <1>1 DEF StopAsked
  <2> QED
    BY <2>1, <2>2, FlaggedTurn DEF KeepsPlaces
<1>2. CASE ~is_running
  BY <1>2 DEF StopAsked
<1> QED
  BY <1>1, <1>2

\* What a step may do to the turns.
LEMMA TurnsStep ==
  ASSUME QueueTypeOK, [QueueNext]_queueVars
  PROVE  \/ UNCHANGED turns
         \/ KeepsPlaces
         \/ ~is_running /\ start(turns)
         \/ ~is_running /\ \E i \in 1 .. Len(turns) : start(Moved(i, "end", 0))
         \/ \E i \in 1 .. Len(turns) : Steps(i)
         \/ Restart
<1> USE DEF QueueTypeOK
<1>2. ASSUME NEW s \in Senders, Post(s) \/ PostStep(s)
      PROVE  UNCHANGED turns \/ (~is_running /\ start(turns))
  BY <1>2 DEF Post, PostStep, PostCount, PostInsert
<1>3. ASSUME NEW r \in Releasers, ReleaseStep(r) \/ \E row \in rows : Ask(r, row)
      PROVE  UNCHANGED turns \/ (~is_running /\ start(turns))
  BY <1>3 DEF ReleaseStep, Ask, ReleaseRow, ReleaseCheck, ReleaseNext, ReleaseDelete,
     ReleaseLaunch
<1>4. ASSUME NEW s \in StopRequests, StopAsked(s) \/ StopHold(s)
      PROVE  UNCHANGED turns \/ KeepsPlaces
  BY <1>4, StopKeepsPlaces DEF StopHold
<1>5. ASSUME (\E row \in rows : Discard(row)) \/ UNCHANGED queueVars
      PROVE  UNCHANGED turns
  BY <1>5 DEF Discard, queueVars
<1> QED
  BY <1>2, <1>3, <1>4, <1>5, RunSteps, DrainSteps DEF QueueNext, TurnStep

LEMMA OneTurnStep ==
  ASSUME QueueTypeOK, OneTurn, [QueueNext]_queueVars
  PROVE  OneTurn'
<1>1. turns \in Seq(Turn)
  BY DEF QueueTypeOK
<1>2. CASE UNCHANGED turns
  BY <1>2 DEF OneTurn
<1>3. CASE ~is_running /\ start(turns)
  BY <1>1, <1>3, NotRunning, StartedTurn DEF OneTurn, NoneRuns
<1>4. ASSUME ~is_running, NEW i \in 1 .. Len(turns), start(Moved(i, "end", 0))
      PROVE  OneTurn'
  <2> DEFINE ts == Moved(i, "end", 0)
  <2>1. /\ ts \in Seq(Turn) /\ Len(ts) = Len(turns)
        /\ \A j \in 1 .. Len(ts) : ts[j].pc \notin Unsettled
    <3>1. /\ ts \in Seq(Turn) /\ Len(ts) = Len(turns)
          /\ ts[i] = At("end", 0)
          /\ \A j \in 1 .. Len(turns) : j # i => ts[j] = turns[j]
      <4>1. "end" \in PCs /\ 0 \in Nat
        BY DEF PCs
      <4> QED
        BY <1>1, <1>4, <4>1, MovedTurn
    <3>2. NoneRuns
      BY <1>1, <1>4, NotRunning
    <3> HIDE DEF ts
    <3> QED
      BY <3>1, <3>2 DEF NoneRuns, At, Unsettled
  <2> HIDE DEF ts
  <2>2. start(ts)
    BY <1>4 DEF ts
  <2> QED
    BY <2>1, <2>2, StartedTurn DEF OneTurn
<1>5. ASSUME NEW i \in 1 .. Len(turns), Steps(i)
      PROVE  OneTurn'
  <2>1. PICK place \in PCs, hand \in Nat :
          Move(i, place, hand) /\ (place \in Unsettled => turns[i].pc \in Unsettled)
    BY <1>5 DEF Steps
  <2>2. /\ Len(turns') = Len(turns) /\ turns'[i].pc = place
        /\ \A j \in 1 .. Len(turns) : j # i => turns'[j] = turns[j]
    BY <1>1, <2>1, MoveTurn
  <2> QED
    BY <2>1, <2>2 DEF OneTurn
<1>6. CASE Restart
  BY <1>1, <1>6 DEF Restart, OneTurn, At, Unsettled
<1>7. CASE KeepsPlaces
  BY <1>7 DEF KeepsPlaces, OneTurn
<1> QED
  BY <1>2, <1>3, <1>4, <1>5, <1>6, <1>7, TurnsStep

-----------------------------------------------------------------------------
(* A prompt queued behind a running turn is never left without a driver.   *)

Watched == Driven \/ LaunchFailed \/ Died

LEMMA NoneWaits ==
  ASSUME \A row \in rows' : row.state = "held"
  PROVE  QueuedIsDriven'
  BY DEF QueuedIsDriven

\* A step that adds no waiting row and leaves a driver.
LEMMA StaysDriven ==
  ASSUME QueuedIsDriven, Watched => Watched',
         \A row \in rows' : row.state = "pending" /\ ~row.overtaken => row \in rows \/ Watched'
  PROVE  QueuedIsDriven'
  BY DEF QueuedIsDriven, Watched

LEMMA InsertDrives ==
  ASSUME QueueTypeOK, QueuedIsDriven, queue_insert, Watched => Watched', is_running => is_running'
  PROVE  QueuedIsDriven'
<1>1. \A row \in rows' : row \in rows \/ row = NewRow(nextId)
  BY DEF queue_insert
<1>2. ~NewRow(nextId).overtaken => Watched'
  BY DEF NewRow, Watched, Driven, LaunchFailed
<1> QED
  BY <1>1, <1>2, StaysDriven

LEMMA DrainDrives ==
  ASSUME QueueTypeOK, QueuedIsDriven, NEW i \in 1 .. Len(turns), DrainStep(i)
  PROVE  QueuedIsDriven'
<1>1. turns \in Seq(Turn) /\ turns[i].hand \in Nat
  BY TurnType DEF QueueTypeOK
<1>2. ASSUME NEW place \in {"hold", "next", "delete", "launch"}, NEW hand \in Nat, Move(i, place, hand)
      PROVE  QueuedIsDriven'
  <2>1. turns'[i].pc = place /\ Len(turns') = Len(turns)
    BY <1>1, <1>2, MoveTurn DEF PCs
  <2>2. turns'[i].pc \in {"hold", "next", "delete", "launch"}
    BY <1>2, <2>1
  <2>3. Watched'
    BY <2>1, <2>2 DEF Watched, Driven, LaunchFailed
  <2> QED
    BY <2>3 DEF QueuedIsDriven, Watched
\* A turn that does not run is not the one that does.
<1>3. ASSUME NEW place \in PCs, NEW hand \in Nat, Move(i, place, hand), turns[i].pc \notin Unsettled
      PROVE  is_running => is_running'
  <2>1. /\ Len(turns') = Len(turns)
        /\ \A j \in 1 .. Len(turns) : j # i => turns'[j] = turns[j]
    BY <1>1, <1>3, MoveTurn
  <2>2. is_running => Len(turns) # i /\ Len(turns) \in 1 .. Len(turns) /\ turns' # << >>
    BY <1>1, <1>3, <2>1 DEF is_running
  <2> QED
    BY <2>1, <2>2 DEF is_running
<1>4. ASSUME NEW place \in PCs, NEW hand \in Nat, Move(i, place, hand),
             turns[i].pc \in {"count", "insert"}, UNCHANGED <<stopping, rel>>
      PROVE  (Watched => Watched') /\ (is_running => is_running')
  <2>1. /\ Len(turns') = Len(turns)
        /\ \A j \in 1 .. Len(turns) : j # i => turns'[j] = turns[j]
    BY <1>1, <1>4, MoveTurn
  <2>2. is_running => is_running'
    BY <1>3, <1>4 DEF Unsettled
  <2>3. is_running => Watched'
    BY <2>2 DEF Watched, Driven
  <2>4. ~is_running /\ Watched => Watched'
    BY <1>4, <2>1 DEF Watched, Driven, LaunchFailed, Died, is_running, Unsettled
  <2> QED
    BY <2>2, <2>3, <2>4
<1>5. CASE DrainDelete(i)
  BY <1>1, <1>2, <1>5 DEF DrainDelete
<1>6. CASE DrainHold(i)
  BY <1>6, HoldTable, NoneWaits DEF DrainHold, QueueTypeOK
<1>7. CASE DrainNext(i)
  <2>1. CASE pending = {} /\ Move(i, "end", 0)
    BY <1>7, <2>1 DEF DrainNext, pending, QueuedIsDriven
  <2>2. CASE \E row \in queue_next : Move(i, "delete", row.id)
    BY <1>2, <2>2, RowTaken
  <2> QED
    BY <1>7, <2>1, <2>2 DEF DrainNext
<1>8. CASE DrainLaunch(i)
  <2>1. CASE start(Moved(i, "end", 0))
    <3>1. Moved(i, "end", 0) \in Seq(Turn)
      BY <1>1, MovedTurn DEF PCs
    <3>2. is_running'
      BY <2>1, <3>1, StartedTurn
    <3> QED
      BY <3>2 DEF QueuedIsDriven, Watched, Driven, LaunchFailed, Died
  <2>2. CASE is_running /\ Move(i, "count", turns[i].hand)
    <3>1. is_running'
      BY <1>1, <1>3, <1>8, <2>2 DEF DrainLaunch, PCs, Unsettled
    <3> QED
      BY <3>1 DEF QueuedIsDriven, Watched, Driven, LaunchFailed, Died
  <2> QED
    BY <1>8, <2>1, <2>2 DEF DrainLaunch
<1>9. CASE PutBackCount(i)
  <2>1. PICK place \in PCs, hand \in Nat : Move(i, place, hand)
    BY <1>1, <1>9 DEF PutBackCount, PCs
  <2>2. Watched => Watched'
    BY <1>4, <1>9, <2>1 DEF PutBackCount
  <2> QED
    BY <1>9, <2>2, StaysDriven DEF PutBackCount
<1>10. CASE PutBackInsert(i)
  <2>1. (Watched => Watched') /\ (is_running => is_running')
    BY <1>4, <1>10 DEF PutBackInsert, PCs
  <2> QED
    BY <1>10, <2>1, InsertDrives DEF PutBackInsert
<1>11. CASE LaunchFails(i)
  <2>1. Move(i, "failed", 0)
    BY <1>11 DEF LaunchFails
  <2>2. turns'[i].pc = "failed" /\ Len(turns') = Len(turns)
    BY <1>1, <2>1, MoveTurn DEF PCs
  <2> QED
    BY <2>2 DEF QueuedIsDriven, LaunchFailed
<1> QED
  BY <1>5, <1>6, <1>7, <1>8, <1>9, <1>10, <1>11 DEF DrainStep

\* A turn that is not settled runs on, drains, or leaves the queue to the Stop
\* that awaits it.
LEMMA RunDrives ==
  ASSUME QueueInv, NEW i \in 1 .. Len(turns), RunStep(i)
  PROVE  QueuedIsDriven'
<1>1. turns \in Seq(Turn) /\ UNCHANGED <<rows, stopping>>
  BY RunMoves DEF QueueInv, QueueTypeOK
<1>2. ASSUME NEW place \in {"run", "finish", "dead"}, Move(i, place, 0),
             turns[i].pc \in {"new", "run", "finish", "stopped"}
      PROVE  Watched'
  <2>1. i = Len(turns)
    BY <1>2 DEF QueueInv, OneTurn, Unsettled
  <2>2. turns'[i].pc = place /\ Len(turns') = Len(turns)
    BY <1>1, <1>2, MoveTurn DEF PCs
  <2>3. is_running'
    BY <2>1, <2>2 DEF is_running, Unsettled
  <2> QED
    BY <2>3 DEF Watched, Driven
<1>3. ASSUME NEW place \in {"hold", "next"}, Move(i, place, 0)
      PROVE  Watched'
  <2>1. turns'[i].pc = place /\ Len(turns') = Len(turns)
    BY <1>1, <1>3, MoveTurn DEF PCs
  <2> QED
    BY <2>1 DEF Watched, Driven
<1>4. ASSUME turns[i].cancel \/ turns[i].pc = "stopped"
      PROVE  Watched'
  <2>1. PICK s \in StopRequests : stopping[s].pc = "wait"
    BY <1>4 DEF QueueInv, CancelAwaited, Interrupted, Awaited
  <2> QED
    BY <1>1, <2>1 DEF Watched, Driven
<1>5. Watched'
  BY <1>2, <1>3, <1>4, RunMoves
<1> QED
  BY <1>5 DEF QueuedIsDriven, Watched

LEMMA StartDrives ==
  ASSUME QueueTypeOK, start(turns)
  PROVE  QueuedIsDriven'
<1>1. is_running'
  BY StartedTurn DEF QueueTypeOK
<1> QED
  BY <1>1 DEF QueuedIsDriven, Watched, Driven, LaunchFailed, Died

LEMMA RequestDrives ==
  ASSUME QueueTypeOK, QueuedIsDriven,
         \/ \E s \in Senders : Post(s) \/ PostStep(s)
         \/ \E s \in StopRequests : StopAsked(s) \/ StopHold(s)
         \/ \E row \in rows : Discard(row)
         \/ Restart
  PROVE  QueuedIsDriven'
<1>1. UNCHANGED <<turns, stopping, rel>> => (Watched => Watched') /\ (is_running => is_running')
  BY DEF Watched, Driven, LaunchFailed, Died, is_running
<1>2. ASSUME NEW s \in Senders, Post(s) PROVE QueuedIsDriven'
  <2>1. CASE start(turns)
    BY <2>1, StartDrives
  <2>2. CASE UNCHANGED turns
    BY <1>1, <1>2, <2>2, StaysDriven DEF Post
  <2> QED
    BY <1>2, <2>1, <2>2 DEF Post
<1>3. ASSUME NEW s \in Senders, PostStep(s) PROVE QueuedIsDriven'
  BY <1>1, <1>3, StaysDriven, InsertDrives DEF PostStep, PostCount, PostInsert
<1>4. ASSUME NEW s \in StopRequests, StopAsked(s) PROVE QueuedIsDriven'
  <2>1. stopping'[s].pc = "wait"
    BY <1>4 DEF StopAsked, Stops, QueueTypeOK
  <2> QED
    BY <2>1 DEF QueuedIsDriven, Driven
<1>5. CASE (\E s \in StopRequests : StopHold(s)) \/ Restart
  BY <1>5, HoldTable, NoneWaits DEF StopHold, Restart, QueueTypeOK
<1>6. ASSUME NEW row \in rows, Discard(row) PROVE QueuedIsDriven'
  BY <1>1, <1>6, StaysDriven DEF Discard, queue_delete
<1> QED
  BY <1>2, <1>3, <1>4, <1>5, <1>6

LEMMA ReleaseDrives ==
  ASSUME QueueTypeOK, QueuedIsDriven, NEW r \in Releasers,
         ReleaseStep(r) \/ \E row \in rows : Ask(r, row)
  PROVE  QueuedIsDriven'
<1>1. ASSUME NEW place \in {"check", "next", "delete", "launch"}, NEW id, Request(r, place, id)
      PROVE  QueuedIsDriven'
  <2>1. rel'[r].pc \in {"check", "next", "delete", "launch"}
    BY <1>1 DEF Request, QueueTypeOK
  <2> QED
    BY <2>1 DEF QueuedIsDriven, Watched, Driven, LaunchFailed, Died
<1>2. ASSUME NEW place, NEW id, Request(r, place, id), rel[r].pc \in {"idle", "release"},
             UNCHANGED <<turns, stopping>>
      PROVE  Watched => Watched'
  <2>1. \A q \in Releasers : q # r => rel'[q] = rel[q]
    BY <1>2 DEF Request, QueueTypeOK
  <2> QED
    BY <1>2, <2>1 DEF Watched, Driven, LaunchFailed, Died, is_running
<1>3. ASSUME NEW row \in rows, Ask(r, row) PROVE QueuedIsDriven'
  BY <1>2, <1>3, StaysDriven DEF Ask
<1>4. CASE ReleaseRow(r)
  <2>1. CASE \E row \in rows : row.id = rel[r].id
    BY <1>1, <1>4, <2>1 DEF ReleaseRow
  <2>2. CASE ~\E row \in rows : row.id = rel[r].id
    <3>1. rows' = rows
      BY <1>4, <2>2 DEF ReleaseRow, queue_release
    <3>2. Watched => Watched'
      BY <1>2, <1>4, <2>2 DEF ReleaseRow
    <3> QED
      BY <3>1, <3>2, StaysDriven
  <2> QED
    BY <2>1, <2>2
<1>5. CASE ReleaseCheck(r)
  <2>1. CASE is_running
    BY <1>5, <2>1 DEF ReleaseCheck, QueuedIsDriven, Watched, Driven, LaunchFailed, Died, is_running
  <2>2. CASE ~is_running
    BY <1>1, <1>5, <2>2 DEF ReleaseCheck
  <2> QED
    BY <2>1, <2>2
<1>6. CASE ReleaseNext(r)
  <2>1. CASE pending = {}
    BY <1>6, <2>1 DEF ReleaseNext, pending, QueuedIsDriven
  <2>2. CASE \E row \in queue_next : Request(r, "delete", row.id)
    BY <1>1, <2>2
  <2> QED
    BY <1>6, <2>1, <2>2 DEF ReleaseNext
<1>7. CASE ReleaseDelete(r)
  BY <1>1, <1>7 DEF ReleaseDelete
<1>8. CASE ReleaseLaunch(r)
  <2>1. CASE is_running
    BY <1>8, <2>1 DEF ReleaseLaunch, QueuedIsDriven, Watched, Driven, LaunchFailed, Died, is_running
  <2>2. CASE ~is_running
    BY <1>8, <2>2, StartDrives DEF ReleaseLaunch
  <2> QED
    BY <2>1, <2>2
<1> QED
  BY <1>3, <1>4, <1>5, <1>6, <1>7, <1>8 DEF ReleaseStep

\* A cancelled task is over before the Stop that awaits it goes on.
LEMMA AwaitedStep ==
  ASSUME QueueTypeOK, OneTurn, CancelAwaited, [QueueNext]_queueVars
  PROVE  CancelAwaited'
<1>1. turns \in Seq(Turn) /\ stopping \in [StopRequests -> StopRequest]
  BY DEF QueueTypeOK
<1>2. ASSUME UNCHANGED <<turns, stopping>> PROVE CancelAwaited'
  BY <1>2 DEF CancelAwaited, Interrupted, Awaited
<1>3. ASSUME NEW ts \in Seq(Turn), start(ts), UNCHANGED stopping,
             \A i \in 1 .. Len(ts) : i \in 1 .. Len(turns) /\ (ts[i] = turns[i] \/ ts[i] = At("end", 0))
      PROVE  CancelAwaited'
  <2>1. /\ Len(turns') = Len(ts) + 1 /\ turns'[Len(ts) + 1] = At("new", 0)
        /\ \A j \in 1 .. Len(ts) : turns'[j] = ts[j]
    BY <1>3, StartedTurn
  <2> SUFFICES ASSUME NEW j \in 1 .. Len(turns'), Interrupted(j)' PROVE Awaited(j)'
    BY DEF CancelAwaited
  <2>2. turns'[j] = turns[j] /\ j \in 1 .. Len(turns)
    BY <1>3, <2>1, AtPlace DEF Interrupted
  <2> QED
    BY <1>3, <2>2 DEF CancelAwaited, Interrupted, Awaited
<1>4. ASSUME NEW i \in 1 .. Len(turns), NEW place \in PCs, NEW hand \in Nat, Move(i, place, hand),
             UNCHANGED stopping, place = "stopped" => turns[i].cancel
      PROVE  CancelAwaited'
  <2>1. /\ Len(turns') = Len(turns) /\ turns'[i].pc = place /\ ~turns'[i].cancel
        /\ \A j \in 1 .. Len(turns) : j # i => turns'[j] = turns[j]
    BY <1>1, <1>4, MoveTurn
  <2> SUFFICES ASSUME NEW j \in 1 .. Len(turns'), Interrupted(j)' PROVE Awaited(j)'
    BY DEF CancelAwaited
  <2>2. CASE j # i
    BY <1>4, <2>1, <2>2 DEF CancelAwaited, Interrupted, Awaited
  <2>3. CASE j = i
    <3>1. place = "stopped" /\ Interrupted(i)
      BY <1>4, <2>1, <2>3 DEF Interrupted
    <3> QED
      BY <1>4, <2>1, <2>3, <3>1 DEF CancelAwaited, Awaited
  <2> QED
    BY <2>2, <2>3
<1>5. ASSUME NEW i \in 1 .. Len(turns), RunStep(i) PROVE CancelAwaited'
  BY <1>4, <1>5, RunMoves DEF PCs
<1>6. ASSUME NEW i \in 1 .. Len(turns), DrainStep(i) PROVE CancelAwaited'
  <2>1. CASE DrainLaunch(i)
    <3>1. turns[i].hand \in Nat
      BY TurnType DEF QueueTypeOK
    <3>2. /\ Moved(i, "end", 0) \in Seq(Turn) /\ Len(Moved(i, "end", 0)) = Len(turns)
          /\ Moved(i, "end", 0)[i] = At("end", 0)
          /\ \A j \in 1 .. Len(turns) : j # i => Moved(i, "end", 0)[j] = turns[j]
      BY <1>1, MovedTurn DEF PCs
    <3>3. start(Moved(i, "end", 0)) => CancelAwaited'
      BY <1>3, <2>1, <3>2 DEF DrainLaunch
    <3> QED
      BY <1>4, <2>1, <3>1, <3>3 DEF DrainLaunch, PCs
  <2>2. CASE ~DrainLaunch(i)
    <3>1. turns[i].hand \in Nat
      BY TurnType DEF QueueTypeOK
    <3> QED
      BY <1>4, <1>6, <2>2, <3>1, RowTaken DEF DrainStep, DrainHold, DrainNext, DrainDelete,
         LaunchFails, PutBackCount, PutBackInsert, PCs
  <2> QED
    BY <2>1, <2>2
<1>7. ASSUME NEW s \in Senders, Post(s) \/ PostStep(s) PROVE CancelAwaited'
  BY <1>1, <1>2, <1>3, <1>7 DEF Post, PostStep, PostCount, PostInsert
<1>8. ASSUME NEW r \in Releasers, ReleaseStep(r) \/ \E row \in rows : Ask(r, row)
      PROVE  CancelAwaited'
  BY <1>1, <1>2, <1>3, <1>8 DEF ReleaseStep, Ask, ReleaseRow, ReleaseCheck, ReleaseNext,
     ReleaseDelete, ReleaseLaunch
\* The request that cancels the running turn waits for it.
<1>9. ASSUME NEW s \in StopRequests, StopAsked(s) PROVE CancelAwaited'
  <2>1. \A q \in StopRequests : stopping[q].pc = "wait" => stopping'[q] = stopping[q]
    BY <1>1, <1>9 DEF StopAsked, Stops
  <2>2. CASE is_running
    <3> DEFINE n == Len(turns)
    <3>1. n \in 1 .. Len(turns) /\ turns[n].pc \in Unsettled
      BY <1>1, <2>2 DEF is_running
    <3>2. turns' = [turns EXCEPT ![n].cancel = (turns[n].pc # "dead")]
      BY <1>9, <2>2 DEF StopAsked
    <3>3. stopping'[s].pc = "wait" /\ stopping'[s].turn = n
      BY <1>1, <1>9, <2>2 DEF StopAsked, Stops
    <3>4. /\ Len(turns') = Len(turns)
          /\ turns'[n].pc = turns[n].pc /\ turns'[n].cancel = (turns[n].pc # "dead")
          /\ \A j \in 1 .. Len(turns) : j # n => turns'[j] = turns[j]
      BY <1>1, <3>1, <3>2, FlaggedTurn
    <3> HIDE DEF n
    <3> SUFFICES ASSUME NEW j \in 1 .. Len(turns'), Interrupted(j)' PROVE Awaited(j)'
      BY DEF CancelAwaited
    <3>5. CASE j = n
      BY <3>1, <3>3, <3>4, <3>5 DEF Interrupted, Awaited, Unsettled
    <3>6. CASE j # n
      BY <2>1, <3>1, <3>4, <3>6 DEF CancelAwaited, Interrupted, Awaited
    <3> QED
      BY <3>5, <3>6
  <2>3. CASE ~is_running
    BY <1>9, <2>1, <2>3 DEF StopAsked, CancelAwaited, Interrupted, Awaited
  <2> QED
    BY <2>2, <2>3
<1>10. ASSUME NEW s \in StopRequests, StopHold(s) PROVE CancelAwaited'
  <2>1. turns' = turns /\ \A q \in StopRequests : q # s => stopping'[q] = stopping[q]
    BY <1>1, <1>10 DEF StopHold, Stops
  <2>2. \A i \in 1 .. Len(turns) :
          stopping[s].turn = i => turns[i].pc \in {"end", "dead"}
    BY <1>10 DEF StopHold, TaskOver
  <2> SUFFICES ASSUME NEW j \in 1 .. Len(turns'), Interrupted(j)' PROVE Awaited(j)'
    BY DEF CancelAwaited
  <2>3. j \in 1 .. Len(turns) /\ Awaited(j)
    BY <2>1 DEF CancelAwaited, Interrupted
  <2>4. PICK q \in StopRequests : stopping[q].pc = "wait" /\ stopping[q].turn = j
    BY <2>3 DEF Awaited
  <2>5. q # s
    BY <2>2, <2>3, <2>4 DEF Awaited
  <2> QED
    BY <2>1, <2>3, <2>4, <2>5 DEF Awaited
<1>11. ASSUME Restart PROVE CancelAwaited'
  <2>1. Len(turns') = Len(turns) /\ \A j \in 1 .. Len(turns) : turns'[j] = At("end", 0)
    BY <1>1, <1>11 DEF Restart
  <2> QED
    BY <2>1, AtPlace DEF CancelAwaited, Interrupted
<1>12. ASSUME (\E row \in rows : Discard(row)) \/ UNCHANGED queueVars
       PROVE  CancelAwaited'
  BY <1>2, <1>12 DEF Discard, queueVars
<1> QED
  BY <1>5, <1>6, <1>7, <1>8, <1>9, <1>10, <1>11, <1>12 DEF QueueNext, TurnStep

LEMMA NextQueueInv == QueueInv /\ [QueueNext]_queueVars => QueueInv'
<1> SUFFICES ASSUME QueueInv, [QueueNext]_queueVars PROVE QueueInv'
  OBVIOUS
<1> USE DEF QueueInv
<1>1. QueueTypeOK' /\ OneTurn' /\ CancelAwaited'
  BY TypeStep, OneTurnStep, AwaitedStep
<1>2. UNCHANGED queueVars => QueuedIsDriven'
  BY DEF queueVars, QueuedIsDriven, Watched, Driven, LaunchFailed, Died, is_running
<1>3. QueuedIsDriven'
  BY <1>2, RunDrives, DrainDrives, RequestDrives, ReleaseDrives DEF QueueNext, TurnStep
<1> QED
  BY <1>1, <1>3

-----------------------------------------------------------------------------
\* The variables keep their types, and a row's id stays its own.
THEOREM QueueTypeCorrect == QueueSpec => []QueueTypeOK
<1>1. QueueInv => QueueTypeOK
  BY DEF QueueInv
<1> QED
  BY <1>1, InitQueueInv, NextQueueInv, PTL DEF QueueSpec

\* No conversation ever has two running turns, however many requests, drains
\* and releases race to start one.
THEOREM OneTurnAtATime == QueueSpec => []OneTurn
<1>1. QueueInv => OneTurn
  BY DEF QueueInv
<1> QED
  BY <1>1, InitQueueInv, NextQueueInv, PTL DEF QueueSpec

\* A prompt that was queued behind a running turn is never pending with nobody
\* left to look at it, across failed turns, stops at any await, releases and
\* restarts, unless a launch failed or a Stop killed the turn unsettled.
THEOREM QueueIsDriven == QueueSpec => []QueuedIsDriven
<1>1. QueueInv => QueuedIsDriven
  BY DEF QueueInv
<1> QED
  BY <1>1, InitQueueInv, NextQueueInv, PTL DEF QueueSpec
=============================================================================
