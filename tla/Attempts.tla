------------------------------ MODULE Attempts ------------------------------
(***************************************************************************)
(* runner: the turns of one conversation as attempts against the proxy.    *)
(*                                                                         *)
(* A turn is streamed (stream_turn, read by routes/chats.produce under a   *)
(* background turn) or blocking (run_turn under POST /messages); the two   *)
(* do not coordinate.  Every attempt takes a slot of the process, opens a  *)
(* connection and reads its frames.  An attempt that ends cleanly with no  *)
(* text and few tokens is retried; a blocking attempt that stalled is      *)
(* retried once after a delay.  What an attempt spent is handed over by    *)
(* two dictionaries keyed by conversation, or by the live usage event.     *)
(***************************************************************************)
EXTENDS Naturals, Sequences, FiniteSets

CONSTANTS Streams,     \* streamed turns of the conversation
          Blocks,      \* blocking turns of the conversation
          MaxAttempts, \* TURN_RETRY_MAX + 1
          Slots,       \* MAX_CONCURRENT
          ProxySlots,
          Reports,
          None,
          MaxFaults    \* bound: cut connections, timeouts, cancellations

Turns == Streams \cup Blocks
Connections == Turns \X (1..MaxAttempts)

ASSUME KindsDisjoint == Streams \cap Blocks = {}
ASSUME CountsPositive == MaxAttempts \in Nat \ {0} /\ Slots \in Nat \ {0}

VARIABLES
    pc,        \* where the turn is
    attempt,   \* the attempt under way
    heard,     \* what the attempt has read: text, usage, an error
    napped,    \* stopped_arriving_retry
    result,    \* how the turn ended
    shown,     \* attempts whose text the turn has given out
    waiting,   \* turns queued for a slot, in order
    holders,   \* attempts holding a slot
    stash,     \* _usage_by_chat[chat]: the frame and its size
    retried,   \* _retried_usage_by_chat[chat]
    spent,     \* frames the runner has received
    recorded,  \* how often each frame was recorded
    faults,
    stage, spoke, reported, errored, wire, gone, cut

INSTANCE Proxy

\* normalise_claude_frame: of a result, what was spent and then an error, or
\* one of them, or neither.
ASSUME ReportsAreResults ==
    Reports \subseteq {<<>>} \cup {<<u>> : u \in Usage} \cup {<<e>> : e \in Errors}
                        \cup {<<u, e>> : u \in Usage, e \in Errors}
ASSUME FaultsAreCounted == MaxFaults \in Nat

proxyVars == <<stage, spoke, reported, errored, wire, gone, cut>>
clientVars == <<pc, attempt, heard, napped, result, shown,
                waiting, holders, stash, retried, spent, recorded>>
vars == <<clientVars, faults, proxyVars>>

Places == {"new", "gate", "read", "notice", "nap", "store",
           "drain", "over"}
Results == {"none", "answer", "error", "refused", "stopped", "crash"}

Nothing == [text |-> FALSE, usage |-> "none", error |-> "none"]
Conn(t) == <<t, attempt[t]>>

Goto(t, place) == pc' = [pc EXCEPT ![t] = place]
Ends(t, how) ==
    /\ Goto(t, "over")
    /\ result' = [result EXCEPT ![t] = how]
    /\ heard' = [heard EXCEPT ![t] = Nothing]


\* _record_turn_usage for every frame of F.
Record(F) == recorded' = [f \in Connections |-> recorded[f] + IF f \in F THEN 1 ELSE 0]

Fault == faults < MaxFaults /\ faults' = faults + 1

----------------------------------------------------------------------------
Init ==
    /\ pc = [t \in Turns |-> "new"]
    /\ attempt = [t \in Turns |-> 1]
    /\ heard = [t \in Turns |-> Nothing]
    /\ napped = [t \in Turns |-> FALSE]
    /\ result = [t \in Turns |-> "none"]
    /\ shown = [t \in Turns |-> {}]
    /\ waiting = <<>>
    /\ holders = {}
    /\ stash = None
    /\ retried = {}
    /\ spent = {}
    /\ recorded = [f \in Connections |-> 0]
    /\ faults = 0
    /\ ProxyInit

\* An attempt asks for a slot, with its own variables afresh.
Asks(t) ==
    /\ Goto(t, "gate")
    /\ waiting' = Append(waiting, t)
    /\ heard' = [heard EXCEPT ![t] = Nothing]

\* run_turn and stream_turn: what an earlier turn left behind is dropped.
Begin(t) ==
    /\ pc[t] = "new"
    /\ retried' = {}
    /\ Asks(t)
    /\ UNCHANGED <<attempt, napped, result, shown, holders, stash, spent,
                   recorded, faults, proxyVars>>

\* produce: too little memory.
Refused(t) ==
    /\ pc[t] = "new" /\ t \in Streams
    /\ Ends(t, "refused")
    /\ UNCHANGED <<attempt, napped, shown, waiting, holders, stash, retried,
                   spent, recorded, faults, proxyVars>>

\* The slot, then the connection, its handshake and the turn.
TakeSlot(t) ==
    /\ pc[t] = "gate"
    /\ waiting # <<>> /\ Head(waiting) = t
    /\ Cardinality(holders) < Slots
    /\ waiting' = Tail(waiting)
    /\ holders' = holders \cup {Conn(t)}
    /\ stage' = [stage EXCEPT ![Conn(t)] = "queued"]
    /\ Goto(t, "read")
    /\ UNCHANGED <<attempt, heard, napped, result, shown, stash, retried,
                   spent, recorded, faults, spoke, reported, errored, wire,
                   gone, cut>>

----------------------------------------------------------------------------
\* Frames.
Coming(t, frame) ==
    /\ pc[t] = "read"
    /\ wire[Conn(t)] # <<>> /\ Head(wire[Conn(t)]) = frame

Reads(t, frame) ==
    /\ Coming(t, frame)
    /\ wire' = [wire EXCEPT ![Conn(t)] = Tail(@)]
    /\ UNCHANGED <<stage, spoke, reported, errored, gone, cut, faults>>

ReadText(t) ==
    /\ Reads(t, "text")
    /\ heard' = [heard EXCEPT ![t].text = TRUE]
    /\ shown' = [shown EXCEPT ![t] = IF t \in Streams THEN @ \cup {attempt[t]}
                                                       ELSE @]
    /\ UNCHANGED <<pc, attempt, napped, result, waiting, holders, stash,
                   retried, spent, recorded>>

\* A streamed attempt holds its usage back; a blocking one stashes it.
ReadUsage(t, u) ==
    /\ Reads(t, u)
    /\ spent' = spent \cup {Conn(t)}
    /\ IF t \in Streams
       THEN heard' = [heard EXCEPT ![t].usage = u] /\ UNCHANGED stash
       ELSE stash' = [frame |-> Conn(t), size |-> u] /\ UNCHANGED heard
    /\ UNCHANGED <<pc, attempt, napped, result, shown, waiting, holders,
                   retried, recorded>>

\* Mutant: the text is forgotten, only the tokens count.
FewTokens(text, usage) == usage # "many"

\* _is_non_answer
NonAnswer(text, usage) == ~text /\ usage # "many"

----------------------------------------------------------------------------
\* stream_turn.  What it holds back is yielded before the event that ends the
\* attempt; the attempt's generator stays suspended, slot and connection in
\* hand, until the event loop has finalised it.
Held(t) == IF heard[t].usage = "none" THEN {} ELSE {Conn(t)}

StreamFails(t) ==
    /\ Record(Held(t))
    /\ Goto(t, "drain")
    /\ UNCHANGED <<attempt, heard, napped, result, shown, waiting, holders,
                   stash, retried, spent>>

StreamReadsError(t) ==
    /\ t \in Streams
    /\ \E e \in Errors \cup {"eof"} : Reads(t, e)
    /\ StreamFails(t)

StreamTimesOut(t) ==
    /\ t \in Streams /\ pc[t] = "read"
    /\ Fault
    /\ StreamFails(t)
    /\ UNCHANGED proxyVars

Retries(t) ==
    attempt[t] < MaxAttempts /\ NonAnswer(heard[t].text, heard[t].usage)

\* A non-answer is replaced once the retry notice is out.
StreamRetries(t) ==
    /\ t \in Streams
    /\ Retries(t)
    /\ Reads(t, "done")
    /\ retried' = retried \cup Held(t)
    /\ Goto(t, "notice")
    /\ UNCHANGED <<attempt, heard, napped, result, shown, waiting, holders,
                   stash, spent, recorded>>

\* turns._run stops reading at "done".
StreamAnswers(t) ==
    /\ t \in Streams
    /\ ~Retries(t)
    /\ Reads(t, "done")
    /\ Record(Held(t))
    /\ Ends(t, "answer")
    /\ UNCHANGED <<attempt, napped, shown, waiting, holders, stash, retried,
                   spent>>

StreamAgain(t) ==
    /\ pc[t] = "notice"
    /\ attempt' = [attempt EXCEPT ![t] = @ + 1]
    /\ Asks(t)
    /\ UNCHANGED <<napped, result, shown, holders, stash, retried, spent,
                   recorded, faults, proxyVars>>

\* The slot and the connection of an attempt come back together.
Releases(c) ==
    /\ holders' = holders \ {c}
    /\ HangsUp(c)
    /\ UNCHANGED <<stage, spoke, reported, errored, cut>>

\* Mutant: only the generator of a turn that is over is finalised.
AbandonedAtEnd(c) == c[1] \in Streams /\ pc[c[1]] \in {"drain", "over"}

Abandoned(c) ==
    c[1] \in Streams /\ (c[2] < attempt[c[1]] \/ pc[c[1]] \in {"drain", "over"})

Finalise(c) ==
    /\ c \in holders
    /\ Abandoned(c)
    /\ Releases(c)
    /\ UNCHANGED <<pc, attempt, heard, napped, result, shown, waiting, stash,
                   retried, spent, recorded, faults>>

\* A waiter that is cancelled leaves the semaphore's queue.
LeavesQueue(t) ==
    IF pc[t] = "gate"
    THEN \E i \in DOMAIN waiting :
            /\ waiting[i] = t
            /\ waiting' = SubSeq(waiting, 1, i - 1) \o SubSeq(waiting, i + 1, Len(waiting))
    ELSE UNCHANGED waiting

\* The turn's task is cancelled: a Stop.
Cancel(t) ==
    /\ t \in Streams
    /\ pc[t] \notin {"new", "over"}
    /\ Fault
    /\ Ends(t, "stopped")
    /\ LeavesQueue(t)
    /\ IF Conn(t) \in holders THEN Releases(Conn(t))
                              ELSE UNCHANGED <<holders, proxyVars>>
    /\ UNCHANGED <<attempt, napped, shown, stash, retried, spent, recorded>>

----------------------------------------------------------------------------
\* run_turn.
BlockReadsError(t) ==
    /\ t \in Blocks
    /\ \E e \in Errors :
        Reads(t, e) /\ heard' = [heard EXCEPT ![t].error = e]
    /\ UNCHANGED <<pc, attempt, napped, result, shown, waiting, holders,
                   stash, retried, spent, recorded>>

\* The stream of a blocking attempt ends, closed by the proxy or cut.
BlockEnds(t) ==
    /\ t \in Blocks
    /\ Coming(t, "done") \/ Coming(t, "eof")
    /\ Releases(Conn(t))

Stalled(t) == heard[t].error = "stalled" /\ ~napped[t]

BlockNaps(t) ==
    /\ BlockEnds(t)
    /\ Stalled(t)
    /\ Goto(t, "nap")
    /\ napped' = [napped EXCEPT ![t] = TRUE]
    /\ UNCHANGED <<attempt, heard, result, shown, waiting, stash, retried,
                   spent, recorded, faults>>

BlockRaises(t) ==
    /\ BlockEnds(t)
    /\ heard[t].error # "none" /\ ~Stalled(t)
    /\ Ends(t, "error")
    /\ UNCHANGED <<attempt, napped, shown, waiting, stash, retried, spent,
                   recorded, faults>>

BlockTimesOut(t) ==
    /\ t \in Blocks /\ pc[t] = "read"
    /\ Fault
    /\ Releases(Conn(t))
    /\ Ends(t, "error")
    /\ UNCHANGED <<attempt, napped, shown, waiting, stash, retried, spent,
                   recorded>>

Stashed == IF stash = None THEN {} ELSE {stash.frame}

Empty(t) ==
    /\ attempt[t] < MaxAttempts
    /\ NonAnswer(heard[t].text, IF stash = None THEN "none" ELSE stash.size)

BlockReturns(t) ==
    /\ BlockEnds(t)
    /\ heard[t].error = "none" /\ ~Empty(t)
    /\ shown' = [shown EXCEPT ![t] = IF heard[t].text THEN {attempt[t]} ELSE {}]
    /\ Goto(t, "store")
    /\ UNCHANGED <<attempt, heard, napped, result, waiting, stash, retried,
                   spent, recorded, faults>>

BlockAgain(t) ==
    /\ BlockEnds(t)
    /\ heard[t].error = "none" /\ Empty(t)
    /\ retried' = retried \cup Stashed
    /\ stash' = None
    /\ attempt' = [attempt EXCEPT ![t] = @ + 1]
    /\ Asks(t)
    /\ UNCHANGED <<napped, result, shown, spent, recorded, faults>>

NapAgain(t) ==
    /\ pc[t] = "nap"
    /\ attempt[t] < MaxAttempts
    /\ attempt' = [attempt EXCEPT ![t] = @ + 1]
    /\ Asks(t)
    /\ UNCHANGED <<napped, result, shown, holders, stash, retried, spent,
                   recorded, faults, proxyVars>>

\* The loop is used up: run_turn returns the chunks of the attempt before,
\* which held no text, or raises where there was none.
FellThrough(t) == pc[t] = "nap" /\ attempt[t] = MaxAttempts

NapExhausted(t) ==
    /\ FellThrough(t)
    /\ IF attempt[t] > 1 THEN Goto(t, "store") /\ UNCHANGED <<result, heard>>
                         ELSE Ends(t, "crash")
    /\ UNCHANGED <<attempt, napped, shown, waiting, holders, stash, retried,
                   spent, recorded, faults, proxyVars>>

\* handle_submit_message: take_last_usage ...
Store(t) ==
    /\ pc[t] = "store"
    /\ Record(Stashed)
    /\ stash' = None
    /\ result' = [result EXCEPT ![t] = "answer"]
    /\ Goto(t, "drain")
    /\ UNCHANGED <<attempt, heard, napped, shown, waiting, holders, retried,
                   spent, faults, proxyVars>>

\* Mutant: the frames are read and not taken.
DrainKeeps(t) ==
    /\ pc[t] = "drain"
    /\ Record(retried)
    /\ Ends(t, IF result[t] = "none" THEN "error" ELSE result[t])
    /\ UNCHANGED <<attempt, napped, shown, waiting, holders, stash, retried,
                   spent, faults, proxyVars>>

\* ... and take_retried_usage, which produce calls too when its loop ends.
Drain(t) ==
    /\ pc[t] = "drain"
    /\ Record(retried)
    /\ retried' = {}
    /\ Ends(t, IF result[t] = "none" THEN "error" ELSE result[t])
    /\ UNCHANGED <<attempt, napped, shown, waiting, holders, stash, spent,
                   faults, proxyVars>>

----------------------------------------------------------------------------
Step(t) ==
    \/ Begin(t) \/ Refused(t) \/ TakeSlot(t)
    \/ ReadText(t) \/ (\E u \in Usage : ReadUsage(t, u))
    \/ StreamReadsError(t) \/ StreamTimesOut(t) \/ StreamRetries(t)
    \/ StreamAnswers(t) \/ StreamAgain(t) \/ Cancel(t)
    \/ BlockReadsError(t) \/ BlockNaps(t) \/ BlockRaises(t)
    \/ BlockTimesOut(t) \/ BlockReturns(t) \/ BlockAgain(t)
    \/ NapAgain(t) \/ NapExhausted(t) \/ Store(t) \/ Drain(t)

Serves(c) == Server(c) /\ UNCHANGED <<clientVars, faults>>

Loses(c) == Cut(c) /\ Fault /\ UNCHANGED clientVars

Next ==
    \/ \E t \in Turns : Step(t)
    \/ \E c \in Connections : Finalise(c) \/ Serves(c) \/ Loses(c)

\* The event loop runs what is ready and a child exits or is terminated after
\* 300 seconds: while something that was begun can go on, something does.  A
\* turn has finitely many steps, so no part needs a fairness of its own.
Progress ==
    \/ \E t \in Turns : pc[t] # "new" /\ Step(t)
    \/ \E c \in Connections : Finalise(c) \/ Serves(c)

Spec == Init /\ [][Next]_vars /\ WF_vars(Progress)

----------------------------------------------------------------------------
TypeOK ==
    /\ pc \in [Turns -> Places]
    /\ attempt \in [Turns -> 1..MaxAttempts]
    /\ heard \in [Turns -> [text: BOOLEAN, usage: Usage \cup {"none"},
                            error: Errors \cup {"none"}]]
    /\ napped \in [Turns -> BOOLEAN]
    /\ result \in [Turns -> Results]
    /\ shown \in [Turns -> SUBSET (1..MaxAttempts)]
    /\ waiting \in Seq(Turns)
    /\ holders \subseteq Connections
    /\ stash \in {None} \cup [frame: Connections, size: Usage]
    /\ retried \subseteq Connections
    /\ spent \subseteq Connections
    /\ recorded \in [Connections -> Nat]
    /\ faults \in 0..MaxFaults
    /\ ProxyTypeOK

\* What an attempt spent is recorded at most once, and nothing is recorded
\* that was not received (record_usage_frame, take_retried_usage).
RecordedOnce ==
    /\ TypeOK
    /\ \A f \in Connections : recorded[f] <= 1 /\ (recorded[f] = 1 => f \in spent)

\* The text a turn gives out is one attempt's, and an answer shows the text
\* of the attempt that was kept: an attempt that has said something is never
\* replaced by another (_is_non_answer, stream_turn's error branch).
OneAttemptShown ==
    \A t \in Turns :
        /\ \A a, b \in shown[t] : a = b
        /\ result[t] = "answer" /\ t \in Streams => shown[t] \subseteq {attempt[t]}

\* A streamed turn counts as answered only when the proxy has closed the
\* attempt's stream itself: a stream cut short is an error.
StreamedWhole ==
    \A t \in Streams :
        result[t] = "answer" => stage[Conn(t)] = "closed" /\ Conn(t) \notin cut

\* An answer is one attempt, and the whole of it: neither a retry nor a stream
\* that is cut short makes an answer of pieces.
AnswerIsOneWhole == OneAttemptShown /\ StreamedWhole

\* Every turn that begins comes to its end, although each of its attempts
\* queues for a slot that an attempt it has left behind may still hold; then
\* every slot is back and no process runs on for a client that has hung up.
Quiet ==
    /\ \A t \in Turns : pc[t] \in {"new", "over"}
    /\ holders = {}
    /\ \A c \in gone : stage[c] = "closed"

SettlesDown == <>[]Quiet

\* Every frame an answered turn has received is recorded once it is over:
\* attempts a retry discarded are drained and recorded like the kept one.
SpendingRecorded ==
    \A t \in Turns :
        pc[t] = "over" /\ result[t] = "answer" =>
            \A a \in 1..MaxAttempts : <<t, a>> \in spent => recorded[<<t, a>>] = 1

\* run_turn's loop always returns on its last iteration.
LoopReturns == \A t \in Turns : ~FellThrough(t)
=============================================================================
