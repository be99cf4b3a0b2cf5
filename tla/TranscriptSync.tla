--------------------------- MODULE TranscriptSync ---------------------------
(***************************************************************************)
(* Following a transcript: routes/chats._sync_linked_chat.                 *)
(*                                                                         *)
(* A conversation linked to a CLI session has two records: the session's   *)
(* transcript, a file that the terminal and the turns sent from the        *)
(* console both append to, and the stored messages.  Polls import what was *)
(* appended past a stored offset, one at a time; a turn sent from here     *)
(* stores its own pair when it finishes and then steps the offset over it. *)
(* The file is modelled line by line.  A line or row is told from others by *)
(* who wrote it; what the code compares is its role and content, its text, *)
(* and texts repeat: the same thing can be said twice.                     *)
(***************************************************************************)
EXTENDS Naturals, Sequences, FiniteSets, SequencesExt, FiniteSetsExt

CONSTANTS Pollers,     \* requests that sync: the open page, the sweep, a GET
          Turns,       \* turns sent from the console
          Questions,   \* questions asked in the terminal
          Wordings,    \* what the lines and rows of a behaviour may say
          MaxLines,    \* bound: lines the terminal writes
          DedupWindow, \* _SYNC_DEDUP_WINDOW
          MaxWriteFaults,  \* bound: writes that fail on a locked database
          None

ASSUME BoundsAreNat == MaxLines \in Nat /\ DedupWindow \in Nat /\ MaxWriteFaults \in Nat
ASSUME QuestionsAreFinite == IsFiniteSet(Questions)
ASSUME NoneIsNoPoller == None \notin Pollers

VARIABLES
    file,      \* the transcript's complete lines
    messages,  \* the stored rows, in the order of their ids
    offset,    \* chats.transcript_offset, in lines
    seen,      \* chats.question_ids
    lock,      \* the poller that holds _sync_lock_for(chat), or None
    pc,        \* where each poller is
    local,     \* what each poller has read
    turn,      \* where each turn is
    mark,      \* the end of file a finishing turn has read
    history,   \* lines a skip stepped over or went back behind, rows that a failed
               \* write lost, and rows taken for another row that was stored
    faults,
    text       \* the (role, content) of each line and row: chosen once

syncVars == <<file, messages, offset, seen, lock, pc, local, turn, mark, history,
          faults, text>>

Texts(kinds, ids) == {<<k, i>> : k \in kinds, i \in ids}
Line == Texts({"say"}, 1..MaxLines) \cup Texts({"ask", "answer"}, Questions)
        \cup Texts({"prompt", "reply"}, Turns)
Row == Line \cup Texts({"attached"}, Questions) \cup Texts({"partial"}, Turns)

Local == [from: Nat, open: SUBSET Questions, fresh: Seq(Questions),
          rows: Seq(Row), to: Nat]
Nothing == [from |-> 0, open |-> {}, fresh |-> <<>>, rows |-> <<>>, to |-> 0]

SyncInit ==
    /\ file = <<>>
    /\ messages = <<>>
    /\ offset = 0
    /\ seen = {}
    /\ lock = None
    /\ pc = [p \in Pollers |-> "idle"]
    /\ local = [p \in Pollers |-> Nothing]
    /\ turn = [t \in Turns |-> "idle"]
    /\ mark = [t \in Turns |-> 0]
    /\ history = [skipped |-> {}, rewound |-> {}, lost |-> {}, taken |-> {}]
    /\ faults = 0
    /\ text \in Wordings

----------------------------------------------------------------------------
\* The terminal.
Writes(line) == file' = Append(file, line)

Wrote(kinds) == Cardinality({i \in DOMAIN file : file[i][1] \in kinds})
Says == Wrote({"say"})

TerminalWrites(line) ==
    /\ Wrote({"say", "ask", "answer"}) < MaxLines
    /\ Writes(line)
    /\ UNCHANGED <<messages, offset, seen, lock, pc, local, turn, mark,
                   history, faults, text>>

TerminalSays == TerminalWrites(<<"say", Says + 1>>)

TerminalAsks(q) ==
    ~Contains(file, <<"ask", q>>) /\ TerminalWrites(<<"ask", q>>)

TerminalAnswers(q) ==
    /\ Contains(file, <<"ask", q>>) /\ ~Contains(file, <<"answer", q>>)
    /\ TerminalWrites(<<"answer", q>>)

----------------------------------------------------------------------------
\* A turn sent from here.  Until it has settled turns.is_running says so.
Running == \E t \in Turns : turn[t] \notin {"idle", "over"}

TurnGoes(t, from, to) ==
    /\ turn[t] = from
    /\ turn' = [turn EXCEPT ![t] = to]
    /\ UNCHANGED <<seen, lock, pc, local, text>>

WriteFault == faults < MaxWriteFaults /\ faults' = faults + 1

\* The CLI appends the prompt as soon as it starts ...
TurnStarts(t) ==
    /\ ~Running
    /\ TurnGoes(t, "idle", "prompted")
    /\ Writes(<<"prompt", t>>)
    /\ UNCHANGED <<messages, offset, mark, history, faults>>

\* ... and its reply when it has it.
CliReply(t) ==
    /\ TurnGoes(t, "prompted", "replied")
    /\ Writes(<<"reply", t>>)
    /\ UNCHANGED <<messages, offset, mark, history, faults>>

\* finish(failed), or a stop before any text: nothing is stored or skipped.
TurnFails(t) ==
    /\ TurnGoes(t, "prompted", "over")
    /\ UNCHANGED <<file, messages, offset, mark, history, faults>>

\* finish(cancelled) with some text: the pair is stored, nothing is skipped.
TurnStops(t) ==
    /\ TurnGoes(t, "prompted", "over")
    /\ messages' = messages \o << <<"prompt", t>>, <<"partial", t>> >>
    /\ UNCHANGED <<file, offset, mark, history, faults>>

FinishStores(t) ==
    /\ TurnGoes(t, "replied", "stored")
    /\ messages' = messages \o << <<"prompt", t>>, <<"reply", t>> >>
    /\ UNCHANGED <<file, offset, mark, history, faults>>

FinishStoreFails(t) ==
    /\ WriteFault
    /\ TurnGoes(t, "replied", "over")
    /\ UNCHANGED <<file, messages, offset, mark, history>>

\* _skip_transcript_to_end reads the file to its end ...
FinishReads(t) ==
    /\ TurnGoes(t, "stored", "read")
    /\ mark' = [mark EXCEPT ![t] = Len(file)]
    /\ UNCHANGED <<file, messages, offset, history, faults>>

Jump(to) ==
    /\ offset' = to
    /\ history' = [history EXCEPT
                     !.skipped = @ \cup {file[i] : i \in (offset + 1)..to},
                     !.rewound = @ \cup {file[i] : i \in (to + 1)..offset}]

\* ... and writes where it ended, whatever the offset is by now.
FinishSkips(t) ==
    /\ TurnGoes(t, "read", "over")
    /\ Jump(mark[t])
    /\ UNCHANGED <<file, messages, mark, faults>>

Turn(t) ==
    \/ TurnStarts(t) \/ CliReply(t) \/ TurnFails(t)
    \/ TurnStops(t) \/ FinishStores(t) \/ FinishStoreFails(t)
    \/ FinishReads(t) \/ FinishSkips(t)

----------------------------------------------------------------------------
\* _sync_linked_chat.
Goes(p, from, to) ==
    /\ pc[p] = from
    /\ pc' = [pc EXCEPT ![p] = to]
    /\ UNCHANGED <<file, turn, mark, text>>

\* The poll is over: the lock is free and its variables are gone.
Leaves(p, from) ==
    /\ Goes(p, from, "idle")
    /\ lock' = None
    /\ local' = [local EXCEPT ![p] = Nothing]

\* _scan_questions_sync: the questions without an answer, newest first.
Unanswered ==
    {q \in Questions : Contains(file, <<"ask", q>>) /\ ~Contains(file, <<"answer", q>>)}

AskedAfter(q, r) ==
    \E m, n \in DOMAIN file : m > n /\ file[m] = <<"ask", q>> /\ file[n] = <<"ask", r>>
NewestFirst(Q) ==
    {s \in [1..Cardinality(Q) -> Q] :
        \A i, j \in DOMAIN s : i < j => AskedAfter(s[i], s[j])}

\* A poll begins with the offset as it is stored now and the questions not yet
\* seen.
Begins(p) ==
    \E fresh \in NewestFirst(Unanswered \ seen) :
        local' = [local EXCEPT ![p] = [from |-> offset, open |-> Unanswered, fresh |-> fresh,
                                       rows |-> <<>>, to |-> 0]]

\* Mutant: one importer per request, not per conversation.
EnterUnlocked(p) ==
    /\ ~Running
    /\ Goes(p, "idle", "read")
    /\ lock' = p
    /\ Begins(p)
    /\ UNCHANGED <<messages, offset, seen, history, faults>>

\* The lock, then the stand-aside check.
Enter(p) ==
    /\ lock = None
    /\ ~Running
    /\ Goes(p, "idle", "read")
    /\ lock' = p
    /\ Begins(p)
    /\ UNCHANGED <<messages, offset, seen, history, faults>>

Attached(ids) == [i \in 1..Len(ids) |-> <<"attached", ids[i]>>]

\* Imported before offsets existed: rows are stored and the offset is 0.
CaughtUpAlready(p) == local[p].from = 0 /\ messages # <<>>

SkipReads(p) ==
    /\ CaughtUpAlready(p)
    /\ Goes(p, "read", "skip")
    /\ local' = [local EXCEPT ![p].to = Len(file)]
    /\ UNCHANGED <<messages, offset, seen, lock, history, faults>>

\* The questions are returned to the page, not stored.  "blocked" is what the
\* terminal's screen says of them.
SkipWrites(p, blocked) ==
    /\ Leaves(p, "skip")
    /\ Jump(local[p].to)
    /\ seen' = IF blocked THEN ToSet(local[p].fresh) ELSE {}
    /\ UNCHANGED <<messages, faults>>


ReadTail(p) ==
    /\ ~CaughtUpAlready(p)
    /\ Goes(p, "read", "move")
    /\ local' = [local EXCEPT ![p] =
                    [@ EXCEPT !.to = Len(file),
                              !.rows = SubSeq(file, local[p].from + 1, Len(file))
                                       \o Attached(local[p].fresh)]]
    /\ UNCHANGED <<messages, offset, seen, lock, history, faults>>

ForgetAnswered(p) ==
    seen' = IF local[p].open = {} THEN {} ELSE seen

\* The stored row the i-th of n dropped rows is taken for.
Twin(tail, n, i) == tail[Len(tail) - n + i]

\* _drop_already_stored: the longest suffix of the stored rows that says what a
\* prefix of the imported ones says is taken for that prefix.
Overlap(tail, rows) ==
    Max({0} \cup {n \in 1..Len(rows) : n <= Len(tail)
                    /\ \A i \in 1..n : text[Twin(tail, n, i)] = text[rows[i]]})

StoredTail == SubSeq(messages, Max({1, Len(messages) - DedupWindow + 1}), Len(messages))

\* The offset is written first, if there was anything to read; then what is
\* stored already is dropped.
Moves(p) == offset' = IF local[p].to = local[p].from THEN offset ELSE local[p].to

Dropped(p) == Overlap(StoredTail, local[p].rows)
New(p) == SubSeq(local[p].rows, Dropped(p) + 1, Len(local[p].rows))

\* What was dropped, each row with the stored one it was taken for.
Pairs(p) == {<<local[p].rows[i], Twin(StoredTail, Dropped(p), i)>> : i \in 1..Dropped(p)}
Drops(p) == history' = [history EXCEPT !.taken = @ \cup {q \in Pairs(p) : q[1] # q[2]}]

MoveOffset(p) ==
    /\ New(p) # <<>>
    /\ Goes(p, "move", "store")
    /\ Moves(p)
    /\ Drops(p)
    /\ local' = [local EXCEPT ![p].rows = New(p)]
    /\ UNCHANGED <<messages, seen, lock, faults>>

\* Nothing to import, or all of it stored already: the poll ends here.
NothingNew(p) ==
    /\ New(p) = <<>>
    /\ Leaves(p, "move")
    /\ Moves(p)
    /\ Drops(p)
    /\ IF local[p].rows = <<>> THEN ForgetAnswered(p) ELSE UNCHANGED seen
    /\ UNCHANGED <<messages, faults>>

MoveFails(p) ==
    /\ WriteFault
    /\ Leaves(p, "move")
    /\ UNCHANGED <<messages, offset, seen, history>>

\* The question ids are replaced, not added to.
Store(p) ==
    /\ Leaves(p, "store")
    /\ messages' = messages \o local[p].rows
    /\ IF local[p].fresh # <<>> THEN seen' = ToSet(local[p].fresh)
                                ELSE ForgetAnswered(p)
    /\ UNCHANGED <<offset, history, faults>>

StoreFails(p) ==
    /\ WriteFault
    /\ Leaves(p, "store")
    /\ history' = [history EXCEPT !.lost = @ \cup ToSet(local[p].rows)]
    /\ UNCHANGED <<messages, offset, seen>>

Poll(p) ==
    \/ Enter(p) \/ SkipReads(p)
    \/ (\E blocked \in BOOLEAN : SkipWrites(p, blocked))
    \/ ReadTail(p) \/ MoveOffset(p) \/ NothingNew(p) \/ MoveFails(p)
    \/ Store(p) \/ StoreFails(p)

SyncNext ==
    \/ TerminalSays
    \/ \E q \in Questions : TerminalAsks(q) \/ TerminalAnswers(q)
    \/ \E t \in Turns : Turn(t)
    \/ \E p \in Pollers : Poll(p)

\* The open page polls every five seconds and the sweep every thirty, so some
\* poll always follows; a turn that has started comes to its end.
SyncSpec ==
    /\ SyncInit /\ [][SyncNext]_syncVars
    /\ WF_syncVars(\E p \in Pollers : Poll(p))
    /\ WF_syncVars(\E t \in Turns : turn[t] # "idle" /\ Turn(t))

----------------------------------------------------------------------------
SyncTypeOK ==
    /\ file \in Seq(Line)
    /\ messages \in Seq(Row)
    /\ offset \in 0..Len(file)
    /\ seen \subseteq Questions
    /\ lock \in Pollers \cup {None}
    /\ pc \in [Pollers -> {"idle", "read", "skip", "move", "store"}]
    /\ local \in [Pollers -> Local]
    /\ \A p \in Pollers : local[p].from <= Len(file) /\ local[p].to <= Len(file)
    /\ turn \in [Turns -> {"idle", "prompted", "replied", "stored",
                           "read", "over"}]
    /\ mark \in [Turns -> 0..Len(file)]
    /\ history \in [skipped: SUBSET Line, rewound: SUBSET Line, lost: SUBSET Row,
                    taken: SUBSET (Row \X Row)]
    /\ faults \in 0..MaxWriteFaults
    /\ text \in Wordings

Places(row) == {i \in 1..Len(messages) : messages[i] = row}
Once(row) == Cardinality(Places(row)) <= 1

\* What the terminal writes is stored once and in its order, however polls
\* and turns fall together (_sync_lock_for, the re-read of the offset): a line
\* is stored again only where a turn's late skip has set the offset back
\* before it.
TerminalOnce ==
    \A m, n \in 1..MaxLines : <<"say", m>> \notin history.rewound =>
        \A i \in Places(<<"say", m>>), j \in Places(<<"say", n>>) :
            /\ m = n => i = j
            /\ m < n => i < j

\* Nothing is lost between two polls: a line behind the offset is stored, or
\* about to be by the poll that holds the lock, unless a skip stepped over it,
\* the write of its row failed, or a poll took it for a row already stored.
Kept == ToSet(messages) \cup UNION {ToSet(local[p].rows) : p \in Pollers}
Excused == history.skipped \cup history.lost \cup {q[1] : q \in history.taken}

LostOnlyBySkip ==
    \A i \in 1..offset : file[i][1] = "say" => file[i] \in Kept \cup Excused

\* A line is taken for a stored row only if it says what that row says: what is
\* dropped can be read in the conversation, though it may have been said twice.
TakenSaysTheSame ==
    \A q \in history.taken : q[2] \in ToSet(messages) /\ text[q[1]] = text[q[2]]

\* What the terminal writes reaches the conversation exactly once, but for
\* these excuses.
TerminalKept == SyncTypeOK /\ TerminalOnce /\ LostOnlyBySkip /\ TakenSaysTheSame


\* A question is attached once: question_ids keeps the next poll from
\* inserting it again.
AttachedOnce == \A q \in Questions : Once(<<"attached", q>>)

\* A write that fails loses nothing: the next poll reads the same range.
NothingLost ==
    \A i \in 1..offset : file[i] \in Kept \cup history.skipped

\* _drop_already_stored keeps "what is genuinely new".  Something said twice,
\* with a poll in between, refutes it: the second time is dropped.
RepeatsKept ==
    \A i \in 1..offset :
        file[i][1] = "say" => file[i] \in Kept \cup history.skipped \cup history.lost
=============================================================================
