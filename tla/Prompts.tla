------------------------------ MODULE Prompts ------------------------------
(***************************************************************************)
(* Answering the prompts of a session that runs in a terminal: from the    *)
(* page (routes/chats, /api/chats/id/question), by the watcher of armed    *)
(* chats (auto_answer), and through prompts.py, which finds the window,    *)
(* looks at it and presses keys.                                           *)
(*                                                                         *)
(* Nothing ties a key to a prompt.  The transcript says what is pending,   *)
(* and not always what is on screen; the screen is looked at, and a key    *)
(* that was pressed takes effect some time later, on whatever is there.    *)
(* One session.  What a request answers, its log and the page's bar are    *)
(* left out.                                                               *)
(***************************************************************************)
EXTENDS Naturals, Sequences, FiniteSets, FiniteSetsExt

CONSTANTS Script,       \* the prompts that the session will raise, in order
          Handlers,     \* requests of the page
          MaxMoves,     \* max_moves
          MaxRequests,  \* bound: requests ever made
          Presses,      \* the keys that somebody presses at the terminal
          MaxPresses,   \* bound: how often
          MaxFaults,    \* bound: failures
          Watcher, Person

Actors == Handlers \cup {Watcher}
Ids == 1..Len(Script)
Kind(n) == Script[n].kind
Labels(n) == Script[n].labels
\* What tells a prompt from others: the first sixty characters of the question,
\* or its longest line on screen.  None, or those of another prompt too.
Needle(n) == Script[n].words

ASSUME ScriptIsPrompts ==
    /\ Script \in Seq([kind : {"question", "plan", "permission"}, labels : Seq(STRING),
                       words : STRING])
    /\ \A n \in Ids : Len(Labels(n)) > 0
ASSUME MovesAreCounted == MaxMoves \in Nat
ASSUME PressesAreKeys == Presses \subseteq {"up", "down", "enter", "escape"}
ASSUME ActorsDiffer == Watcher \notin Handlers /\ Person \notin Handlers /\ Watcher # Person

VARIABLES
    asked,    \* how many prompts have their call in the transcript
    results,  \* those whose result is there
    raised,   \* how many have been on screen
    lost,     \* those that a stopped session was asking
    shown,    \* the prompt on screen, or 0
    above,    \* other prompts whose words can be read on screen, over that one
    cursor,   \* the highlighted option
    keys,     \* pressed and not yet taken by the terminal
    armed,    \* chats.auto_answer and auto_answer_recommend
    doing,    \* what each request and the watcher are doing
    spent     \* of the bounds

vars == <<asked, results, raised, lost, shown, above, cursor, keys, armed, doing, spent>>
session == <<asked, results, raised, lost>>
screen == <<shown, above, cursor>>

Modes == {"off", "approve", "recommend"}

Idle == [at |-> "idle", purpose |-> "none", label |-> "none", pending |-> 0, needle |-> FALSE,
         on |-> 0, want |-> 0, saw |-> 0, moves |-> 0, alone |-> FALSE]

Init ==
    /\ asked = 0 /\ results = {} /\ raised = 0 /\ lost = {}
    /\ shown = 0 /\ above = {} /\ cursor = 1
    /\ keys = <<>>
    /\ armed \in Modes
    /\ doing = [p \in Actors |-> Idle]
    /\ spent = [requests |-> 0, presses |-> 0, faults |-> 0]

Spend(what, max) == spent[what] < max /\ spent' = [spent EXCEPT ![what] = @ + 1]
Fault == Spend("faults", MaxFaults)

-----------------------------------------------------------------------------
(* The session and its terminal. *)

\* One message may make several calls.  The next waits for their results.
Write ==
    /\ shown = 0 /\ raised = asked /\ (1..asked) \ results \subseteq lost
    /\ asked' \in (asked + 1)..Len(Script)
    /\ UNCHANGED <<results, raised, lost, screen, keys, armed, doing, spent>>

\* Those whose words somebody looks for, or still may.
Sought == {n \in 1..asked : (Kind(n) = "question" /\ n \notin results)
                            \/ \E p \in Handlers : doing[p].needle /\ doing[p].pending = n}

\* A prompt is drawn under what the terminal still shows, which may be the words
\* of any that were closed, lost, or are yet to come.
Raise ==
    /\ shown = 0 /\ raised < asked
    /\ raised' = raised + 1 /\ shown' = raised + 1 /\ cursor' = 1
    /\ above' \in SUBSET (Sought \ {raised + 1})
    /\ UNCHANGED <<asked, results, lost, keys, armed, doing, spent>>

Result(n) ==
    /\ n <= raised /\ n # shown /\ n \notin results \cup lost
    /\ results' = results \cup {n}
    /\ UNCHANGED <<asked, raised, lost, screen, keys, armed, doing, spent>>

\* The session is stopped, and resumed: what it was asking stays unanswered in
\* the transcript.
Die ==
    /\ Fault
    /\ lost' = (1..asked) \ results
    /\ raised' = asked /\ shown' = 0 /\ above' = {} /\ cursor' = 1
    /\ doing' = [p \in Actors |-> [doing[p] EXCEPT !.alone = FALSE]]
    /\ keys' = <<>>
    /\ UNCHANGED <<asked, results, armed>>

\* A key, who pressed it, and ghosts of why a prompt is closed with it: the
\* option, the prompt that was on screen as the target was found, the one that
\* was meant, and whether nobody else's key came between.
Key(p, press) ==
    [press |-> press, by |-> p, want |-> 0, label |-> "none", on |-> 0, meant |-> 0,
     alone |-> FALSE]

LastKey(p, press) ==
    LET d == doing[p]
    IN  [Key(p, press) EXCEPT !.want = d.want, !.label = d.label, !.on = d.on,
             !.meant = IF d.needle THEN d.pending ELSE d.on,
             !.alone = d.alone /\ \A i \in DOMAIN keys : keys[i].by = p]

Press(press) ==
    /\ Spend("presses", MaxPresses)
    /\ keys' = Append(keys, Key(Person, press))
    /\ UNCHANGED <<session, screen, armed, doing>>

Process ==
    LET key == Head(keys)
        closes == key.press \in {"enter", "escape"}
    IN  /\ keys # <<>>
        /\ keys' = Tail(keys)
        /\ shown' = IF closes THEN 0 ELSE shown
        /\ above' = IF closes THEN {} ELSE above
        /\ cursor' = CASE closes -> 1
                       [] shown # 0 /\ key.press = "down" /\ cursor < Len(Labels(shown)) -> cursor + 1
                       [] shown # 0 /\ key.press = "up" /\ cursor > 1 -> cursor - 1
                       [] OTHER -> cursor
        /\ doing' = [p \in Actors |-> [doing[p] EXCEPT !.alone = @ /\ p = key.by]]
        /\ UNCHANGED <<session, armed, spent>>

\* A key may go unheeded.
Unheeded ==
    /\ keys # <<>> /\ Fault
    /\ keys' = Tail(keys)
    /\ UNCHANGED <<session, screen, armed, doing>>

-----------------------------------------------------------------------------
(* What is pending: the newest call without a result, or the screen. *)

Become(p, d) == doing' = [doing EXCEPT ![p] = d]
Step(p, from) == doing[p].at = from /\ UNCHANGED <<session, screen, armed>>

Request(p, purpose, want) ==
    /\ Step(p, "idle") /\ Spend("requests", MaxRequests)
    /\ Become(p, [Idle EXCEPT !.at = "transcript", !.purpose = purpose, !.want = want])
    /\ UNCHANGED keys

\* The chats are read anew by every pass.  The pause between two is longer than
\* the terminal needs for a key.
chats_with_auto_answer ==
    /\ Step(Watcher, "idle") /\ armed # "off" /\ keys = <<>>
    /\ Become(Watcher, [Idle EXCEPT !.at = "transcript", !.purpose = armed])
    /\ UNCHANGED <<keys, spent>>

\* An approval and what is on screen are the watcher's to accept, a question
\* only where the chat says so, and then only what the question recommends.
Found(p, n, needle, approval) ==
    LET d == [doing[p] EXCEPT !.pending = n, !.needle = needle]
    IN  Become(p, CASE p # Watcher -> [d EXCEPT !.at = "find"]
                    [] p = Watcher /\ approval ->
                          [d EXCEPT !.at = "options", !.label = "yes", !.needle = FALSE]
                    [] p = Watcher /\ ~approval /\ d.purpose = "recommend" ->
                          [d EXCEPT !.at = "options", !.label = "recommended", !.needle = FALSE]
                    [] OTHER -> Idle)

\* Mutant: the results are not looked at.
OpenEver == {n \in 1..asked : Kind(n) # "permission"}

Open == {n \in 1..asked : Kind(n) # "permission" /\ n \notin results}

pending_question(p) ==
    /\ Step(p, "transcript")
    /\ IF Open # {} THEN LET n == Max(Open)
                         IN  Found(p, n, Kind(n) = "question", Kind(n) = "plan")
       ELSE Become(p, [doing[p] EXCEPT !.at = "screen"])
    /\ UNCHANGED <<keys, spent>>

read_prompt(p) ==
    /\ Step(p, "screen")
    /\ IF shown # 0 THEN Found(p, shown, TRUE, TRUE) ELSE Become(p, Idle)
    /\ UNCHANGED <<keys, spent>>

-----------------------------------------------------------------------------
(* The window, and the keys. *)

\* Mutant: any prompt on screen will do.
TargetAny(p) == shown # 0

\* The words of a prompt are somewhere on the screen, its own or another's.
Readable(n) == \/ Needle(n) = ""
               \/ \E m \in above \cup {shown} : Needle(m) = Needle(n)

\* A prompt is on screen and, where there is a needle, the needle too.
Target(p) == shown # 0 /\ (doing[p].needle => Readable(doing[p].pending))

find_target(p) ==
    /\ Step(p, "find")
    /\ Become(p, IF ~Target(p) THEN Idle
                 ELSE [doing[p] EXCEPT !.at = IF doing[p].purpose = "dismiss" THEN "escape"
                                              ELSE "look",
                                       !.on = shown, !.saw = cursor,
                                       !.alone = IF p = Watcher THEN @ ELSE keys = <<>>])
    /\ UNCHANGED <<keys, spent>>

\* Mutant: the last option of the kind will do where there are several.
ChosenAny(n, label) == {Max({1} \cup {i \in DOMAIN Labels(n) : Labels(n)[i] = label})}

\* choose_affirmative and choose_recommended: the one option of its kind.
Chosen(n, label) ==
    LET right == {i \in DOMAIN Labels(n) : Labels(n)[i] = label}
    IN  IF Cardinality(right) = 1 THEN right ELSE {}

\* The labels of what is on screen, whatever was found pending.
pending_options ==
    LET right == IF shown = 0 THEN {} ELSE Chosen(shown, doing[Watcher].label)
    IN  /\ Step(Watcher, "options")
        /\ Become(Watcher, IF right = {} THEN Idle
                        ELSE [doing[Watcher] EXCEPT !.at = "find", !.want = Max(right),
                                                 !.alone = keys = <<>>])
        /\ UNCHANGED <<keys, spent>>

\* answer: where to go from the option that is highlighted.
Towards(p, saw) ==
    LET d == doing[p]
    IN  Become(p, CASE saw = d.want -> [d EXCEPT !.saw = saw, !.at = "enter"]
                    [] saw # d.want /\ d.moves < MaxMoves -> [d EXCEPT !.saw = saw, !.at = "move"]
                    [] OTHER -> Idle)

Look(p) ==
    /\ Step(p, "look")
    /\ IF shown # 0 /\ doing[p].want \in DOMAIN Labels(shown) THEN Towards(p, cursor)
       ELSE Become(p, Idle)
    /\ UNCHANGED <<keys, spent>>

\* The first look falls back on the one that found the target.
LookAtOld(p) ==
    /\ Step(p, "look") /\ Fault
    /\ IF doing[p].want \in DOMAIN Labels(doing[p].on) THEN Towards(p, doing[p].saw)
       ELSE Become(p, Idle)
    /\ UNCHANGED keys

Move(p) ==
    /\ Step(p, "move")
    /\ keys' = Append(keys, Key(p, IF doing[p].want > doing[p].saw THEN "down" ELSE "up"))
    /\ Become(p, [doing[p] EXCEPT !.at = "look_again", !.moves = @ + 1])
    /\ UNCHANGED spent

\* Mutant: the highlight is taken to have moved as it was told.
MovedUnseen(p) ==
    Towards(p, IF doing[p].want > doing[p].saw THEN doing[p].saw + 1 ELSE doing[p].saw - 1)

\* The highlight is looked at again, and one that has not moved ends the try.
Moved(p) == IF shown = 0 \/ cursor = doing[p].saw THEN Become(p, Idle) ELSE Towards(p, cursor)

LookAgain(p) ==
    /\ Step(p, "look_again")
    /\ Moved(p)
    /\ UNCHANGED <<keys, spent>>

Confirm(p, at, press) ==
    /\ Step(p, at)
    /\ keys' = Append(keys, LastKey(p, press))
    /\ Become(p, Idle)
    /\ UNCHANGED spent

\* A key is refused, the window cannot be read, the handler ends.
Fails(p) ==
    /\ Step(p, doing[p].at) /\ doing[p].at # "idle" /\ Fault
    /\ Become(p, Idle)
    /\ UNCHANGED keys

handle_chat_auto_answer_set(to) ==
    /\ armed' = to /\ Spend("requests", MaxRequests)
    /\ UNCHANGED <<session, screen, keys, doing>>

-----------------------------------------------------------------------------
Do(p) ==
    \/ pending_question(p) \/ read_prompt(p) \/ find_target(p)
    \/ Look(p) \/ Move(p) \/ LookAgain(p)
    \/ Confirm(p, "enter", "enter") \/ Confirm(p, "escape", "escape")

Watch == chats_with_auto_answer \/ pending_options \/ Do(Watcher)

Next ==
    \/ Write \/ Raise \/ Die \/ Process \/ Unheeded
    \/ \E n \in Ids : Result(n)
    \/ \E press \in Presses : Press(press)
    \/ \E p \in Handlers :
          \/ Request(p, "dismiss", 0)
          \/ \E n \in Ids : \E want \in DOMAIN Labels(n) : Request(p, "answer", want)
          \/ Do(p)
    \/ \E p \in Actors : LookAtOld(p) \/ Fails(p)
    \/ \E to \in Modes \ {armed} : handle_chat_auto_answer_set(to)
    \/ Watch

\* The terminal takes its keys, the transcript gets its results, and the
\* watcher's loop goes on.
Spec ==
    /\ Init /\ [][Next]_vars
    /\ WF_vars(Process) /\ WF_vars(Watch) /\ WF_vars(\E n \in Ids : Result(n))

-----------------------------------------------------------------------------
(* Properties. *)

TypeOK ==
    /\ asked \in 0..Len(Script) /\ raised \in 0..asked
    /\ results \cup lost \subseteq 1..asked
    /\ shown \in {0, raised} /\ (shown # 0 => cursor \in DOMAIN Labels(shown))
    /\ above \subseteq (1..asked) \ {shown}
    /\ armed \in Modes
    /\ \A i \in DOMAIN keys :
          /\ keys[i].press \in {"up", "down", "enter", "escape"}
          /\ keys[i].by \in Actors \cup {Person}
    /\ \A p \in Actors :
          /\ {doing[p].pending, doing[p].on} \subseteq 0..Len(Script)
          /\ doing[p].at = "enter" => doing[p].saw = doing[p].want
          /\ doing[p].moves \in 0..MaxMoves

Taken == IF keys = <<>> THEN [press |-> "none", alone |-> FALSE] ELSE Head(keys)

\* No other prompt on screen has the words of this one.
Told(n) == Needle(n) # "" /\ \A m \in above \cup ({shown} \ {n}) : Needle(m) # Needle(n)

\* What the terminal takes from a request confirms the option, or closes the
\* prompt, that was on screen as the window was found, however late keys are
\* taken; and whatever the transcript says meanwhile it is the prompt that the
\* request was for, where words can tell.  All unless somebody else's key came
\* between.
KeysLand ==
    /\ TypeOK
    /\ Taken.alone /\ Taken.press \in {"enter", "escape"} =>
          /\ shown = Taken.on
          /\ Taken.press = "enter" => cursor = Taken.want
          /\ Told(Taken.meant) => shown = Taken.meant

\* The watcher accepts nothing but the one option that plainly accepts, on
\* whichever prompt it lands, unless somebody else's key came between.
AutoAccepts ==
    Taken.alone /\ Taken.press = "enter" /\ Taken.by = Watcher =>
        {i \in DOMAIN Labels(shown) : Labels(shown)[i] = Taken.label} = {cursor}

\* A permission prompt with one plain yes does not stay on screen of a chat that
\* is armed, but where a question of the transcript stands before it.
ArmedIsAnswered ==
    \A n \in {k \in Ids : Kind(k) = "permission" /\ Chosen(k, "yes") # {}} :
        shown = n ~> \/ shown # n \/ armed = "off"
                     \/ \E q \in Open : Kind(q) = "question" /\ (q \in lost \/ q > raised)

-----------------------------------------------------------------------------
(* What documents and comments say, and the code does not do. *)

\* "A structured question is somebody's decision to make" (auto_answer.py:107).
QuestionsAreYours ==
    Taken.alone /\ Taken.press = "enter" /\ Taken.by = Watcher /\ Kind(shown) = "question" =>
        Taken.label = "recommended"

\* "the needle merely checks that the prompt on screen is the question we think
\* we are answering" (prompts.py:416-418).
KeysLandAsMeant ==
    Taken.alone /\ Taken.press \in {"enter", "escape"} => shown = Taken.meant

\* KeysLand, whoever presses keys meanwhile.
KeysLandAmongOthers ==
    Taken.press = "enter" /\ Taken.by # Person => shown = Taken.on /\ cursor = Taken.want
=============================================================================
